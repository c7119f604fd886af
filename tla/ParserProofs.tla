---------------------------- MODULE ParserProofs ----------------------------
(***************************************************************************)
(* What holds of the parser whatever the tokens: it never leaves them, and *)
(* the errors it reports come in their order, though a failed rule may     *)
(* have read far beyond the token it complains about.                      *)
(***************************************************************************)
EXTENDS Parser, StackLemmas

-----------------------------------------------------------------------------
(* The tokens end with the end of file, which no rule goes past.           *)
Ends == Len(tokens) \in Nat /\ Len(tokens) # 0 /\ Kind(Len(tokens)) = "eof"

(* What a rule gives at p: the place behind what it read, and for a        *)
(* failure a token it has seen; a failure at its first token read nothing. *)
Sound(r, p) ==
  /\ r.pos \in Positions /\ p <= r.pos
  /\ ~r.ok => r.error \in p..r.pos /\ (r.error = p => r.pos = p)

Consumes(r, p) == Sound(r, p) /\ (r.ok => p < r.pos)

(* The rest of a list of operands may be empty; nothing else may.          *)
Good(rule, r, p) == Sound(r, p) /\ (rule \notin {"addends", "factors"} => Consumes(r, p))

(* Names for the tokens that the SMT translation cannot spell.             *)
Comma == ","
Semicolon == ";"
OpenBrace == "{"
CloseBrace == "}"

LEMMA Punctuation ==
  Comma # "eof" /\ Semicolon # "eof" /\ OpenBrace # "eof" /\ CloseBrace # "eof"
  BY Zenon DEF Comma, Semicolon, OpenBrace, CloseBrace

LEMMA NextPlace ==
  ASSUME Ends, NEW p \in Positions, Kind(p) # "eof"
  PROVE  p + 1 \in Positions
  BY DEF Ends, Kind, Positions

LEMMA SoundLater ==
  ASSUME NEW r, NEW p \in Positions, NEW q \in Positions, p < q, Sound(r, q)
  PROVE  Consumes(r, p)
  BY DEF Sound, Consumes, Positions

LEMMA ParsedConsumes ==
  ASSUME NEW p \in Positions, NEW q \in Positions, p < q, NEW node
  PROVE  Consumes(Parsed(node, q), p)
  BY DEF Sound, Consumes, Positions, Parsed

LEMMA FailedConsumes ==
  ASSUME NEW p \in Positions, NEW q \in Positions, p <= q, NEW e \in p..q, e = p => q = p
  PROVE  Consumes(Failed(q, e), p)
  BY DEF Sound, Consumes, Positions, Failed

LEMMA ExpectAtConsumes ==
  ASSUME Ends, NEW p \in Positions, NEW kind, kind # "eof", NEW node
  PROVE  Consumes(expectAt(kind, p, node), p)
<1>1. CASE Kind(p) = kind
  <2>1. p + 1 \in Positions /\ p < p + 1
    BY <1>1, NextPlace DEF Positions
  <2> QED
    BY <1>1, <2>1, ParsedConsumes DEF expectAt
<1>2. CASE Kind(p) # kind
  BY <1>2, FailedConsumes DEF expectAt, Positions
<1> QED
  BY <1>1, <1>2

LEMMA ExpectIs ==
  ASSUME NEW kind, NEW r
  PROVE  expect(kind, r) = IF r.ok THEN expectAt(kind, r.pos, r.node) ELSE r
  BY SMT DEF Then, expect

LEMMA ExpectConsumes ==
  ASSUME Ends, NEW p \in Positions, NEW kind, kind # "eof", NEW r, Sound(r, p)
  PROVE  Consumes(expect(kind, r), p)
<1>1. CASE r.ok
  <2>1. r.pos \in Positions /\ p <= r.pos
    BY DEF Sound
  <2>2. Consumes(expectAt(kind, r.pos, r.node), r.pos)
    BY <2>1, ExpectAtConsumes
  <2>3. Consumes(expectAt(kind, r.pos, r.node), p)
    BY <2>1, <2>2, SoundLater DEF Sound, Consumes, Positions
  <2> QED
    BY <1>1, <2>3, ExpectIs
<1>2. CASE ~r.ok
  BY <1>2, ExpectIs DEF Consumes
<1> QED
  BY <1>1, <1>2

-----------------------------------------------------------------------------
(* The rules of expressions.  Each of these equations says what a rule     *)
(* does with what the others gave it, without Then's detour.               *)

Single(x) == Parsed(<<x.node>>, x.pos)
Longer(x, y) == Parsed(<<x.node>> \o y.node, y.pos)

LEMMA ExpressionIs ==
  ASSUME NEW f, NEW p, NEW x, x = f[<<"simple", p>>], NEW y, y = f[<<"expression", x.pos + 1>>]
  PROVE  Expression(f, p) =
           IF ~x.ok THEN x
           ELSE IF Kind(x.pos) # "=" THEN x
           ELSE IF y.ok THEN Assigned(x, y) ELSE y
<1> DEFINE Inner(a, r) == CHOOSE s \in {IF v.ok THEN Assigned(a, v) ELSE v : v \in {r}} : TRUE
           Follow(a) == IF Kind(a.pos) = "=" THEN Inner(a, f[<<"expression", a.pos + 1>>]) ELSE a
           Outer(r) == CHOOSE s \in {IF v.ok THEN Follow(v) ELSE v : v \in {r}} : TRUE
<1>1. Expression(f, p) = Outer(f[<<"simple", p>>])
  BY Zenon DEF Expression, Then
<1>2. \A a, r : Inner(a, r) = IF r.ok THEN Assigned(a, r) ELSE r
  BY ONLY SMT
<1> HIDE DEF Inner, Follow
<1>3. \A r : Outer(r) = IF r.ok THEN Follow(r) ELSE r
  BY ONLY SMT
<1> HIDE DEF Outer
<1> QED
  BY <1>1, <1>2, <1>3, Zenon DEF Follow

LEMMA SimpleIs ==
  ASSUME NEW f, NEW p, NEW x, x = f[<<"additive", p>>], NEW y, y = f[<<"additive", x.pos + 1>>]
  PROVE  SimpleExpression(f, p) =
           IF ~x.ok THEN x
           ELSE IF Kind(x.pos) # "<" THEN x
           ELSE IF y.ok THEN Compared(x, y) ELSE y
<1> DEFINE Inner(a, r) == CHOOSE s \in {IF v.ok THEN Compared(a, v) ELSE v : v \in {r}} : TRUE
           Follow(a) == IF Kind(a.pos) = "<" THEN Inner(a, f[<<"additive", a.pos + 1>>]) ELSE a
           Outer(r) == CHOOSE s \in {IF v.ok THEN Follow(v) ELSE v : v \in {r}} : TRUE
<1>1. SimpleExpression(f, p) = Outer(f[<<"additive", p>>])
  BY Zenon DEF SimpleExpression, Then
<1>2. \A a, r : Inner(a, r) = IF r.ok THEN Compared(a, r) ELSE r
  BY ONLY SMT
<1> HIDE DEF Inner, Follow
<1>3. \A r : Outer(r) = IF r.ok THEN Follow(r) ELSE r
  BY ONLY SMT
<1> HIDE DEF Outer
<1> QED
  BY <1>1, <1>2, <1>3, Zenon DEF Follow

LEMMA OperationIs ==
  ASSUME NEW f, NEW p, NEW op, NEW operand, NEW more,
         NEW x, x = f[<<operand, p>>], NEW y, y = f[<<more, x.pos>>]
  PROVE  Operation(op, operand, more, f, p) =
           IF ~x.ok THEN x
           ELSE IF y.ok THEN Parsed(Fold(op, x.node, y.node), y.pos) ELSE y
<1> DEFINE Inner(a, r) == CHOOSE s \in {IF v.ok THEN Parsed(Fold(op, a.node, v.node), v.pos) ELSE v : v \in {r}} : TRUE
           Follow(a) == Inner(a, f[<<more, a.pos>>])
           Outer(r) == CHOOSE s \in {IF v.ok THEN Follow(v) ELSE v : v \in {r}} : TRUE
<1>1. Operation(op, operand, more, f, p) = Outer(f[<<operand, p>>])
  BY Zenon DEF Operation, Made, Then
<1>2. \A a, r : Inner(a, r) = IF r.ok THEN Parsed(Fold(op, a.node, r.node), r.pos) ELSE r
  BY ONLY SMT
<1> HIDE DEF Inner, Follow
<1>3. \A r : Outer(r) = IF r.ok THEN Follow(r) ELSE r
  BY ONLY SMT
<1> HIDE DEF Outer
<1> QED
  BY <1>1, <1>2, <1>3, Zenon DEF Follow

LEMMA OperandsIs ==
  ASSUME NEW f, NEW p, NEW op, NEW operand, NEW more, Kind(p) = op,
         NEW x, x = f[<<operand, p + 1>>], NEW y, y = f[<<more, x.pos>>]
  PROVE  Operands(op, operand, more, f, p) =
           IF ~x.ok THEN x
           ELSE IF y.ok THEN Longer(x, y) ELSE y
<1> DEFINE Inner(a, r) == CHOOSE s \in {IF v.ok THEN Longer(a, v) ELSE v : v \in {r}} : TRUE
           Follow(a) == Inner(a, f[<<more, a.pos>>])
           Outer(r) == CHOOSE s \in {IF v.ok THEN Follow(v) ELSE v : v \in {r}} : TRUE
<1>1. Operands(op, operand, more, f, p) = Outer(f[<<operand, p + 1>>])
  BY Zenon DEF Operands, Made, Longer, Then
<1>2. \A a, r : Inner(a, r) = IF r.ok THEN Longer(a, r) ELSE r
  BY ONLY SMT
<1> HIDE DEF Inner, Follow
<1>3. \A r : Outer(r) = IF r.ok THEN Follow(r) ELSE r
  BY ONLY SMT
<1> HIDE DEF Outer
<1> QED
  BY <1>1, <1>2, <1>3, Zenon DEF Follow

LEMMA ArgsIs ==
  ASSUME NEW f, NEW p, NEW x, x = f[<<"expression", p>>], NEW y, y = f[<<"args", x.pos + 1>>]
  PROVE  Args(f, p) =
           IF ~x.ok THEN x
           ELSE IF Kind(x.pos) # Comma THEN Single(x)
           ELSE IF y.ok THEN Longer(x, y) ELSE y
<1> DEFINE Inner(a, r) == CHOOSE s \in {IF v.ok THEN Longer(a, v) ELSE v : v \in {r}} : TRUE
           Follow(a) == IF Kind(a.pos) = Comma THEN Inner(a, f[<<"args", a.pos + 1>>])
                       ELSE Single(a)
           Outer(r) == CHOOSE s \in {IF v.ok THEN Follow(v) ELSE v : v \in {r}} : TRUE
<1>1. Args(f, p) = Outer(f[<<"expression", p>>])
  BY Zenon DEF Comma, Args, Made, Longer, Single, Then
<1>2. \A a, r : Inner(a, r) = IF r.ok THEN Longer(a, r) ELSE r
  BY ONLY SMT
<1> HIDE DEF Inner, Follow
<1>3. \A r : Outer(r) = IF r.ok THEN Follow(r) ELSE r
  BY ONLY SMT
<1> HIDE DEF Outer
<1> QED
  BY <1>1, <1>2, <1>3, Zenon DEF Follow

LEMMA MadeIs ==
  ASSUME NEW r
  PROVE  /\ Made(r, InParentheses) = IF r.ok THEN Parsed(InParentheses(r.node), r.pos) ELSE r
         /\ Made(r, Var) = IF r.ok THEN Parsed(Var(r.node), r.pos) ELSE r
         /\ Made(r, Call) = IF r.ok THEN Parsed(Call(r.node), r.pos) ELSE r
         /\ Made(r, ExprStmt) = IF r.ok THEN Parsed(ExprStmt(r.node), r.pos) ELSE r
         /\ Made(r, ReturnStmt) = IF r.ok THEN Parsed(ReturnStmt(r.node), r.pos) ELSE r
  BY SMT DEF Made, Then

LEMMA MadeConsumes ==
  ASSUME NEW p \in Positions, NEW r, Consumes(r, p)
  PROVE  /\ Consumes(Made(r, InParentheses), p) /\ Consumes(Made(r, Var), p)
         /\ Consumes(Made(r, Call), p) /\ Consumes(Made(r, ExprStmt), p)
         /\ Consumes(Made(r, ReturnStmt), p)
<1>1. CASE r.ok
  <2>1. r.pos \in Positions /\ p < r.pos
    BY <1>1 DEF Consumes, Sound
  <2>2. \A node : Consumes(Parsed(node, r.pos), p)
    BY <2>1, ParsedConsumes
  <2> QED
    BY <1>1, <2>2, MadeIs
<1>2. CASE ~r.ok
  BY <1>2, MadeIs
<1> QED
  BY <1>1, <1>2

-----------------------------------------------------------------------------
(* One rule at p, given what the rules give behind p and those of higher   *)
(* precedence give at p: it is sound, and nothing else decides about it.   *)

Later(f, g, p) ==
  \A rule \in Rules, q \in Positions :
    p < q => Good(rule, f[<<rule, q>>], q) /\ g[<<rule, q>>] = f[<<rule, q>>]

LEMMA BehindFirst ==
  ASSUME NEW f, NEW g, NEW p \in Positions, Later(f, g, p),
         NEW x, Consumes(x, p), x.ok, NEW rule \in Rules,
         NEW y, y = f[<<rule, x.pos>>], NEW z, z = g[<<rule, x.pos>>]
  PROVE  Consumes(y, p) /\ Sound(y, x.pos) /\ z = y
<1>1. x.pos \in Positions /\ p < x.pos
  BY DEF Consumes, Sound
<1>2. Good(rule, f[<<rule, x.pos>>], x.pos) /\ g[<<rule, x.pos>>] = f[<<rule, x.pos>>]
  BY <1>1 DEF Later
<1>3. Consumes(y, p)
  BY <1>1, <1>2, SoundLater DEF Good
<1> QED
  BY <1>2, <1>3 DEF Good

LEMMA BehindNext ==
  ASSUME Ends, NEW f, NEW g, NEW p \in Positions, Later(f, g, p),
         NEW x, Consumes(x, p), x.ok, Kind(x.pos) # "eof", NEW rule \in Rules,
         NEW y, y = f[<<rule, x.pos + 1>>], NEW z, z = g[<<rule, x.pos + 1>>]
  PROVE  /\ Consumes(y, p) /\ Sound(y, x.pos + 1) /\ z = y
         /\ x.pos + 1 \in Positions /\ x.pos <= x.pos + 1
<1>1. x.pos \in Positions /\ p < x.pos
  BY DEF Consumes, Sound
<1>2. x.pos + 1 \in Positions /\ p < x.pos + 1 /\ x.pos <= x.pos + 1
  BY <1>1, NextPlace DEF Positions
<1>3. Good(rule, f[<<rule, x.pos + 1>>], x.pos + 1)
      /\ g[<<rule, x.pos + 1>>] = f[<<rule, x.pos + 1>>]
  BY <1>2 DEF Later
<1>4. Consumes(y, p)
  BY <1>2, <1>3, SoundLater DEF Good
<1> QED
  BY <1>2, <1>3, <1>4 DEF Good

LEMMA AssignedConsumes ==
  ASSUME NEW p \in Positions, NEW x, Consumes(x, p), x.ok,
         NEW y, y.ok, NEW q \in Positions, x.pos <= q, Sound(y, q)
  PROVE  Consumes(Assigned(x, y), p) /\ Consumes(Compared(x, y), p)
<1>1. /\ x.pos \in Positions /\ y.pos \in Positions /\ p < x.pos /\ x.pos <= y.pos
      /\ p \in Int /\ x.pos \in Int /\ y.pos \in Int
  BY DEF Consumes, Sound, Positions
<1>2. /\ Consumes(Parsed(Assign(x.node, y.node), y.pos), p)
      /\ Consumes(Parsed(Binary("<", x.node, y.node), y.pos), p)
  BY <1>1, ParsedConsumes
<1>3. Consumes(Failed(y.pos, x.pos), p) /\ Consumes(Failed(y.pos, y.pos), p)
  <2>1. p <= y.pos /\ x.pos \in p..y.pos /\ y.pos \in p..y.pos /\ x.pos # p /\ y.pos # p
    BY <1>1
  <2> QED
    BY <1>1, <2>1, FailedConsumes
<1> QED
  BY <1>2, <1>3 DEF Assigned, Compared

LEMMA ExpressionStep ==
  ASSUME Ends, NEW f, NEW g, NEW p \in Positions, Later(f, g, p),
         Consumes(f[<<"simple", p>>], p), g[<<"simple", p>>] = f[<<"simple", p>>]
  PROVE  Consumes(Expression(f, p), p) /\ Expression(g, p) = Expression(f, p)
<1>1. PICK x : x = f[<<"simple", p>>]
  OBVIOUS
<1>2. PICK y : y = f[<<"expression", x.pos + 1>>]
  OBVIOUS
<1>3. PICK z : z = g[<<"expression", x.pos + 1>>]
  OBVIOUS
<1>4. Expression(f, p) = IF ~x.ok THEN x
                         ELSE IF Kind(x.pos) # "=" THEN x
                         ELSE IF y.ok THEN Assigned(x, y) ELSE y
  BY <1>1, <1>2, ExpressionIs
<1>5. Expression(g, p) = IF ~x.ok THEN x
                         ELSE IF Kind(x.pos) # "=" THEN x
                         ELSE IF z.ok THEN Assigned(x, z) ELSE z
  BY <1>1, <1>3, ExpressionIs
<1>6. Consumes(x, p)
  BY <1>1
<1>7. CASE x.ok /\ Kind(x.pos) = "="
  <2>1. /\ Consumes(y, p) /\ Sound(y, x.pos + 1) /\ z = y
        /\ x.pos + 1 \in Positions /\ x.pos <= x.pos + 1
    <3>1. "expression" \in Rules
      BY DEF Rules
    <3>2. Kind(x.pos) # "eof"
      BY <1>7
    <3> QED
      BY <1>2, <1>3, <1>6, <1>7, <3>1, <3>2, BehindNext
  <2>2. y.ok => Consumes(Assigned(x, y), p)
    BY <1>6, <1>7, <2>1, AssignedConsumes
  <2> QED
    BY <1>4, <1>5, <1>7, <2>1, <2>2
<1>8. CASE ~(x.ok /\ Kind(x.pos) = "=")
  BY <1>4, <1>5, <1>6, <1>8
<1> QED
  BY <1>7, <1>8

LEMMA SimpleStep ==
  ASSUME Ends, NEW f, NEW g, NEW p \in Positions, Later(f, g, p),
         Consumes(f[<<"additive", p>>], p), g[<<"additive", p>>] = f[<<"additive", p>>]
  PROVE  Consumes(SimpleExpression(f, p), p) /\ SimpleExpression(g, p) = SimpleExpression(f, p)
<1>1. PICK x : x = f[<<"additive", p>>]
  OBVIOUS
<1>2. PICK y : y = f[<<"additive", x.pos + 1>>]
  OBVIOUS
<1>3. PICK z : z = g[<<"additive", x.pos + 1>>]
  OBVIOUS
<1>4. SimpleExpression(f, p) = IF ~x.ok THEN x
                               ELSE IF Kind(x.pos) # "<" THEN x
                               ELSE IF y.ok THEN Compared(x, y) ELSE y
  BY <1>1, <1>2, SimpleIs
<1>5. SimpleExpression(g, p) = IF ~x.ok THEN x
                               ELSE IF Kind(x.pos) # "<" THEN x
                               ELSE IF z.ok THEN Compared(x, z) ELSE z
  BY <1>1, <1>3, SimpleIs
<1>6. Consumes(x, p)
  BY <1>1
<1>7. CASE x.ok /\ Kind(x.pos) = "<"
  <2>1. /\ Consumes(y, p) /\ Sound(y, x.pos + 1) /\ z = y
        /\ x.pos + 1 \in Positions /\ x.pos <= x.pos + 1
    <3>1. "additive" \in Rules
      BY DEF Rules
    <3>2. Kind(x.pos) # "eof"
      BY <1>7
    <3> QED
      BY <1>2, <1>3, <1>6, <1>7, <3>1, <3>2, BehindNext
  <2>2. y.ok => Consumes(Compared(x, y), p)
    BY <1>6, <1>7, <2>1, AssignedConsumes
  <2> QED
    BY <1>4, <1>5, <1>7, <2>1, <2>2
<1>8. CASE ~(x.ok /\ Kind(x.pos) = "<")
  BY <1>4, <1>5, <1>6, <1>8
<1> QED
  BY <1>7, <1>8

LEMMA OperationStep ==
  ASSUME Ends, NEW f, NEW g, NEW p \in Positions, Later(f, g, p),
         NEW op, NEW operand, NEW more \in Rules,
         Consumes(f[<<operand, p>>], p), g[<<operand, p>>] = f[<<operand, p>>]
  PROVE  /\ Consumes(Operation(op, operand, more, f, p), p)
         /\ Operation(op, operand, more, g, p) = Operation(op, operand, more, f, p)
<1>1. PICK x : x = f[<<operand, p>>]
  OBVIOUS
<1>2. PICK y : y = f[<<more, x.pos>>]
  OBVIOUS
<1>3. PICK z : z = g[<<more, x.pos>>]
  OBVIOUS
<1>4. Operation(op, operand, more, f, p) =
        IF ~x.ok THEN x
        ELSE IF y.ok THEN Parsed(Fold(op, x.node, y.node), y.pos) ELSE y
  BY <1>1, <1>2, OperationIs
<1>5. Operation(op, operand, more, g, p) =
        IF ~x.ok THEN x
        ELSE IF z.ok THEN Parsed(Fold(op, x.node, z.node), z.pos) ELSE z
  BY <1>1, <1>3, OperationIs
<1>6. Consumes(x, p)
  BY <1>1
<1>7. CASE x.ok
  <2>1. Consumes(y, p) /\ z = y
    BY <1>2, <1>3, <1>6, <1>7, BehindFirst
  <2>2. y.ok => Consumes(Parsed(Fold(op, x.node, y.node), y.pos), p)
    <3>1. y.ok => y.pos \in Positions /\ p < y.pos
      BY <2>1 DEF Consumes, Sound
    <3> QED
      BY <3>1, ParsedConsumes
  <2> QED
    BY <1>4, <1>5, <1>7, <2>1, <2>2
<1>8. CASE ~x.ok
  BY <1>4, <1>5, <1>6, <1>8
<1> QED
  BY <1>7, <1>8

LEMMA OperandsStep ==
  ASSUME Ends, NEW f, NEW g, NEW p \in Positions, Later(f, g, p),
         NEW op, op # "eof", NEW operand \in Rules \ {"addends", "factors"}, NEW more \in Rules
  PROVE  /\ Sound(Operands(op, operand, more, f, p), p)
         /\ Operands(op, operand, more, g, p) = Operands(op, operand, more, f, p)
<1>1. CASE Kind(p) = op
  <2>1. PICK x : x = f[<<operand, p + 1>>]
    OBVIOUS
  <2>2. PICK y : y = f[<<more, x.pos>>]
    OBVIOUS
  <2>3. PICK z : z = g[<<more, x.pos>>]
    OBVIOUS
  <2>4. p + 1 \in Positions /\ p < p + 1
    BY <1>1, NextPlace DEF Positions
  <2>5. Consumes(x, p + 1) /\ g[<<operand, p + 1>>] = x
    BY <2>1, <2>4 DEF Later, Good
  <2>6. Operands(op, operand, more, f, p) =
          IF ~x.ok THEN x
          ELSE IF y.ok THEN Longer(x, y) ELSE y
    BY <1>1, <2>1, <2>2, OperandsIs
  <2>7. Operands(op, operand, more, g, p) =
          IF ~x.ok THEN x
          ELSE IF z.ok THEN Longer(x, z) ELSE z
    BY <1>1, <2>5, <2>3, OperandsIs
  <2>8. Consumes(x, p)
    BY <2>4, <2>5, SoundLater DEF Consumes
  <2>9. CASE x.ok
    <3>1. Consumes(y, p) /\ z = y
      BY <2>2, <2>3, <2>8, <2>9, BehindFirst
    <3>2. y.ok => Consumes(Longer(x, y), p)
      <4>1. y.ok => y.pos \in Positions /\ p < y.pos
        BY <3>1 DEF Consumes, Sound
      <4> QED
        BY <4>1, ParsedConsumes DEF Longer
    <3> QED
      BY <2>6, <2>7, <2>9, <3>1, <3>2 DEF Consumes
  <2>10. CASE ~x.ok
    BY <2>6, <2>7, <2>8, <2>10 DEF Consumes
  <2> QED
    BY <2>9, <2>10
<1>2. CASE Kind(p) # op
  <2>1. \A h : Operands(op, operand, more, h, p) = Parsed(<<>>, p)
    BY <1>2, Zenon DEF Operands
  <2>2. Sound(Parsed(<<>>, p), p)
    BY DEF Sound, Parsed, Positions
  <2> QED
    BY <2>1, <2>2
<1> QED
  BY <1>1, <1>2

LEMMA ArgsStep ==
  ASSUME Ends, NEW f, NEW g, NEW p \in Positions, Later(f, g, p),
         Consumes(f[<<"expression", p>>], p), g[<<"expression", p>>] = f[<<"expression", p>>]
  PROVE  Consumes(Args(f, p), p) /\ Args(g, p) = Args(f, p)
<1>1. PICK x : x = f[<<"expression", p>>]
  OBVIOUS
<1>2. PICK y : y = f[<<"args", x.pos + 1>>]
  OBVIOUS
<1>3. PICK z : z = g[<<"args", x.pos + 1>>]
  OBVIOUS
<1>4. Args(f, p) = IF ~x.ok THEN x
                   ELSE IF Kind(x.pos) # Comma THEN Single(x)
                   ELSE IF y.ok THEN Longer(x, y) ELSE y
  BY <1>1, <1>2, ArgsIs
<1>5. Args(g, p) = IF ~x.ok THEN x
                   ELSE IF Kind(x.pos) # Comma THEN Single(x)
                   ELSE IF z.ok THEN Longer(x, z) ELSE z
  BY <1>1, <1>3, ArgsIs
<1>6. Consumes(x, p)
  BY <1>1
<1>7. CASE x.ok /\ Kind(x.pos) = Comma
  <2>1. Consumes(y, p) /\ z = y
    <3>1. "args" \in Rules /\ Kind(x.pos) # "eof"
      BY <1>7, Punctuation DEF Rules
    <3> QED
      BY <1>2, <1>3, <1>6, <1>7, <3>1, BehindNext
  <2>2. y.ok => Consumes(Longer(x, y), p)
    <3>1. y.ok => y.pos \in Positions /\ p < y.pos
      BY <2>1 DEF Consumes, Sound
    <3> QED
      BY <3>1, ParsedConsumes DEF Longer
  <2> QED
    BY <1>4, <1>5, <1>7, <2>1, <2>2
<1>8. CASE x.ok /\ Kind(x.pos) # Comma
  <2>1. x.pos \in Positions /\ p < x.pos
    BY <1>6, <1>8 DEF Consumes, Sound
  <2>2. Consumes(Single(x), p)
    BY <2>1, ParsedConsumes DEF Single
  <2> QED
    BY <1>4, <1>5, <1>8, <2>2
<1>9. CASE ~x.ok
  BY <1>4, <1>5, <1>6, <1>9
<1> QED
  BY <1>7, <1>8, <1>9

LEMMA LaterIs ==
  ASSUME NEW f, NEW g, NEW p \in Positions, Later(f, g, p), NEW q \in Positions, p < q,
         NEW rule \in Rules
  PROVE  Good(rule, f[<<rule, q>>], q) /\ g[<<rule, q>>] = f[<<rule, q>>]
  BY DEF Later

LEMMA InsideConsumes ==
  ASSUME Ends, NEW p \in Positions, NEW q \in Positions, p < q, NEW r, Sound(r, q)
  PROVE  /\ Consumes(Made(expect(")", r), InParentheses), p)
         /\ Consumes(Made(expect(")", r), Call), p)
         /\ Consumes(Made(expect("]", r), Var), p)
<1>1. Sound(r, p)
  BY SoundLater DEF Consumes
<1>2. Consumes(expect(")", r), p) /\ Consumes(expect("]", r), p)
  BY <1>1, ExpectConsumes
<1> QED
  BY <1>2, MadeConsumes

LEMMA OptionalArgsStep ==
  ASSUME Ends, NEW f, NEW g, NEW p \in Positions, Later(f, g, p), NEW q \in Positions, p < q
  PROVE  Sound(OptionalArgs(f, q), q) /\ OptionalArgs(g, q) = OptionalArgs(f, q)
<1>1. Sound(Parsed(<<>>, q), q)
  BY DEF Sound, Parsed, Positions
<1>2. "args" \in Rules
  BY DEF Rules
<1>3. Sound(f[<<"args", q>>], q) /\ g[<<"args", q>>] = f[<<"args", q>>]
  BY <1>2, LaterIs DEF Good
<1> QED
  BY <1>1, <1>3 DEF OptionalArgs

LEMMA FactorStep ==
  ASSUME Ends, NEW f, NEW g, NEW p \in Positions, Later(f, g, p)
  PROVE  Consumes(Factor(f, p), p) /\ Factor(g, p) = Factor(f, p)
<1>0. "expression" \in Rules
  BY DEF Rules
<1>1. CASE Kind(p) = "("
  <2>1. p + 1 \in Positions /\ p < p + 1
    BY <1>1, NextPlace DEF Positions
  <2>2. PICK r : r = f[<<"expression", p + 1>>]
    OBVIOUS
  <2>3. Sound(r, p + 1) /\ g[<<"expression", p + 1>>] = r
    BY <1>0, <2>1, <2>2, LaterIs DEF Good
  <2>4. /\ Factor(f, p) = Made(expect(")", r), InParentheses)
        /\ Factor(g, p) = Made(expect(")", r), InParentheses)
    BY <1>1, <2>2, <2>3 DEF Factor
  <2> QED
    BY <2>1, <2>3, <2>4, InsideConsumes
<1>2. CASE Kind(p) = "num"
  <2>1. p + 1 \in Positions /\ p < p + 1
    BY <1>2, NextPlace DEF Positions
  <2>2. Factor(f, p) = Parsed(Num, p + 1) /\ Factor(g, p) = Parsed(Num, p + 1)
    BY <1>2 DEF Factor
  <2> QED
    BY <2>1, <2>2, ParsedConsumes
<1>3. CASE Kind(p) = "id" /\ Kind(p + 1) = "("
  <2>1. p + 1 \in Positions /\ p + 2 \in Positions /\ p < p + 2
    <3>1. p + 1 \in Positions
      BY <1>3, NextPlace
    <3>2. p + 1 + 1 \in Positions
      BY <1>3, <3>1, NextPlace
    <3> QED
      BY <3>1, <3>2 DEF Positions
  <2>2. PICK r : r = OptionalArgs(f, p + 2)
    OBVIOUS
  <2>3. Sound(r, p + 2) /\ OptionalArgs(g, p + 2) = r
    BY <2>1, <2>2, OptionalArgsStep
  <2>4. /\ Factor(f, p) = Made(expect(")", r), Call)
        /\ Factor(g, p) = Made(expect(")", r), Call)
    BY <1>3, <2>2, <2>3 DEF Factor
  <2> QED
    BY <2>1, <2>3, <2>4, InsideConsumes
<1>4. CASE Kind(p) = "id" /\ Kind(p + 1) = "["
  <2>1. p + 1 \in Positions /\ p + 2 \in Positions /\ p < p + 2
    <3>1. p + 1 \in Positions
      BY <1>4, NextPlace
    <3>2. p + 1 + 1 \in Positions
      BY <1>4, <3>1, NextPlace
    <3> QED
      BY <3>1, <3>2 DEF Positions
  <2>2. PICK r : r = f[<<"expression", p + 2>>]
    OBVIOUS
  <2>3. Sound(r, p + 2) /\ g[<<"expression", p + 2>>] = r
    BY <1>0, <2>1, <2>2, LaterIs DEF Good
  <2>4. /\ Factor(f, p) = Made(expect("]", r), Var)
        /\ Factor(g, p) = Made(expect("]", r), Var)
    BY <1>4, <2>2, <2>3 DEF Factor
  <2> QED
    BY <2>1, <2>3, <2>4, InsideConsumes
<1>5. CASE Kind(p) = "id" /\ Kind(p + 1) \notin {"(", "["}
  <2>1. p + 1 \in Positions /\ p < p + 1
    BY <1>5, NextPlace DEF Positions
  <2>2. Factor(f, p) = Parsed(Var(None), p + 1) /\ Factor(g, p) = Parsed(Var(None), p + 1)
    BY <1>5 DEF Factor
  <2> QED
    BY <2>1, <2>2, ParsedConsumes
<1>6. CASE Kind(p) \notin {"(", "num", "id"}
  <2>1. Factor(f, p) = Failed(p, p) /\ Factor(g, p) = Failed(p, p)
    BY <1>6 DEF Factor
  <2>2. Consumes(Failed(p, p), p)
    BY FailedConsumes DEF Positions
  <2> QED
    BY <2>1, <2>2
<1> QED
  BY <1>1, <1>2, <1>3, <1>4, <1>5, <1>6

-----------------------------------------------------------------------------
(* The rules together.  A rule uses what is behind its first token, or a   *)
(* rule of higher precedence at the same token: Rank falls.                *)

Level(rule) ==
  CASE rule \in {"factor", "factors", "addends"} -> 0
    [] rule = "term" -> 1
    [] rule = "additive" -> 2
    [] rule = "simple" -> 3
    [] rule = "expression" -> 4
    [] rule = "args" -> 5

Rank(rule, p) == 6 * (Len(tokens) - p) + Level(rule)

Lower(f, g, rule, p) ==
  \A x \in Rules, q \in Positions :
    Rank(x, q) < Rank(rule, p) => Good(x, f[<<x, q>>], q) /\ g[<<x, q>>] = f[<<x, q>>]

LEMMA LevelRange ==
  ASSUME NEW rule \in Rules
  PROVE  Level(rule) \in 0..5
  BY DEF Level, Rules

LEMMA RankType ==
  ASSUME Ends, NEW rule \in Rules, NEW p \in Positions
  PROVE  Rank(rule, p) \in Nat /\ Rank(rule, p) < 6 * Len(tokens)
<1>1. Level(rule) \in 0..5 /\ p \in 1..Len(tokens) /\ Len(tokens) \in Nat
  BY LevelRange DEF Ends, Positions
<1>2. \A l \in 0..5, n \in Nat : \A m \in 1..n : 6 * (n - m) + l \in Nat /\ 6 * (n - m) + l < 6 * n
  OBVIOUS
<1> QED
  BY <1>1, <1>2 DEF Rank

LEMMA LowerLater ==
  ASSUME Ends, NEW f, NEW g, NEW rule \in Rules, NEW p \in Positions, Lower(f, g, rule, p)
  PROVE  /\ Later(f, g, p)
         /\ \A x \in Rules : Level(x) < Level(rule) =>
              Good(x, f[<<x, p>>], p) /\ g[<<x, p>>] = f[<<x, p>>]
<1>1. ASSUME NEW x \in Rules, NEW q \in Positions, p < q
      PROVE  Rank(x, q) < Rank(rule, p)
  <2>1. \A k, l \in 0..5, n \in Nat : \A i, j \in 1..n : i < j => 6 * (n - j) + k < 6 * (n - i) + l
    OBVIOUS
  <2>2. Level(x) \in 0..5 /\ Level(rule) \in 0..5 /\ Len(tokens) \in Nat
    BY LevelRange DEF Ends
  <2> QED
    BY <1>1, <2>1, <2>2 DEF Rank, Positions
<1>2. ASSUME NEW x \in Rules, Level(x) < Level(rule)
      PROVE  Rank(x, p) < Rank(rule, p)
  <2>1. \A k, l \in 0..5, n \in Nat : \A i \in 1..n : k < l => 6 * (n - i) + k < 6 * (n - i) + l
    OBVIOUS
  <2>2. Level(x) \in 0..5 /\ Level(rule) \in 0..5 /\ Len(tokens) \in Nat
    BY LevelRange DEF Ends
  <2> QED
    BY <1>2, <2>1, <2>2 DEF Rank, Positions
<1> QED
  BY <1>1, <1>2 DEF Lower, Later

LEMMA RuleStep ==
  ASSUME Ends, NEW f, NEW g, NEW rule \in Rules, NEW p \in Positions, Lower(f, g, rule, p)
  PROVE  Good(rule, Rule(f, rule, p), p) /\ Rule(g, rule, p) = Rule(f, rule, p)
<1>1. Later(f, g, p)
  BY LowerLater
<1>2. \A x \in Rules : Level(x) < Level(rule) =>
         Good(x, f[<<x, p>>], p) /\ g[<<x, p>>] = f[<<x, p>>]
  BY LowerLater
<1>3. /\ {"term", "factor", "additive", "simple", "expression", "addends", "factors"} \subseteq Rules
      /\ {"term", "factor"} \subseteq Rules \ {"addends", "factors"}
  BY DEF Rules
<1>4. CASE rule = "expression"
  <2>1. Consumes(f[<<"simple", p>>], p) /\ g[<<"simple", p>>] = f[<<"simple", p>>]
    BY <1>2, <1>3, <1>4 DEF Level, Good
  <2>2. Consumes(Expression(f, p), p) /\ Expression(g, p) = Expression(f, p)
    BY <1>1, <2>1, ExpressionStep
  <2> QED
    BY <1>4, <2>2 DEF Rule, Good, Consumes
<1>5. CASE rule = "simple"
  <2>1. Consumes(f[<<"additive", p>>], p) /\ g[<<"additive", p>>] = f[<<"additive", p>>]
    BY <1>2, <1>3, <1>5 DEF Level, Good
  <2>2. Consumes(SimpleExpression(f, p), p) /\ SimpleExpression(g, p) = SimpleExpression(f, p)
    BY <1>1, <2>1, SimpleStep
  <2> QED
    BY <1>5, <2>2 DEF Rule, Good, Consumes
<1>6. CASE rule = "additive"
  <2>1. Consumes(f[<<"term", p>>], p) /\ g[<<"term", p>>] = f[<<"term", p>>]
    BY <1>2, <1>3, <1>6 DEF Level, Good
  <2>2. /\ Consumes(Operation("+", "term", "addends", f, p), p)
        /\ Operation("+", "term", "addends", g, p) = Operation("+", "term", "addends", f, p)
    BY <1>1, <1>3, <2>1, OperationStep
  <2> QED
    BY <1>6, <2>2 DEF Rule, Good, Consumes
<1>7. CASE rule = "term"
  <2>1. Consumes(f[<<"factor", p>>], p) /\ g[<<"factor", p>>] = f[<<"factor", p>>]
    BY <1>2, <1>3, <1>7 DEF Level, Good
  <2>2. /\ Consumes(Operation("*", "factor", "factors", f, p), p)
        /\ Operation("*", "factor", "factors", g, p) = Operation("*", "factor", "factors", f, p)
    BY <1>1, <1>3, <2>1, OperationStep
  <2> QED
    BY <1>7, <2>2 DEF Rule, Good, Consumes
<1>8. CASE rule = "addends"
  <2>1. /\ Sound(Operands("+", "term", "addends", f, p), p)
        /\ Operands("+", "term", "addends", g, p) = Operands("+", "term", "addends", f, p)
    BY <1>1, <1>3, OperandsStep
  <2> QED
    BY <1>8, <2>1 DEF Rule, Good
<1>9. CASE rule = "factors"
  <2>1. /\ Sound(Operands("*", "factor", "factors", f, p), p)
        /\ Operands("*", "factor", "factors", g, p) = Operands("*", "factor", "factors", f, p)
    BY <1>1, <1>3, OperandsStep
  <2> QED
    BY <1>9, <2>1 DEF Rule, Good
<1>10. CASE rule = "factor"
  BY <1>1, <1>10, FactorStep DEF Rule, Good, Consumes
<1>11. CASE rule = "args"
  <2>1. Consumes(f[<<"expression", p>>], p) /\ g[<<"expression", p>>] = f[<<"expression", p>>]
    BY <1>2, <1>3, <1>11 DEF Level, Good
  <2>2. Consumes(Args(f, p), p) /\ Args(g, p) = Args(f, p)
    BY <1>1, <2>1, ArgsStep
  <2> QED
    BY <1>11, <2>2 DEF Rule, Good, Consumes
<1> QED
  BY <1>4, <1>5, <1>6, <1>7, <1>8, <1>9, <1>10, <1>11 DEF Rules

Goals == Rules \X Positions
Answers(f) == [goal \in Goals |-> Rule(f, goal[1], goal[2])]

(* f gives what the rules compute, as far as rank n.                       *)
Solves(f, n) ==
  /\ f = [goal \in Goals |-> f[goal]]
  /\ \A x \in Rules, q \in Positions :
       Rank(x, q) < n => Good(x, f[<<x, q>>], q) /\ f[<<x, q>>] = Rule(f, x, q)

LEMMA AnswersAt ==
  ASSUME NEW f, NEW x \in Rules, NEW q \in Positions
  PROVE  Answers(f)[<<x, q>>] = Rule(f, x, q)
<1>1. <<x, q>> \in Goals /\ <<x, q>>[1] = x /\ <<x, q>>[2] = q
  BY DEF Goals
<1> QED
  BY <1>1 DEF Answers

LEMMA SolvesNext ==
  ASSUME Ends, NEW n \in Nat, NEW f, Solves(f, n)
  PROVE  Solves(Answers(f), n + 1)
<1> DEFINE g == Answers(f)
<1>1. g = [goal \in Goals |-> g[goal]]
  BY DEF Answers
<1>2. \A x \in Rules, q \in Positions : g[<<x, q>>] = Rule(f, x, q)
  BY AnswersAt
<1> HIDE DEF g
<1>3. ASSUME NEW x \in Rules, NEW q \in Positions, Rank(x, q) < n + 1
      PROVE  Good(x, g[<<x, q>>], q) /\ g[<<x, q>>] = Rule(g, x, q)
  <2>1. ASSUME NEW y \in Rules, NEW r \in Positions, Rank(y, r) < Rank(x, q)
        PROVE  Good(y, f[<<y, r>>], r) /\ g[<<y, r>>] = f[<<y, r>>]
    <3>1. Rank(x, q) \in Nat /\ Rank(y, r) \in Nat
      BY RankType
    <3>2. Rank(y, r) < n
      BY <1>3, <2>1, <3>1
    <3> QED
      BY <1>2, <3>2 DEF Solves
  <2>2. Lower(f, g, x, q)
    BY <2>1 DEF Lower
  <2>3. Good(x, Rule(f, x, q), q) /\ Rule(g, x, q) = Rule(f, x, q)
    BY <2>2, RuleStep
  <2> QED
    BY <1>2, <2>3
<1>4. Solves(g, n + 1)
  BY <1>1, <1>3 DEF Solves
<1> QED
  BY <1>4 DEF g

LEMMA ParseExists ==
  ASSUME Ends
  PROVE  \E f : f = Answers(f)
<1> DEFINE D == {n \in Nat : \E f : Solves(f, n)}
<1>1. 0 \in D
  <2> DEFINE f == [goal \in Goals |-> None]
  <2>1. f = [goal \in Goals |-> f[goal]]
    OBVIOUS
  <2> HIDE DEF f
  <2>2. \A x \in Rules, q \in Positions : ~(Rank(x, q) < 0)
    <3>1. \A m \in Nat : ~(m < 0)
      OBVIOUS
    <3> QED
      BY <3>1, RankType
  <2>3. Solves(f, 0)
    BY <2>1, <2>2 DEF Solves
  <2> QED
    BY <2>3
<1>2. ASSUME NEW n \in Nat, n \in D
      PROVE  n + 1 \in D
  <2>1. PICK f : Solves(f, n)
    BY <1>2
  <2>2. Solves(Answers(f), n + 1)
    BY <2>1, SolvesNext
  <2> QED
    BY <2>2
<1> HIDE DEF D
<1>3. 6 * Len(tokens) \in D
  BY <1>1, <1>2, SetInduction DEF Ends
<1>4. PICK f : Solves(f, 6 * Len(tokens))
  BY <1>3 DEF D
<1>5. \A goal \in Goals : f[goal] = Rule(f, goal[1], goal[2])
  <2> SUFFICES ASSUME NEW goal \in Goals PROVE f[goal] = Rule(f, goal[1], goal[2])
    OBVIOUS
  <2>1. PICK x \in Rules, q \in Positions : goal = <<x, q>>
    BY DEF Goals
  <2>2. Rank(x, q) < 6 * Len(tokens) /\ goal[1] = x /\ goal[2] = q
    BY <2>1, RankType
  <2> QED
    BY <1>4, <2>1, <2>2 DEF Solves
<1>6. f = [goal \in Goals |-> f[goal]]
  BY <1>4 DEF Solves
<1>7. f = Answers(f)
  BY <1>5, <1>6 DEF Answers
<1> QED
  BY <1>7

(* The recursive definition of parse is met.                               *)
LEMMA ParseIs ==
  ASSUME Ends
  PROVE  parse = Answers(parse)
<1>1. \E f : f = [goal \in Rules \X Positions |-> Rule(f, goal[1], goal[2])]
  BY ParseExists, Zenon DEF Answers, Goals
<1>2. parse = [goal \in Rules \X Positions |-> Rule(parse, goal[1], goal[2])]
  BY <1>1, Zenon DEF parse
<1> QED
  BY <1>2, Zenon DEF Answers, Goals

LEMMA ParseGood ==
  ASSUME Ends
  PROVE  \A x \in Rules, q \in Positions : Good(x, parse[<<x, q>>], q)
<1> DEFINE rank == [goal \in Goals |-> Rank(goal[1], goal[2])]
           S == {goal \in Goals : Good(goal[1], parse[goal], goal[2])}
<1>1. \A x \in Rules, q \in Positions :
        /\ <<x, q>> \in Goals
        /\ rank[<<x, q>>] = Rank(x, q)
        /\ <<x, q>> \in S <=> Good(x, parse[<<x, q>>], q)
  <2> SUFFICES ASSUME NEW x \in Rules, NEW q \in Positions
               PROVE  /\ <<x, q>> \in Goals
                      /\ rank[<<x, q>>] = Rank(x, q)
                      /\ <<x, q>> \in S <=> Good(x, parse[<<x, q>>], q)
    OBVIOUS
  <2>1. <<x, q>> \in Goals /\ <<x, q>>[1] = x /\ <<x, q>>[2] = q
    BY DEF Goals
  <2> QED
    BY <2>1
<1>2. \A goal \in Goals : \E x \in Rules, q \in Positions : goal = <<x, q>>
  BY DEF Goals
<1>3. rank \in [Goals -> Nat]
  <2> SUFFICES ASSUME NEW goal \in Goals PROVE Rank(goal[1], goal[2]) \in Nat
    OBVIOUS
  <2>1. PICK x \in Rules, q \in Positions : goal = <<x, q>>
    BY <1>2
  <2>2. goal[1] = x /\ goal[2] = q
    BY <2>1
  <2> QED
    BY <2>2, RankType
<1> HIDE DEF rank, S
<1>4. ASSUME NEW goal \in Goals, \A d \in Goals : rank[d] < rank[goal] => d \in S
      PROVE  goal \in S
  <2>1. PICK x \in Rules, q \in Positions : goal = <<x, q>>
    BY <1>2
  <2>2. ASSUME NEW y \in Rules, NEW r \in Positions, Rank(y, r) < Rank(x, q)
        PROVE  Good(y, parse[<<y, r>>], r)
    BY <1>1, <1>4, <2>1, <2>2
  <2>3. Lower(parse, parse, x, q)
    BY <2>2 DEF Lower
  <2>4. Good(x, Rule(parse, x, q), q)
    BY <2>3, RuleStep
  <2>5. parse[<<x, q>>] = Rule(parse, x, q)
    BY ParseIs, AnswersAt
  <2> QED
    BY <1>1, <2>1, <2>4, <2>5
<1>5. Goals \subseteq S
  BY <1>3, <1>4, TreeInduction
<1> QED
  BY <1>1, <1>5

LEMMA ParseExpressionConsumes ==
  ASSUME Ends, NEW p \in Positions
  PROVE  Consumes(parseExpression(p), p)
<1>1. "expression" \in Rules
  BY DEF Rules
<1> QED
  BY <1>1, ParseGood DEF parseExpression, Good

-----------------------------------------------------------------------------
(* Declarations and headings.                                              *)

LEMMA ParsedSound ==
  ASSUME NEW p \in Positions, NEW node
  PROVE  Sound(Parsed(node, p), p)
  BY DEF Sound, Parsed, Positions

LEMMA ResultFields ==
  /\ \A node, p : /\ Parsed(node, p).ok = TRUE /\ Parsed(node, p).node = node
                  /\ Parsed(node, p).pos = p
  /\ \A p, e : Failed(p, e).ok = FALSE /\ Failed(p, e).pos = p /\ Failed(p, e).error = e
  BY DEF Parsed, Failed

LEMMA TypedNameConsumes ==
  ASSUME Ends, NEW p \in Positions
  PROVE  /\ Consumes(TypedName(p), p)
         /\ Kind(p) \in TypeSpecifier /\ ~TypedName(p).ok => p < TypedName(p).error
<1>1. CASE Kind(p) \notin TypeSpecifier
  <2>1. TypedName(p) = Failed(p, p)
    BY <1>1 DEF TypedName
  <2> QED
    BY <1>1, <2>1, FailedConsumes DEF Positions
<1>2. CASE Kind(p) \in TypeSpecifier /\ Kind(p + 1) # "id"
  <2>1. TypedName(p) = Failed(p + 1, p + 1)
    BY <1>2 DEF TypedName
  <2>2. p + 1 \in Positions /\ p <= p + 1 /\ p < p + 1 /\ p + 1 \in p..(p + 1) /\ p + 1 # p
    BY <1>2, NextPlace DEF TypeSpecifier, Positions
  <2>3. Consumes(Failed(p + 1, p + 1), p)
    BY <2>2, FailedConsumes
  <2> QED
    BY <2>1, <2>2, <2>3, ResultFields
<1>3. CASE Kind(p) \in TypeSpecifier /\ Kind(p + 1) = "id"
  <2>1. TypedName(p) = Parsed(Kind(p), p + 2)
    BY <1>3 DEF TypedName
  <2>2. p + 2 \in Positions /\ p < p + 2
    <3>1. p + 1 \in Positions
      BY <1>3, NextPlace DEF TypeSpecifier
    <3>2. p + 1 + 1 \in Positions
      BY <1>3, <3>1, NextPlace
    <3> QED
      BY <3>1, <3>2 DEF Positions
  <2>3. Consumes(Parsed(Kind(p), p + 2), p)
    BY <2>2, ParsedConsumes
  <2> QED
    BY <2>1, <2>3, ResultFields
<1> QED
  BY <1>1, <1>2, <1>3

LEMMA ParamIs ==
  ASSUME NEW p, NEW x, x = TypedName(p)
  PROVE  parseParam(p) =
           IF ~x.ok THEN x
           ELSE IF Kind(x.pos) = "[" THEN expectAt("]", x.pos + 1, Param(x.node, TRUE))
           ELSE Parsed(Param(x.node, FALSE), x.pos)
<1> DEFINE Follow(a) == IF Kind(a.pos) = "[" THEN expectAt("]", a.pos + 1, Param(a.node, TRUE))
                        ELSE Parsed(Param(a.node, FALSE), a.pos)
           Outer(r) == CHOOSE s \in {IF v.ok THEN Follow(v) ELSE v : v \in {r}} : TRUE
<1>1. parseParam(p) = Outer(TypedName(p))
  BY Zenon DEF parseParam, Then
<1> HIDE DEF Follow
<1>2. \A r : Outer(r) = IF r.ok THEN Follow(r) ELSE r
  BY ONLY SMT
<1> HIDE DEF Outer
<1> QED
  BY <1>1, <1>2, Zenon DEF Follow

LEMMA ParamConsumes ==
  ASSUME Ends, NEW p \in Positions
  PROVE  Consumes(parseParam(p), p)
<1>1. PICK x : x = TypedName(p)
  OBVIOUS
<1>2. Consumes(x, p)
  BY <1>1, TypedNameConsumes
<1>3. CASE ~x.ok
  BY <1>1, <1>2, <1>3, ParamIs
<1>4. CASE x.ok /\ Kind(x.pos) = "["
  <2>1. x.pos \in Positions /\ p < x.pos
    BY <1>2, <1>4 DEF Consumes, Sound
  <2>2. x.pos + 1 \in Positions /\ p < x.pos + 1
    BY <1>4, <2>1, NextPlace DEF Positions
  <2>3. Consumes(expectAt("]", x.pos + 1, Param(x.node, TRUE)), x.pos + 1)
    BY <2>2, ExpectAtConsumes
  <2>4. Consumes(expectAt("]", x.pos + 1, Param(x.node, TRUE)), p)
    BY <2>2, <2>3, SoundLater DEF Consumes
  <2> QED
    BY <1>1, <1>4, <2>4, ParamIs
<1>5. CASE x.ok /\ Kind(x.pos) # "["
  <2>1. x.pos \in Positions /\ p < x.pos
    BY <1>2, <1>5 DEF Consumes, Sound
  <2>2. Consumes(Parsed(Param(x.node, FALSE), x.pos), p)
    BY <2>1, ParsedConsumes
  <2> QED
    BY <1>1, <1>5, <2>2, ParamIs
<1> QED
  BY <1>3, <1>4, <1>5

LEMMA ParamsIs ==
  ASSUME NEW f, NEW p, NEW x, x = parseParam(p), NEW y, y = f[x.pos + 1]
  PROVE  Params(f, p) =
           IF ~x.ok THEN x
           ELSE IF Kind(x.pos) # Comma THEN Single(x)
           ELSE IF y.ok THEN Longer(x, y) ELSE y
<1> DEFINE Inner(a, r) == CHOOSE s \in {IF v.ok THEN Longer(a, v) ELSE v : v \in {r}} : TRUE
           Follow(a) == IF Kind(a.pos) = Comma THEN Inner(a, f[a.pos + 1]) ELSE Single(a)
           Outer(r) == CHOOSE s \in {IF v.ok THEN Follow(v) ELSE v : v \in {r}} : TRUE
<1>1. Params(f, p) = Outer(parseParam(p))
  BY Zenon DEF Comma, Params, Made, Longer, Single, Then
<1>2. \A a, r : Inner(a, r) = IF r.ok THEN Longer(a, r) ELSE r
  BY ONLY SMT
<1> HIDE DEF Inner, Follow
<1>3. \A r : Outer(r) = IF r.ok THEN Follow(r) ELSE r
  BY ONLY SMT
<1> HIDE DEF Outer
<1> QED
  BY <1>1, <1>2, <1>3, Zenon DEF Follow

LEMMA ParamsStep ==
  ASSUME Ends, NEW f, NEW g, NEW p \in Positions,
         \A q \in Positions : p < q => Consumes(f[q], q) /\ g[q] = f[q]
  PROVE  Consumes(Params(f, p), p) /\ Params(g, p) = Params(f, p)
<1>1. PICK x : x = parseParam(p)
  OBVIOUS
<1>2. PICK y : y = f[x.pos + 1]
  OBVIOUS
<1>3. PICK z : z = g[x.pos + 1]
  OBVIOUS
<1>4. Params(f, p) = IF ~x.ok THEN x
                     ELSE IF Kind(x.pos) # Comma THEN Single(x)
                     ELSE IF y.ok THEN Longer(x, y) ELSE y
  BY <1>1, <1>2, ParamsIs
<1>5. Params(g, p) = IF ~x.ok THEN x
                     ELSE IF Kind(x.pos) # Comma THEN Single(x)
                     ELSE IF z.ok THEN Longer(x, z) ELSE z
  BY <1>1, <1>3, ParamsIs
<1>6. Consumes(x, p)
  BY <1>1, ParamConsumes
<1>7. CASE x.ok /\ Kind(x.pos) = Comma
  <2>1. x.pos \in Positions /\ p < x.pos
    BY <1>6, <1>7 DEF Consumes, Sound
  <2>2. x.pos + 1 \in Positions /\ p < x.pos + 1
    BY <1>7, <2>1, NextPlace, Punctuation DEF Positions
  <2>3. Consumes(y, x.pos + 1) /\ z = y
    BY <1>2, <1>3, <2>2
  <2>4. Consumes(y, p)
    BY <2>2, <2>3, SoundLater DEF Consumes
  <2>5. y.ok => Consumes(Longer(x, y), p)
    <3>1. y.ok => y.pos \in Positions /\ p < y.pos
      BY <2>4 DEF Consumes, Sound
    <3> QED
      BY <3>1, ParsedConsumes DEF Longer
  <2> QED
    BY <1>4, <1>5, <1>7, <2>3, <2>4, <2>5
<1>8. CASE x.ok /\ Kind(x.pos) # Comma
  <2>1. x.pos \in Positions /\ p < x.pos
    BY <1>6, <1>8 DEF Consumes, Sound
  <2>2. Consumes(Single(x), p)
    BY <2>1, ParsedConsumes DEF Single
  <2> QED
    BY <1>4, <1>5, <1>8, <2>2
<1>9. CASE ~x.ok
  BY <1>4, <1>5, <1>6, <1>9
<1> QED
  BY <1>7, <1>8, <1>9

Lists(f) == [p \in Positions |-> Params(f, p)]

(* The recursive definition of paramList is met, by the same construction. *)
SolvesLists(f, n) ==
  /\ f = [p \in Positions |-> f[p]]
  /\ \A q \in Positions : Len(tokens) - q < n => Consumes(f[q], q) /\ f[q] = Params(f, q)

LEMMA SolvesListsNext ==
  ASSUME Ends, NEW n \in Nat, NEW f, SolvesLists(f, n)
  PROVE  SolvesLists(Lists(f), n + 1)
<1> DEFINE g == Lists(f)
<1>1. g = [p \in Positions |-> g[p]] /\ \A q \in Positions : g[q] = Params(f, q)
  BY DEF Lists
<1> HIDE DEF g
<1>2. ASSUME NEW p \in Positions, Len(tokens) - p < n + 1
      PROVE  Consumes(g[p], p) /\ g[p] = Params(g, p)
  <2>1. ASSUME NEW q \in Positions, p < q
        PROVE  Consumes(f[q], q) /\ g[q] = f[q]
    <3>1. Len(tokens) - q < n
      BY <1>2, <2>1 DEF Ends, Positions
    <3> QED
      BY <1>1, <3>1 DEF SolvesLists
  <2>2. Consumes(Params(f, p), p) /\ Params(g, p) = Params(f, p)
    BY <2>1, ParamsStep
  <2> QED
    BY <1>1, <2>2
<1>3. SolvesLists(g, n + 1)
  BY <1>1, <1>2 DEF SolvesLists
<1> QED
  BY <1>3 DEF g

LEMMA ListsExist ==
  ASSUME Ends
  PROVE  \E f : f = Lists(f)
<1> DEFINE D == {n \in Nat : \E f : SolvesLists(f, n)}
<1>1. 0 \in D
  <2> DEFINE f == [p \in Positions |-> None]
  <2>1. f = [p \in Positions |-> f[p]]
    OBVIOUS
  <2> HIDE DEF f
  <2>2. \A q \in Positions : ~(Len(tokens) - q < 0)
    BY DEF Ends, Positions
  <2>3. SolvesLists(f, 0)
    BY <2>1, <2>2 DEF SolvesLists
  <2> QED
    BY <2>3
<1>2. ASSUME NEW n \in Nat, n \in D
      PROVE  n + 1 \in D
  <2>1. PICK f : SolvesLists(f, n)
    BY <1>2
  <2>2. SolvesLists(Lists(f), n + 1)
    BY <2>1, SolvesListsNext
  <2> QED
    BY <2>2
<1> HIDE DEF D
<1>3. Len(tokens) \in D
  BY <1>1, <1>2, SetInduction DEF Ends
<1>4. PICK f : SolvesLists(f, Len(tokens))
  BY <1>3 DEF D
<1>5. \A p \in Positions : Len(tokens) - p < Len(tokens)
  BY DEF Ends, Positions
<1>6. \A p \in Positions : f[p] = Params(f, p)
  BY <1>4, <1>5 DEF SolvesLists
<1>7. f = [p \in Positions |-> f[p]]
  BY <1>4 DEF SolvesLists
<1>8. f = Lists(f)
  BY <1>6, <1>7 DEF Lists
<1> QED
  BY <1>8

LEMMA ParamListIs ==
  ASSUME Ends
  PROVE  paramList = Lists(paramList)
<1>1. \E f : f = [p \in Positions |-> Params(f, p)]
  BY ListsExist, Zenon DEF Lists
<1>2. paramList = [p \in Positions |-> Params(paramList, p)]
  BY <1>1, Zenon DEF paramList
<1> QED
  BY <1>2, Zenon DEF Lists

LEMMA ParamListConsumes ==
  ASSUME Ends
  PROVE  \A p \in Positions : Consumes(paramList[p], p)
<1> DEFINE rank == [p \in Positions |-> Len(tokens) - p]
           S == {p \in Positions : Consumes(paramList[p], p)}
<1>1. rank \in [Positions -> Nat] /\ \A p \in Positions : rank[p] = Len(tokens) - p
  BY DEF Ends, Positions
<1> HIDE DEF rank
<1>2. ASSUME NEW p \in Positions, \A d \in Positions : rank[d] < rank[p] => d \in S
      PROVE  p \in S
  <2>1. ASSUME NEW q \in Positions, p < q
        PROVE  Consumes(paramList[q], q)
    <3>1. rank[q] < rank[p]
      BY <1>1, <2>1 DEF Ends, Positions
    <3> QED
      BY <1>2, <3>1
  <2>2. Consumes(Params(paramList, p), p)
    BY <2>1, ParamsStep
  <2>3. paramList[p] = Params(paramList, p)
    BY ParamListIs DEF Lists
  <2> QED
    BY <2>2, <2>3
<1> HIDE DEF S
<1>3. Positions \subseteq S
  BY <1>1, <1>2, TreeInduction
<1> QED
  BY <1>3 DEF S

LEMMA ParamsConsume ==
  ASSUME Ends, NEW p \in Positions
  PROVE  Sound(parseParams(p), p)
<1>1. CASE Kind(p) = "void" /\ Kind(p + 1) = ")"
  <2>1. p + 1 \in Positions /\ p < p + 1
    BY <1>1, NextPlace DEF Positions
  <2>2. parseParams(p) = Parsed(<<>>, p + 1)
    BY <1>1 DEF parseParams
  <2> QED
    BY <2>1, <2>2, ParsedConsumes DEF Consumes
<1>2. CASE Kind(p) = ")"
  <2>1. parseParams(p) = Failed(p, p)
    BY <1>2 DEF parseParams
  <2> QED
    BY <2>1, FailedConsumes DEF Consumes, Positions
<1>3. CASE ~(Kind(p) = "void" /\ Kind(p + 1) = ")") /\ Kind(p) # ")"
  <2>1. parseParams(p) = paramList[p]
    BY <1>3 DEF parseParams
  <2> QED
    BY <2>1, ParamListConsumes DEF Consumes
<1> QED
  BY <1>1, <1>2, <1>3

LEMMA ExpectNode ==
  ASSUME NEW kind, NEW x
  PROVE  expect(kind, x).ok => x.ok /\ expect(kind, x).node = x.node
<1>1. PICK s : s = expect(kind, x)
  OBVIOUS
<1>2. s = IF x.ok THEN expectAt(kind, x.pos, x.node) ELSE x
  BY <1>1, ExpectIs
<1>3. s.ok => x.ok /\ s.node = x.node
  BY <1>2, ResultFields DEF expectAt
<1> QED
  BY <1>1, <1>3

LEMMA FunctionIs ==
  ASSUME NEW type, NEW p, NEW x, x = expect(")", parseParams(p + 1))
  PROVE  finishFunDeclaration(type, p) =
           IF ~x.ok THEN x
           ELSE IF Kind(x.pos) = OpenBrace THEN Parsed(FunDecl(type, x.node, None), x.pos)
           ELSE Failed(x.pos, x.pos)
<1> DEFINE Follow(a) == IF Kind(a.pos) = OpenBrace THEN Parsed(FunDecl(type, a.node, None), a.pos)
                        ELSE Failed(a.pos, a.pos)
           Outer(r) == CHOOSE s \in {IF v.ok THEN Follow(v) ELSE v : v \in {r}} : TRUE
<1>1. finishFunDeclaration(type, p) = Outer(expect(")", parseParams(p + 1)))
  BY Zenon DEF finishFunDeclaration, OpenBrace, Then
<1> HIDE DEF Follow
<1>2. \A r : Outer(r) = IF r.ok THEN Follow(r) ELSE r
  BY ONLY SMT
<1> HIDE DEF Outer
<1> QED
  BY <1>1, <1>2, Zenon DEF Follow

(* A declaration is done behind its semicolon, and that of a function at   *)
(* the brace of its body.                                                  *)
Declares(r) == r.ok => r.node.kind = "vardecl" \/ Kind(r.pos) = OpenBrace

LEMMA FunctionConsumes ==
  ASSUME Ends, NEW p \in Positions, Kind(p) = "(", NEW type
  PROVE  Consumes(finishFunDeclaration(type, p), p) /\ Declares(finishFunDeclaration(type, p))
<1>1. PICK x : x = expect(")", parseParams(p + 1))
  OBVIOUS
<1>2. p + 1 \in Positions /\ p < p + 1
  BY NextPlace DEF Positions
<1>3. Sound(parseParams(p + 1), p)
  BY <1>2, ParamsConsume, SoundLater DEF Consumes
<1>4. Consumes(x, p)
  BY <1>1, <1>3, ExpectConsumes
<1>5. CASE ~x.ok
  <2>1. finishFunDeclaration(type, p) = x
    BY <1>1, <1>5, FunctionIs
  <2> QED
    BY <1>4, <1>5, <2>1 DEF Declares
<1>6. CASE x.ok
  <2>1. x.pos \in Positions /\ p < x.pos /\ p <= x.pos /\ x.pos \in p..x.pos /\ x.pos # p
    BY <1>4, <1>6 DEF Consumes, Sound, Positions
  <2>2. CASE Kind(x.pos) = OpenBrace
    <3>1. finishFunDeclaration(type, p) = Parsed(FunDecl(type, x.node, None), x.pos)
      BY <1>1, <1>6, <2>2, FunctionIs
    <3> QED
      BY <2>1, <2>2, <3>1, ParsedConsumes, ResultFields DEF Declares
  <2>3. CASE Kind(x.pos) # OpenBrace
    <3>1. finishFunDeclaration(type, p) = Failed(x.pos, x.pos)
      BY <1>1, <1>6, <2>3, FunctionIs
    <3> QED
      BY <2>1, <3>1, FailedConsumes, ResultFields DEF Declares
  <2> QED
    BY <2>2, <2>3
<1> QED
  BY <1>5, <1>6

LEMMA VariableConsumes ==
  ASSUME Ends, NEW p \in Positions, NEW type
  PROVE  Consumes(finishVarDeclaration(type, p), p) /\ Declares(finishVarDeclaration(type, p))
<1> DEFINE r == IF Kind(p) = "[" THEN expect("]", expectAt("num", p + 1, VarDecl(type, TRUE)))
                ELSE Parsed(VarDecl(type, FALSE), p)
<1>1. finishVarDeclaration(type, p) = expect(Semicolon, r)
  BY Zenon DEF finishVarDeclaration, Semicolon
<1>2. Sound(r, p) /\ (r.ok => r.node.kind = "vardecl")
  <2>1. CASE Kind(p) = "["
    <3>1. PICK x : x = expectAt("num", p + 1, VarDecl(type, TRUE))
      OBVIOUS
    <3>2. p + 1 \in Positions /\ p < p + 1
      BY <2>1, NextPlace DEF Positions
    <3>3. Sound(x, p)
      BY <3>1, <3>2, ExpectAtConsumes, SoundLater DEF Consumes
    <3>4. Consumes(expect("]", x), p)
      BY <3>3, ExpectConsumes
    <3>5. r = expect("]", x)
      BY <2>1, <3>1
    <3>6. \A node : VarDecl(type, TRUE).kind = "vardecl"
      BY DEF VarDecl
    <3>7. x.ok => x.node = VarDecl(type, TRUE)
      BY <3>1, ResultFields DEF expectAt
    <3> HIDE DEF r
    <3>8. r.ok => x.ok /\ r.node = x.node
      BY <3>5, ExpectNode
    <3> QED
      BY <3>4, <3>5, <3>6, <3>7, <3>8 DEF Consumes
  <2>2. CASE Kind(p) # "["
    <3>1. r = Parsed(VarDecl(type, FALSE), p)
      BY <2>2
    <3>2. PICK d : d = VarDecl(type, FALSE)
      OBVIOUS
    <3>3. d.kind = "vardecl"
      BY <3>2 DEF VarDecl
    <3>4. PICK s : s = Parsed(d, p)
      OBVIOUS
    <3>5. Sound(s, p) /\ s.node = d
      BY <3>4, ParsedSound, ResultFields
    <3> QED
      BY <3>1, <3>2, <3>3, <3>4, <3>5
  <2> QED
    BY <2>1, <2>2
<1> HIDE DEF r
<1>3. PICK x : x = r
  OBVIOUS
<1>4. PICK s : s = expect(Semicolon, x)
  OBVIOUS
<1>5. Consumes(s, p)
  BY <1>2, <1>3, <1>4, Punctuation, ExpectConsumes
<1>6. s.ok => x.ok /\ s.node = x.node
  BY <1>4, ExpectNode
<1> QED
  BY <1>1, <1>2, <1>3, <1>4, <1>5, <1>6 DEF Declares

LEMMA DeclarationIs ==
  ASSUME NEW p, NEW x, x = TypedName(p)
  PROVE  /\ parseDeclaration(p) =
              IF ~x.ok THEN x
              ELSE IF Kind(x.pos) = "(" THEN finishFunDeclaration(x.node, x.pos)
              ELSE finishVarDeclaration(x.node, x.pos)
         /\ parseLocalVarDeclaration(p) =
              IF ~x.ok THEN x
              ELSE IF Kind(x.pos) = "(" THEN Failed(x.pos, x.pos - 1)
              ELSE finishVarDeclaration(x.node, x.pos)
<1> DEFINE Follow(a) == IF Kind(a.pos) = "(" THEN finishFunDeclaration(a.node, a.pos)
                        ELSE finishVarDeclaration(a.node, a.pos)
           Outer(r) == CHOOSE s \in {IF v.ok THEN Follow(v) ELSE v : v \in {r}} : TRUE
           FollowL(a) == IF Kind(a.pos) = "(" THEN Failed(a.pos, a.pos - 1)
                         ELSE finishVarDeclaration(a.node, a.pos)
           OuterL(r) == CHOOSE s \in {IF v.ok THEN FollowL(v) ELSE v : v \in {r}} : TRUE
<1>1. parseDeclaration(p) = Outer(TypedName(p))
  BY Zenon DEF parseDeclaration, Then
<1>2. parseLocalVarDeclaration(p) = OuterL(TypedName(p))
  BY Zenon DEF parseLocalVarDeclaration, Then
<1> HIDE DEF Follow, FollowL
<1>3. \A r : Outer(r) = IF r.ok THEN Follow(r) ELSE r
  BY ONLY SMT
<1>4. \A r : OuterL(r) = IF r.ok THEN FollowL(r) ELSE r
  BY ONLY SMT
<1> HIDE DEF Outer, OuterL
<1>5. parseDeclaration(p) =
        IF ~x.ok THEN x
        ELSE IF Kind(x.pos) = "(" THEN finishFunDeclaration(x.node, x.pos)
        ELSE finishVarDeclaration(x.node, x.pos)
  BY <1>1, <1>3, Zenon DEF Follow
<1>6. parseLocalVarDeclaration(p) =
        IF ~x.ok THEN x
        ELSE IF Kind(x.pos) = "(" THEN Failed(x.pos, x.pos - 1)
        ELSE finishVarDeclaration(x.node, x.pos)
  BY <1>2, <1>4, Zenon DEF FollowL
<1> QED
  BY <1>5, <1>6

LEMMA DeclarationConsumes ==
  ASSUME Ends, NEW p \in Positions
  PROVE  Consumes(parseDeclaration(p), p) /\ Declares(parseDeclaration(p))
<1>1. PICK x : x = TypedName(p)
  OBVIOUS
<1>2. Consumes(x, p)
  BY <1>1, TypedNameConsumes
<1>3. CASE ~x.ok
  <2>1. parseDeclaration(p) = x
    BY <1>1, <1>3, DeclarationIs
  <2> QED
    BY <1>2, <1>3, <2>1 DEF Declares
<1>4. CASE x.ok
  <2>1. x.pos \in Positions /\ p < x.pos
    BY <1>2, <1>4 DEF Consumes, Sound
  <2>2. CASE Kind(x.pos) = "("
    <3>1. parseDeclaration(p) = finishFunDeclaration(x.node, x.pos)
      BY <1>1, <1>4, <2>2, DeclarationIs
    <3> QED
      BY <2>1, <2>2, <3>1, FunctionConsumes, SoundLater DEF Consumes
  <2>3. CASE Kind(x.pos) # "("
    <3>1. parseDeclaration(p) = finishVarDeclaration(x.node, x.pos)
      BY <1>1, <1>4, <2>3, DeclarationIs
    <3> QED
      BY <2>1, <3>1, VariableConsumes, SoundLater DEF Consumes
  <2> QED
    BY <2>2, <2>3
<1> QED
  BY <1>3, <1>4

(* A local declaration is only begun at a type specifier, so it fails      *)
(* behind it.                                                              *)
LEMMA LocalConsumes ==
  ASSUME Ends, NEW p \in Positions, Kind(p) \in TypeSpecifier
  PROVE  /\ Consumes(parseLocalVarDeclaration(p), p)
         /\ ~parseLocalVarDeclaration(p).ok => p < parseLocalVarDeclaration(p).error
<1>1. PICK x : x = TypedName(p)
  OBVIOUS
<1>2. Consumes(x, p) /\ (~x.ok => p < x.error)
  BY <1>1, TypedNameConsumes
<1>3. CASE ~x.ok
  <2>1. parseLocalVarDeclaration(p) = x
    BY <1>1, <1>3, DeclarationIs
  <2> QED
    BY <1>2, <1>3, <2>1
<1>4. CASE x.ok
  <2>1. x.pos \in Positions /\ p < x.pos
    BY <1>2, <1>4 DEF Consumes, Sound
  <2>2. CASE Kind(x.pos) = "("
    <3>1. parseLocalVarDeclaration(p) = Failed(x.pos, x.pos - 1)
      BY <1>1, <1>4, <2>2, DeclarationIs
    <3>2. x.pos = p + 2
      BY <1>1, <1>4, ResultFields DEF TypedName
    <3>3. p <= x.pos /\ x.pos - 1 \in p..x.pos /\ x.pos - 1 # p /\ p < x.pos - 1
      BY <3>2 DEF Positions
    <3>4. Consumes(Failed(x.pos, x.pos - 1), p)
      BY <2>1, <3>3, FailedConsumes
    <3> QED
      BY <3>1, <3>3, <3>4, ResultFields
  <2>3. CASE Kind(x.pos) # "("
    <3>1. parseLocalVarDeclaration(p) = finishVarDeclaration(x.node, x.pos)
      BY <1>1, <1>4, <2>3, DeclarationIs
    <3>2. PICK r : r = finishVarDeclaration(x.node, x.pos)
      OBVIOUS
    <3>3. Sound(r, x.pos)
      BY <2>1, <3>2, VariableConsumes DEF Consumes
    <3>4. Consumes(r, p)
      BY <2>1, <3>3, SoundLater
    <3>5. ~r.ok => p < r.error
      BY <2>1, <3>3 DEF Sound, Positions
    <3> QED
      BY <3>1, <3>2, <3>4, <3>5
  <2> QED
    BY <2>2, <2>3
<1> QED
  BY <1>3, <1>4

-----------------------------------------------------------------------------
(* Simple statements and the headings of the others.                       *)

LEMMA OptionalConsumes ==
  ASSUME Ends, NEW p \in Positions
  PROVE  Consumes(OptionalExpression(p), p)
<1>1. OptionalExpression(p) =
        IF Kind(p) = Semicolon THEN Parsed(None, p + 1) ELSE expect(Semicolon, parseExpression(p))
  BY Zenon DEF OptionalExpression, Semicolon
<1>2. CASE Kind(p) = Semicolon
  <2>1. p + 1 \in Positions /\ p < p + 1
    BY <1>2, NextPlace, Punctuation DEF Positions
  <2> QED
    BY <1>1, <1>2, <2>1, ParsedConsumes
<1>3. CASE Kind(p) # Semicolon
  <2>1. Sound(parseExpression(p), p)
    BY ParseExpressionConsumes DEF Consumes
  <2>2. Consumes(expect(Semicolon, parseExpression(p)), p)
    BY <2>1, ExpectConsumes, Punctuation
  <2> QED
    BY <1>1, <1>3, <2>2
<1> QED
  BY <1>2, <1>3

LEMMA ExpressionStmtConsumes ==
  ASSUME Ends, NEW p \in Positions
  PROVE  Consumes(parseExpressionStmt(p), p)
  BY OptionalConsumes, MadeConsumes, Zenon DEF parseExpressionStmt

LEMMA ReturnStmtConsumes ==
  ASSUME Ends, NEW p \in Positions, Kind(p) = "return"
  PROVE  Consumes(parseReturnStmt(p), p)
<1>1. p + 1 \in Positions /\ p < p + 1
  BY NextPlace DEF Positions
<1>2. Consumes(OptionalExpression(p + 1), p)
  BY <1>1, OptionalConsumes, SoundLater DEF Consumes
<1> QED
  BY <1>2, MadeConsumes, Zenon DEF parseReturnStmt

LEMMA HeadingConsumes ==
  ASSUME Ends, NEW p \in Positions, Kind(p) \in {"if", "while"}
  PROVE  Consumes(ControlHeading(p), p)
<1>1. p + 1 \in Positions /\ p < p + 1
  BY NextPlace DEF Positions
<1>2. CASE Kind(p + 1) = "("
  <2>1. p + 1 + 1 \in Positions
    BY <1>1, <1>2, NextPlace
  <2>2. p + 2 \in Positions /\ p < p + 2
    BY <2>1 DEF Positions
  <2>3. Sound(parseExpression(p + 2), p)
    BY <2>2, ParseExpressionConsumes, SoundLater DEF Consumes
  <2>4. ControlHeading(p) = expect(")", parseExpression(p + 2))
    BY <1>2 DEF ControlHeading
  <2> QED
    BY <2>3, <2>4, ExpectConsumes
<1>3. CASE Kind(p + 1) # "("
  <2>1. ControlHeading(p) = Failed(p + 1, p + 1)
    BY <1>3 DEF ControlHeading
  <2>2. p <= p + 1 /\ p + 1 \in p..(p + 1) /\ p + 1 # p
    BY DEF Positions
  <2> QED
    BY <1>1, <2>1, <2>2, FailedConsumes
<1> QED
  BY <1>2, <1>3

-----------------------------------------------------------------------------
(* Recovery skips forward, and stops at the end of the file.               *)

LEMMA FirstExists ==
  ASSUME Ends, NEW p \in Positions, NEW S, Len(tokens) \in S
  PROVE  \E q \in p..Len(tokens) : q \in S /\ \A r \in p..(q - 1) : r \notin S
<1> DEFINE T == {q \in p..Len(tokens) : q \in S}
<1>1. T \subseteq Nat /\ T # {}
  BY DEF Ends, Positions
<1>2. PICK m \in T : \A k \in T : m <= k
  BY <1>1, LeastNumber
<1>3. m \in p..Len(tokens) /\ m \in S
  OBVIOUS
<1>4. \A r \in p..(m - 1) : r \notin S
  BY <1>2, <1>3 DEF Ends, Positions
<1> QED
  BY <1>3, <1>4

LEMMA DeclarationSkips ==
  ASSUME Ends, NEW p \in Positions
  PROVE  synchronizeDeclaration(p) \in p..Len(tokens)
<1> DEFINE Stops(q) == \/ Kind(q) = "eof"
                       \/ Kind(q) \in TypeSpecifier /\ BraceDepth(p, q) = 0
           S == {q \in p..Len(tokens) : Stops(q)}
<1>1. Stops(Len(tokens)) /\ Len(tokens) \in p..Len(tokens)
  BY DEF Ends, Positions
<1> HIDE DEF Stops
<1>2. \E q \in p..Len(tokens) : q \in S /\ \A r \in p..(q - 1) : r \notin S
  BY <1>1, FirstExists
<1>3. \A q \in p..Len(tokens) : \A r \in p..(q - 1) : r \in p..Len(tokens)
  BY DEF Ends, Positions
<1>4. \E q \in p..Len(tokens) : Stops(q) /\ \A r \in p..(q - 1) : ~Stops(r)
  BY <1>2, <1>3, Zenon
<1>5. synchronizeDeclaration(p) =
        CHOOSE q \in p..Len(tokens) : Stops(q) /\ \A r \in p..(q - 1) : ~Stops(r)
  BY Zenon DEF synchronizeDeclaration, FirstFrom, Stops
<1> QED
  BY <1>4, <1>5, Zenon

LEMMA StatementSkips ==
  ASSUME Ends, NEW p \in Positions
  PROVE  /\ synchronizeStatement(p) \in p..Len(tokens)
         /\ Kind(p) = "eof" => synchronizeStatement(p) = p
<1> DEFINE Stops(q) == \/ Kind(q) = "eof"
                       \/ previous(q) = ";"
                       \/ Kind(q) \in TypeSpecifier \union {"if", "while", "return", "{", "}"}
           S == {q \in p..Len(tokens) : Stops(q)}
           First(q) == Stops(q) /\ \A r \in p..(q - 1) : ~Stops(r)
<1>1. /\ \A q : Kind(q) = "eof" => Stops(q)
      /\ Stops(Len(tokens)) /\ Len(tokens) \in p..Len(tokens)
  <2>1. \A q : Kind(q) = "eof" => Stops(q)
    BY Zenon
  <2> HIDE DEF Stops
  <2> QED
    BY <2>1 DEF Ends, Positions
<1> HIDE DEF Stops
<1>2. \E q \in p..Len(tokens) : q \in S /\ \A r \in p..(q - 1) : r \notin S
  BY <1>1, FirstExists
<1>3. \A q \in p..Len(tokens) : \A r \in p..(q - 1) : r \in p..Len(tokens)
  BY DEF Ends, Positions
<1>4. \E q \in p..Len(tokens) : First(q)
  BY <1>2, <1>3, Zenon
<1>5. synchronizeStatement(p) = CHOOSE q \in p..Len(tokens) : First(q)
  BY Zenon DEF synchronizeStatement, FirstFrom, Stops
<1> HIDE DEF First
<1>6. synchronizeStatement(p) \in p..Len(tokens) /\ First(synchronizeStatement(p))
  BY <1>4, <1>5, Zenon
<1>7. ASSUME Kind(p) = "eof"
      PROVE  synchronizeStatement(p) = p
  <2>1. PICK q : q = synchronizeStatement(p)
    OBVIOUS
  <2>2. q \in p..Len(tokens) /\ \A r \in p..(q - 1) : ~Stops(r)
    BY <1>6, <2>1 DEF First
  <2>3. Stops(p)
    BY <1>1, <1>7
  <2>4. p \notin p..(q - 1)
    BY <2>2, <2>3
  <2> QED
    BY <2>1, <2>2, <2>4 DEF Ends, Positions
<1> QED
  BY <1>6, <1>7

LEMMA AdvancedPlace ==
  ASSUME Ends, NEW p \in Positions, NEW before
  PROVE  /\ Advanced(before, p) \in Positions /\ p <= Advanced(before, p)
         /\ Kind(p) = "eof" => Advanced(before, p) = p
         /\ Kind(before) # "eof" /\ before = p => p < Advanced(before, p)
<1>1. CASE p = before /\ Kind(p) # "eof"
  <2>1. Advanced(before, p) = p + 1 /\ p + 1 \in Positions
    BY <1>1, NextPlace DEF Advanced
  <2> QED
    BY <1>1, <2>1 DEF Positions
<1>2. CASE ~(p = before /\ Kind(p) # "eof")
  <2>1. Advanced(before, p) = p
    BY <1>2 DEF Advanced
  <2> QED
    BY <1>2, <2>1 DEF Positions
<1> QED
  BY <1>1, <1>2

-----------------------------------------------------------------------------
(* The errors reported so far, for a parser at p of the tokens t: they are *)
(* in order, none is about a token behind p, and a token but the end of    *)
(* the file has at most two.                                               *)

Log(t, e, p) ==
  /\ e \in Seq(Nat)
  /\ \A i \in 1..Len(e) : e[i] \in 1..p
  /\ \A i, j \in 1..Len(e) : i < j => e[i] <= e[j]
  /\ \A i \in 1..Len(e) - 2 : e[i] < e[i + 2] \/ t[e[i + 2]] = "eof"

(* The token at p has no error yet, or at most one.                        *)
Fresh(t, e, p) == t[p] = "eof" \/ \A i \in 1..Len(e) : e[i] < p
Once(t, e, p) == t[p] = "eof" \/ \A i \in 1..Len(e) - 1 : e[i] < p

LEMMA LogMoves ==
  ASSUME NEW t, NEW e, NEW p \in Nat, NEW q \in Nat, p <= q, Log(t, e, p)
  PROVE  /\ Log(t, e, q)
         /\ p < q => Fresh(t, e, q) /\ Once(t, e, q)
         /\ p = q /\ Once(t, e, p) => Once(t, e, q)
<1>1. Len(e) \in Nat
  BY DEF Log
<1>2. \A i \in 1..Len(e) : e[i] \in 1..q /\ (p < q => e[i] < q)
  BY DEF Log
<1>3. \A i \in 1..Len(e) - 1 : i \in 1..Len(e)
  BY <1>1
<1> QED
  BY <1>2, <1>3 DEF Log, Fresh, Once

LEMMA LogGrows ==
  ASSUME NEW t, NEW e, NEW p \in Nat, NEW q \in Nat, NEW x \in p..q, x # 0,
         Log(t, e, p), Once(t, e, p), t[p] = "eof" => x = p
  PROVE  /\ Log(t, Append(e, x), q)
         /\ p < x \/ Fresh(t, e, p) => Once(t, Append(e, x), q)
<1> DEFINE f == Append(e, x)
<1>1. /\ f \in Seq(Nat) /\ Len(f) = Len(e) + 1 /\ f[Len(e) + 1] = x
      /\ \A i \in 1..Len(e) : f[i] = e[i]
      /\ Len(e) \in Nat
  BY AppendProperties DEF Log
<1> HIDE DEF f
<1>2. PICK n \in Nat : n = Len(e)
  BY <1>1
<1>3. \A i \in 1..n : f[i] = e[i] /\ e[i] \in 1..p
  BY <1>1, <1>2 DEF Log
<1>4. f[n + 1] = x /\ Len(f) = n + 1
  BY <1>1, <1>2
<1>5. ASSUME NEW i \in 1..Len(f)
      PROVE  f[i] \in 1..q
  <2>1. CASE i = n + 1
    BY <1>4, <2>1
  <2>2. CASE i # n + 1
    <3>1. i \in 1..n
      BY <1>4, <2>2
    <3> QED
      BY <1>3, <3>1
  <2> QED
    BY <2>1, <2>2
<1>6. ASSUME NEW i \in 1..Len(f), NEW j \in 1..Len(f), i < j
      PROVE  f[i] <= f[j]
  <2>1. i \in 1..n
    BY <1>4, <1>6
  <2>2. CASE j = n + 1
    BY <1>3, <1>4, <2>1, <2>2
  <2>3. CASE j # n + 1
    <3>1. j \in 1..n
      BY <1>4, <2>3
    <3>2. e[i] <= e[j]
      BY <1>2, <1>6, <2>1, <3>1 DEF Log
    <3> QED
      BY <1>3, <2>1, <3>1, <3>2
  <2> QED
    BY <2>2, <2>3
<1>7. ASSUME NEW i \in 1..Len(f) - 2
      PROVE  f[i] < f[i + 2] \/ t[f[i + 2]] = "eof"
  <2>1. i \in 1..n /\ i \in 1..(n - 1) /\ i + 2 \in 1..(n + 1)
    BY <1>4
  <2>2. CASE i + 2 = n + 1
    <3>1. f[i + 2] = x
      BY <1>4, <2>2
    <3>2. CASE t[p] = "eof"
      BY <3>1, <3>2
    <3>3. CASE t[p] # "eof"
      <4>1. e[i] < p
        BY <1>2, <2>1, <3>3 DEF Once
      <4> QED
        BY <1>3, <2>1, <3>1, <4>1
    <3> QED
      BY <3>2, <3>3
  <2>3. CASE i + 2 # n + 1
    <3>1. i + 2 \in 1..n /\ i \in 1..Len(e) - 2
      BY <1>2, <2>1, <2>3
    <3>2. e[i] < e[i + 2] \/ t[e[i + 2]] = "eof"
      BY <3>1 DEF Log
    <3> QED
      BY <1>3, <2>1, <3>1, <3>2
  <2> QED
    BY <2>2, <2>3
<1>8. Log(t, f, q)
  BY <1>1, <1>5, <1>6, <1>7 DEF Log
<1>9. ASSUME p < x \/ Fresh(t, e, p)
      PROVE  Once(t, f, q)
  <2>1. CASE \A i \in 1..n : e[i] < x
    <3>1. \A i \in 1..Len(f) - 1 : i \in 1..n /\ f[i] = e[i]
      BY <1>3, <1>4
    <3>2. \A i \in 1..n : e[i] < q
      BY <1>3, <2>1
    <3> QED
      BY <3>1, <3>2 DEF Once
  <2>2. CASE ~ \A i \in 1..n : e[i] < x
    <3>1. ~(p < x) /\ x = p
      BY <1>3, <2>2
    <3>2. Fresh(t, e, p) /\ t[p] = "eof"
      BY <1>2, <1>9, <2>2, <3>1 DEF Fresh
    <3>3. CASE q = p
      BY <3>2, <3>3 DEF Once
    <3>4. CASE q # p
      <4>1. \A i \in 1..Len(f) - 1 : i \in 1..n /\ f[i] = e[i]
        BY <1>3, <1>4
      <4>2. \A i \in 1..n : e[i] < q
        BY <1>3, <3>4
      <4> QED
        BY <4>1, <4>2 DEF Once
    <3> QED
      BY <3>3, <3>4
  <2> QED
    BY <2>1, <2>2
<1> QED
  BY <1>8, <1>9 DEF f

-----------------------------------------------------------------------------
(* The stack: the activation of a function, and those inside it.           *)

IsActivation(a) == \E at, node, before : a = Activation(at, node, before)
InnerPlaces == {"decls", "stmts", "then", "else", "while"}

StackOK(s) ==
  /\ \E S : s \in Seq(S) /\ \A a \in S : IsActivation(a)
  /\ s # <<>> => s[1].at = "function"
  /\ \A k \in 2..Len(s) : s[k].at \in InnerPlaces

LEMMA ActivationFields ==
  ASSUME NEW at, NEW node, NEW before
  PROVE  LET a == Activation(at, node, before)
         IN IsActivation(a) /\ a.at = at /\ a.node = node /\ a.before = before
BY DEF Activation, IsActivation

LEMMA ReplacedFields ==
  ASSUME NEW a, IsActivation(a), NEW x, NEW y
  PROVE  /\ [a EXCEPT !.at = x] = Activation(x, a.node, a.before)
         /\ [a EXCEPT !.node = y] = Activation(a.at, y, a.before)
         /\ [a EXCEPT !.before = y] = Activation(a.at, a.node, y)
<1>1. PICK at, node, before : a = Activation(at, node, before)
  BY DEF IsActivation
<1>2. a.at = at /\ a.node = node /\ a.before = before
  BY <1>1 DEF Activation
<1>3. [a EXCEPT !.at = x] = Activation(x, node, before)
  BY <1>1 DEF Activation
<1>4. [a EXCEPT !.node = y] = Activation(at, y, before)
  BY <1>1 DEF Activation
<1>5. [a EXCEPT !.before = y] = Activation(at, node, y)
  BY <1>1 DEF Activation
<1> QED
  BY <1>2, <1>3, <1>4, <1>5

LEMMA NoneOK == StackOK(<<>>)
<1>1. \E S : <<>> \in Seq(S) /\ \A a \in S : IsActivation(a)
  <2>1. PICK S : S = {}
    OBVIOUS
  <2>2. <<>> \in Seq(S) /\ \A a \in S : IsActivation(a)
    BY <2>1
  <2> QED
    BY <2>2
<1>2. \A k \in 2..Len(<<>>) : <<>>[k].at \in InnerPlaces
  OBVIOUS
<1> QED
  BY <1>1, <1>2 DEF StackOK

LEMMA PushOK ==
  ASSUME NEW s, StackOK(s), s # <<>>, NEW a, IsActivation(a), a.at \in InnerPlaces
  PROVE  LET t == Append(s, a)
         IN StackOK(t) /\ t # <<>> /\ t[Len(t)] = a
<1> DEFINE t == Append(s, a)
<1>1. PICK S : s \in Seq(S) /\ \A b \in S : IsActivation(b)
  BY DEF StackOK
<1>2. PICK R : R = S \union {a}
  OBVIOUS
<1>3. s \in Seq(R) /\ a \in R /\ \A b \in R : IsActivation(b)
  BY <1>1, <1>2
<1>4. /\ t \in Seq(R) /\ Len(t) = Len(s) + 1 /\ t[Len(s) + 1] = a
      /\ \A i \in 1..Len(s) : t[i] = s[i]
      /\ Len(s) \in Nat \ {0} /\ t # <<>>
  BY <1>3, AppendProperties, EmptySeq
<1> HIDE DEF t
<1>5. t[1].at = "function"
  BY <1>4 DEF StackOK
<1>6. \A k \in 2..Len(t) : t[k].at \in InnerPlaces
  <2> SUFFICES ASSUME NEW k \in 2..Len(t) PROVE t[k].at \in InnerPlaces
    OBVIOUS
  <2>1. CASE k = Len(s) + 1
    BY <1>4, <2>1
  <2>2. CASE k # Len(s) + 1
    <3>1. k \in 2..Len(s) /\ k \in 1..Len(s)
      BY <1>4, <2>2
    <3> QED
      BY <1>4, <3>1 DEF StackOK
  <2> QED
    BY <2>1, <2>2
<1>7. StackOK(t)
  BY <1>3, <1>4, <1>5, <1>6 DEF StackOK
<1> QED
  BY <1>4, <1>7 DEF t

LEMMA InnerBelow ==
  ASSUME NEW s, StackOK(s), s # <<>>
  PROVE  /\ Len(s) \in Nat \ {0} /\ IsActivation(s[Len(s)])
         /\ s[Len(s)].at \in InnerPlaces => Len(s) > 1
         /\ s[Len(s)].at = "function" => Len(s) = 1
<1>1. PICK S : s \in Seq(S) /\ \A b \in S : IsActivation(b)
  BY DEF StackOK
<1>2. Len(s) \in Nat \ {0} /\ s[Len(s)] \in S
  BY <1>1, EmptySeq
<1>3. s[1].at = "function" /\ "function" \notin InnerPlaces
  BY DEF StackOK, InnerPlaces
<1>4. s[Len(s)].at \in InnerPlaces => Len(s) > 1
  BY <1>2, <1>3
<1>5. s[Len(s)].at = "function" => Len(s) = 1
  <2> SUFFICES ASSUME s[Len(s)].at = "function", Len(s) # 1 PROVE FALSE
    OBVIOUS
  <2>1. Len(s) \in 2..Len(s)
    <3>1. PICK n : n = Len(s)
      OBVIOUS
    <3>2. n \in Nat /\ n # 0 /\ n # 1
      BY <1>2, <3>1
    <3>3. n \in 2..n
      BY ONLY <3>2
    <3> QED
      BY ONLY <3>1, <3>3
  <2>2. s[Len(s)].at \in InnerPlaces
    BY <2>1 DEF StackOK
  <2> QED
    BY <1>3, <2>2
<1> QED
  BY <1>1, <1>2, <1>4, <1>5

LEMMA ReplaceTopOK ==
  ASSUME NEW s, StackOK(s), s # <<>>, s[Len(s)].at \in InnerPlaces,
         NEW a, IsActivation(a), a.at \in InnerPlaces
  PROVE  LET t == Append(SubSeq(s, 1, Len(s) - 1), a)
         IN StackOK(t) /\ t # <<>> /\ t[Len(t)] = a
<1> DEFINE t == Append(SubSeq(s, 1, Len(s) - 1), a)
<1>1. PICK S : s \in Seq(S) /\ \A b \in S : IsActivation(b)
  BY DEF StackOK
<1>2. PICK R : R = S \union {a}
  OBVIOUS
<1>3. s \in Seq(R) /\ a \in R /\ \A b \in R : IsActivation(b)
  BY <1>1, <1>2
<1>4. /\ t \in Seq(R) /\ Len(t) = Len(s) /\ t[Len(s)] = a
      /\ \A k \in 1..(Len(s) - 1) : t[k] = s[k]
  <2>1. s # <<>>
    OBVIOUS
  <2> QED
    BY ONLY <1>3, <2>1, ReplaceFacts, ZenonT(30)
<1> HIDE DEF t
<1>5. Len(s) \in Nat /\ Len(s) > 1
  BY InnerBelow
<1>6. t # <<>> /\ t[1].at = "function"
  BY <1>4, <1>5 DEF StackOK
<1>7. \A k \in 2..Len(t) : t[k].at \in InnerPlaces
  <2> SUFFICES ASSUME NEW k \in 2..Len(t) PROVE t[k].at \in InnerPlaces
    OBVIOUS
  <2>1. CASE k = Len(s)
    BY <1>4, <2>1
  <2>2. CASE k # Len(s)
    <3>1. k \in 2..Len(s) /\ k \in 1..(Len(s) - 1)
      BY <1>4, <1>5, <2>2
    <3> QED
      BY <1>4, <3>1 DEF StackOK
  <2> QED
    BY <2>1, <2>2
<1>8. StackOK(t)
  BY <1>3, <1>4, <1>6, <1>7 DEF StackOK
<1> QED
  BY <1>4, <1>6, <1>8 DEF t

LEMMA PopOK ==
  ASSUME NEW s, StackOK(s), s # <<>>, s[Len(s)].at \in InnerPlaces
  PROVE  LET t == SubSeq(s, 1, Len(s) - 1)
         IN StackOK(t) /\ t # <<>>
<1> DEFINE t == SubSeq(s, 1, Len(s) - 1)
<1>1. PICK S : s \in Seq(S) /\ \A b \in S : IsActivation(b)
  BY DEF StackOK
<1>2. t \in Seq(S) /\ Len(t) = Len(s) - 1 /\ \A k \in 1..(Len(s) - 1) : t[k] = s[k]
  BY <1>1, PopFacts, Zenon
<1> HIDE DEF t
<1>3. Len(s) \in Nat /\ Len(s) > 1
  BY InnerBelow
<1>4. t # <<>> /\ t[1].at = "function"
  BY <1>2, <1>3 DEF StackOK
<1>5. \A k \in 2..Len(t) : t[k].at \in InnerPlaces
  BY <1>2, <1>3 DEF StackOK
<1>6. StackOK(t)
  BY <1>1, <1>2, <1>4, <1>5 DEF StackOK
<1> QED
  BY <1>4, <1>6 DEF t


-----------------------------------------------------------------------------
(* The invariant.                                                          *)

StackFits ==
  /\ StackOK(stack)
  /\ stack = <<>> <=> doing \in {"program", "end"}
  /\ doing = "block" => Top.at \in {"decls", "stmts"}

(* A statement that begins where an error was reported is the next one of  *)
(* a block; if it fails there, reading nothing, the block moves past it.   *)
Reported ==
  /\ Log(tokens, errors, pos)
  /\ doing \in {"program", "block", "statement"} => Once(tokens, errors, pos)
  /\ doing = "statement" =>
       \/ Top.at = "stmts" /\ Top.before = pos
       \/ Top.at \in {"then", "else", "while"} /\ Fresh(tokens, errors, pos)
  /\ doing = "return" =>
       \/ Once(tokens, errors, pos)
       \/ ~result.ok /\ Top.at = "stmts" /\ Top.before = pos

PInv ==
  /\ Ends /\ pos \in Positions /\ doing \in Control
  /\ StackFits
  /\ Reported

LEMMA InvariantStays ==
  ASSUME PInv, UNCHANGED tokens, pos' \in Positions, doing' \in Control,
         StackFits', Reported'
  PROVE  PInv'
<1>1. Ends'
  BY DEF PInv, Ends, Kind
<1>2. (pos \in Positions)'
  BY DEF Positions
<1> QED
  BY <1>1, <1>2 DEF PInv, Control

(* An error more, or none: the log at a place behind what r read.          *)
LEMMA NotedLog ==
  ASSUME Ends, pos \in Positions, Log(tokens, errors, pos), Once(tokens, errors, pos),
         NEW r, Consumes(r, pos), Kind(pos) = "eof" => ~r.ok /\ r.error = pos,
         NEW q \in Positions, r.pos <= q
  PROVE  /\ Log(tokens, Noted(r), q)
         /\ pos < q \/ Fresh(tokens, errors, pos) => Once(tokens, Noted(r), q)
         /\ r.ok => Fresh(tokens, Noted(r), q)
         /\ ~r.ok /\ pos < r.error => Once(tokens, Noted(r), q)
<1>1. pos \in Nat /\ q \in Nat /\ r.pos \in Nat /\ pos <= r.pos /\ pos # 0
  BY DEF Positions, Consumes, Sound
<1>2. CASE r.ok
  <2>1. Noted(r) = errors /\ pos < q
    BY <1>1, <1>2 DEF Noted, Consumes
  <2> QED
    BY <1>1, <1>2, <2>1, LogMoves
<1>3. CASE ~r.ok
  <2>1. r.error \in pos..r.pos /\ (r.error = pos => r.pos = pos) /\ r.error # 0
    BY <1>1, <1>3 DEF Consumes, Sound
  <2>2. Noted(r) = Append(errors, r.error)
    BY <1>3, <2>1 DEF Noted
  <2>3. r.error \in pos..q /\ (tokens[pos] = "eof" => r.error = pos)
    BY <1>1, <2>1 DEF Kind
  <2>4. /\ Log(tokens, Append(errors, r.error), q)
        /\ pos < r.error \/ Fresh(tokens, errors, pos) => Once(tokens, Append(errors, r.error), q)
    BY <1>1, <2>1, <2>3, LogGrows
  <2>5. CASE pos < r.error
    BY <1>3, <2>2, <2>4, <2>5
  <2>6. CASE ~(pos < r.error)
    <3>1. r.error = pos /\ r.error \in pos..pos
      BY <1>1, <2>1, <2>6
    <3>2. Log(tokens, Append(errors, r.error), pos)
      BY <1>1, <2>1, <2>3, <3>1, LogGrows
    <3>3. pos < q => Once(tokens, Append(errors, r.error), q)
      BY <1>1, <3>2, LogMoves
    <3> QED
      BY <1>3, <2>2, <2>4, <2>6, <3>3
  <2> QED
    BY <2>5, <2>6
<1> QED
  BY <1>2, <1>3

-----------------------------------------------------------------------------
(* Each action.                                                            *)

LEMMA GlobalDeclarationInv ==
  ASSUME PInv, GlobalDeclaration
  PROVE  PInv'
<1>1. PICK r : r = parseDeclaration(pos)
  OBVIOUS
<1>2. /\ doing = "program" /\ Kind(pos) # "eof" /\ doing' = "program"
      /\ pos' = IF r.ok THEN r.pos ELSE Advanced(pos, synchronizeDeclaration(r.pos))
      /\ errors' = Noted(r)
      /\ UNCHANGED <<tokens, stack, result>>
  BY <1>1 DEF GlobalDeclaration, EndDeclaration, atEnd, peek, Kind
<1>3. /\ Ends /\ pos \in Positions /\ StackFits
      /\ Log(tokens, errors, pos) /\ Once(tokens, errors, pos)
  BY <1>2 DEF PInv, Reported
<1>4. Consumes(r, pos)
  BY <1>1, <1>3, DeclarationConsumes
<1>5. r.pos \in Positions /\ pos <= r.pos /\ (r.ok => pos < r.pos)
  BY <1>4 DEF Consumes, Sound
<1>6. pos' \in Positions /\ r.pos <= pos' /\ pos < pos'
  <2>1. CASE r.ok
    BY <1>2, <1>5, <2>1 DEF Positions
  <2>2. CASE ~r.ok
    <3>1. PICK q : q = synchronizeDeclaration(r.pos)
      OBVIOUS
    <3>2. q \in Positions /\ r.pos <= q
      BY <1>3, <1>5, <3>1, DeclarationSkips DEF Positions, Ends
    <3>3. /\ Advanced(pos, q) \in Positions /\ q <= Advanced(pos, q)
          /\ pos = q => q < Advanced(pos, q)
      BY <1>2, <1>3, <3>2, AdvancedPlace
    <3>4. pos' = Advanced(pos, q)
      BY <1>2, <2>2, <3>1
    <3> HIDE <3>1
    <3> QED
      BY <1>3, <1>5, <3>2, <3>3, <3>4 DEF Positions
  <2> QED
    BY <2>1, <2>2
<1>7. Log(tokens, Noted(r), pos') /\ Once(tokens, Noted(r), pos')
  BY <1>2, <1>3, <1>4, <1>6, NotedLog
<1>8. StackFits'
  BY <1>2, <1>3 DEF StackFits, Top
<1>9. Reported'
  BY <1>2, <1>7 DEF Reported
<1> QED
  BY <1>2, <1>6, <1>8, <1>9, InvariantStays DEF Control

LEMMA BeginFunctionInv ==
  ASSUME PInv, BeginFunction
  PROVE  PInv'
<1>1. PICK r : r = parseDeclaration(pos)
  OBVIOUS
<1>2. PICK a, b : a = Activation("function", r.node, pos) /\ b = Activation("decls", Empty, pos)
  OBVIOUS
<1>3. /\ doing = "program" /\ r.ok /\ r.node.kind = "function"
      /\ stack' = <<a, b>> /\ pos' = r.pos + 1 /\ doing' = "block"
      /\ UNCHANGED <<tokens, errors>>
  BY <1>1, <1>2 DEF BeginFunction
<1>4. /\ Ends /\ pos \in Positions
      /\ Log(tokens, errors, pos) /\ Once(tokens, errors, pos)
  BY <1>3 DEF PInv, Reported
<1>5. Consumes(r, pos) /\ Declares(r)
  BY <1>1, <1>4, DeclarationConsumes
<1>6. r.pos \in Positions /\ pos < r.pos /\ Kind(r.pos) = OpenBrace
  BY <1>3, <1>5 DEF Consumes, Sound, Declares
<1>7. pos' \in Positions /\ pos < pos'
  BY <1>3, <1>4, <1>6, NextPlace, Punctuation DEF Positions
<1>8. /\ IsActivation(a) /\ IsActivation(b) /\ a.at = "function" /\ b.at = "decls"
  BY <1>2, ActivationFields
<1>9. StackOK(<<a, b>>)
  <2>1. PICK s : s = <<a, b>>
    OBVIOUS
  <2>2. s \in Seq({a, b}) /\ s # <<>> /\ Len(s) = 2 /\ s[1] = a /\ s[2] = b
    BY <2>1
  <2>3. \A c \in {a, b} : IsActivation(c)
    BY <1>8
  <2>4. \A k \in 2..Len(s) : s[k].at \in InnerPlaces
    BY <1>8, <2>2 DEF InnerPlaces
  <2>5. StackOK(s)
    BY <1>8, <2>2, <2>3, <2>4 DEF StackOK
  <2> QED
    BY <2>1, <2>5
<1>10. StackFits'
  <2>1. Len(stack') = 2 /\ stack'[2] = b /\ stack' # <<>>
    BY <1>3
  <2> QED
    BY <1>3, <1>8, <1>9, <2>1 DEF StackFits, Top
<1>11. Reported'
  BY <1>3, <1>4, <1>7, LogMoves DEF Reported, Positions
<1> QED
  BY <1>3, <1>7, <1>10, <1>11, InvariantStays DEF Control

LEMMA LocalDeclarationInv ==
  ASSUME PInv, LocalDeclaration
  PROVE  PInv'
<1>1. PICK r : r = parseLocalVarDeclaration(pos)
  OBVIOUS
<1>2. PICK node : node = [Top.node EXCEPT !.decls = Append(@, r.node)]
  OBVIOUS
<1>3. /\ doing = "block" /\ Top.at = "decls" /\ Kind(pos) \in TypeSpecifier
      /\ stack' = IF r.ok THEN Append(Below, [Top EXCEPT !.node = node]) ELSE stack
      /\ pos' = IF r.ok THEN r.pos ELSE Advanced(pos, synchronizeStatement(r.pos))
      /\ errors' = Noted(r)
      /\ UNCHANGED <<tokens, doing, result>>
  BY <1>1, <1>2 DEF LocalDeclaration, peek, Kind
<1>4. /\ Ends /\ pos \in Positions /\ StackOK(stack) /\ stack # <<>>
      /\ Log(tokens, errors, pos) /\ Once(tokens, errors, pos)
  BY <1>3 DEF PInv, Reported, StackFits
<1>5. Consumes(r, pos) /\ (~r.ok => pos < r.error)
  BY <1>1, <1>3, <1>4, LocalConsumes
<1>6. r.pos \in Positions /\ pos <= r.pos /\ (r.ok => pos < r.pos)
  BY <1>5 DEF Consumes, Sound
<1>7. pos' \in Positions /\ r.pos <= pos'
  <2>1. CASE r.ok
    BY <1>3, <1>6, <2>1 DEF Positions
  <2>2. CASE ~r.ok
    <3>1. PICK q : q = synchronizeStatement(r.pos)
      OBVIOUS
    <3>2. q \in Positions /\ r.pos <= q
      BY <1>4, <1>6, <3>1, StatementSkips DEF Positions, Ends
    <3>3. Advanced(pos, q) \in Positions /\ q <= Advanced(pos, q)
      BY <1>4, <3>2, AdvancedPlace
    <3>4. pos' = Advanced(pos, q)
      BY <1>3, <2>2, <3>1
    <3> HIDE <3>1
    <3> QED
      BY <1>4, <1>6, <3>2, <3>3, <3>4 DEF Positions
  <2> QED
    BY <2>1, <2>2
<1>8. Kind(pos) # "eof"
  BY <1>3 DEF TypeSpecifier
<1>9. Log(tokens, Noted(r), pos') /\ Once(tokens, Noted(r), pos')
  <2>1. /\ Log(tokens, Noted(r), pos')
        /\ pos < pos' => Once(tokens, Noted(r), pos')
        /\ ~r.ok /\ pos < r.error => Once(tokens, Noted(r), pos')
    BY <1>4, <1>5, <1>7, <1>8, NotedLog
  <2>2. r.ok => pos < pos'
    BY <1>3, <1>6
  <2> QED
    BY <1>5, <2>1, <2>2
<1>10. StackOK(stack') /\ stack' # <<>> /\ stack'[Len(stack')].at = "decls"
  <2>1. CASE ~r.ok
    BY <1>3, <1>4, <2>1 DEF Top
  <2>2. CASE r.ok
    <3>1. IsActivation(Top) /\ Top.at \in InnerPlaces
      BY <1>3, <1>4, InnerBelow DEF Top, InnerPlaces
    <3>2. PICK a : a = [Top EXCEPT !.node = node]
      OBVIOUS
    <3>3. a = Activation("decls", node, Top.before)
      BY <1>3, <3>1, <3>2, ReplacedFields
    <3>4. IsActivation(a) /\ a.at = "decls"
      BY <3>3, ActivationFields
    <3>5. stack' = Append(SubSeq(stack, 1, Len(stack) - 1), a)
      BY <1>3, <2>2, <3>2 DEF Below
    <3> QED
      BY <1>4, <3>1, <3>4, <3>5, ReplaceTopOK DEF Top, InnerPlaces
  <2> QED
    BY <2>1, <2>2
<1>11. StackFits'
  BY <1>3, <1>10 DEF StackFits, Top
<1>12. Reported'
  BY <1>3, <1>9 DEF Reported
<1> QED
  BY <1>3, <1>7, <1>11, <1>12, InvariantStays DEF Control


LEMMA BeginStatementInv ==
  ASSUME PInv, BeginStatement
  PROVE  PInv'
<1>1. PICK a : a = [Top EXCEPT !.at = "stmts", !.before = pos]
  OBVIOUS
<1>2. /\ doing = "block" /\ doing' = "statement"
      /\ stack' = Append(SubSeq(stack, 1, Len(stack) - 1), a)
      /\ UNCHANGED <<tokens, pos, errors>>
  BY <1>1, Zenon DEF BeginStatement, Below
<1>3. /\ pos \in Positions /\ StackOK(stack) /\ stack # <<>> /\ Top.at \in {"decls", "stmts"}
      /\ Log(tokens, errors, pos) /\ Once(tokens, errors, pos)
  BY <1>2 DEF PInv, Reported, StackFits
<1>4. IsActivation(Top) /\ Top.at \in InnerPlaces
  BY <1>3, InnerBelow DEF Top, InnerPlaces
<1>5. IsActivation(a) /\ a.at = "stmts" /\ a.before = pos
  <2>1. PICK top, p : top = Top /\ p = pos
    OBVIOUS
  <2>2. a = [top EXCEPT !.at = "stmts", !.before = p] /\ IsActivation(top)
    BY <1>1, <1>4, <2>1
  <2> DEFINE b == [top EXCEPT !.at = "stmts"]
  <2>3. a = [b EXCEPT !.before = p]
    BY <2>2
  <2>4. b = Activation("stmts", top.node, top.before)
    BY <2>2, ReplacedFields
  <2> HIDE DEF b
  <2>5. a = Activation("stmts", top.node, p)
    <3>1. IsActivation(b) /\ b.at = "stmts" /\ b.node = top.node
      BY ONLY <2>4, ActivationFields
    <3>2. a = Activation(b.at, b.node, p)
      BY ONLY <2>3, <3>1, ReplacedFields
    <3> QED
      BY ONLY <3>1, <3>2
  <2> QED
    BY <2>1, <2>2, <2>5, ActivationFields
<1>6. StackOK(stack') /\ stack' # <<>> /\ stack'[Len(stack')] = a
  BY <1>2, <1>3, <1>4, <1>5, ReplaceTopOK DEF Top, InnerPlaces
<1>7. StackFits'
  BY <1>2, <1>6 DEF StackFits, Top
<1>8. Reported'
  BY <1>2, <1>3, <1>5, <1>6 DEF Reported, Top
<1> QED
  BY <1>2, <1>3, <1>7, <1>8, InvariantStays DEF Control, Positions

LEMMA EndBlockInv ==
  ASSUME PInv, EndBlock
  PROVE  PInv'
<1>1. PICK r : r = expectAt(CloseBrace, pos, Top.node)
  OBVIOUS
<1>2. /\ doing = "block" /\ Kind(pos) \in {CloseBrace, "eof"}
      /\ stack' = SubSeq(stack, 1, Len(stack) - 1)
      /\ pos' = r.pos /\ errors' = Noted(r) /\ doing' = "return"
      /\ UNCHANGED tokens
  BY <1>1, Zenon DEF EndBlock, Return, Below, CloseBrace, peek, Kind
<1>3. /\ Ends /\ pos \in Positions /\ StackOK(stack) /\ stack # <<>>
      /\ Top.at \in {"decls", "stmts"}
      /\ Log(tokens, errors, pos) /\ Once(tokens, errors, pos)
  BY <1>2 DEF PInv, Reported, StackFits
<1>4. Consumes(r, pos)
  BY <1>1, <1>3, ExpectAtConsumes, Punctuation
<1>5. IF Kind(pos) = "eof" THEN ~r.ok /\ r.error = pos /\ r.pos = pos ELSE r.ok
  <2>1. r = IF Kind(pos) = CloseBrace THEN Parsed(Top.node, pos + 1) ELSE Failed(pos, pos)
    BY <1>1 DEF expectAt
  <2> QED
    BY <1>2, <2>1, Punctuation, ResultFields
<1>6. pos' \in Positions
  BY <1>2, <1>4 DEF Consumes, Sound
<1>7. Log(tokens, errors', pos') /\ Once(tokens, errors', pos')
  <2>1. r.pos \in Nat /\ r.pos <= pos'
    BY <1>2, <1>6 DEF Positions
  <2>2. /\ Log(tokens, Noted(r), pos')
        /\ pos < pos' => Once(tokens, Noted(r), pos')
    BY <1>3, <1>4, <1>5, <1>6, <2>1, NotedLog
  <2>3. CASE Kind(pos) = "eof"
    BY <1>2, <1>5, <2>2, <2>3 DEF Once, Kind
  <2>4. CASE Kind(pos) # "eof"
    BY <1>2, <1>4, <1>5, <2>2, <2>4 DEF Consumes
  <2> QED
    BY <2>3, <2>4
<1>8. StackOK(stack') /\ stack' # <<>>
  <2>1. stack[Len(stack)].at \in InnerPlaces
    BY <1>3 DEF Top, InnerPlaces
  <2> QED
    BY <1>2, <1>3, <2>1, PopOK
<1>9. StackFits'
  BY <1>2, <1>8 DEF StackFits
<1>10. Reported'
  BY <1>2, <1>7 DEF Reported
<1> QED
  BY <1>2, <1>6, <1>9, <1>10, InvariantStays DEF Control

(* A failed rule of a statement: it returns as it is.                      *)
LEMMA ReturnInv ==
  ASSUME PInv, doing = "statement", UNCHANGED <<tokens, stack>>,
         NEW r, Return(r), Consumes(r, pos), Kind(pos) = "eof" => ~r.ok /\ r.error = pos
  PROVE  PInv'
<1>1. pos' = r.pos /\ errors' = Noted(r) /\ doing' = "return" /\ result' = r
  BY DEF Return
<1>2. /\ Ends /\ pos \in Positions /\ StackOK(stack) /\ stack # <<>>
      /\ Log(tokens, errors, pos) /\ Once(tokens, errors, pos)
      /\ \/ Top.at = "stmts" /\ Top.before = pos
         \/ Top.at \in {"then", "else", "while"} /\ Fresh(tokens, errors, pos)
  BY DEF PInv, Reported, StackFits
<1>3. pos' \in Positions /\ pos <= pos' /\ r.pos <= pos' /\ (r.ok => pos < pos')
  BY <1>1, <1>2 DEF Consumes, Sound, Positions
<1>4. ~r.ok => r.error \in pos..pos' /\ (r.error = pos => pos' = pos)
  BY <1>1 DEF Consumes, Sound
<1>5. /\ Log(tokens, Noted(r), pos')
      /\ pos < pos' \/ Fresh(tokens, errors, pos) => Once(tokens, Noted(r), pos')
  BY <1>2, <1>3, NotedLog
<1>6. \/ Once(tokens, Noted(r), pos')
      \/ ~r.ok /\ Top.at = "stmts" /\ Top.before = pos'
  BY <1>2, <1>3, <1>5 DEF Positions
<1>7. StackFits'
  BY <1>1, <1>2 DEF StackFits, Top
<1>8. Reported'
  BY <1>1, <1>5, <1>6 DEF Reported, Top
<1> QED
  BY <1>1, <1>3, <1>7, <1>8, InvariantStays DEF Control

LEMMA SimpleStatementInv ==
  ASSUME PInv, SimpleStatement
  PROVE  PInv'
<1>1. PICK r : r = CASE peek = "return" -> parseReturnStmt(pos)
                     [] peek \in {";", "id", "num", "("} -> parseExpressionStmt(pos)
                     [] OTHER -> Failed(pos, pos)
  OBVIOUS
<1>2. doing = "statement" /\ Return(r) /\ UNCHANGED <<tokens, stack>>
  BY <1>1, Zenon DEF SimpleStatement
<1>3. Ends /\ pos \in Positions
  BY DEF PInv
<1>4. CASE Kind(pos) = "return"
  <2>1. r = parseReturnStmt(pos)
    BY <1>1, <1>4, Zenon DEF peek, Kind
  <2> QED
    BY <1>2, <1>3, <1>4, <2>1, ReturnStmtConsumes, ReturnInv
<1>5. CASE Kind(pos) \in {";", "id", "num", "("}
  <2>1. r = parseExpressionStmt(pos) /\ Kind(pos) # "eof"
    BY <1>1, <1>5, Zenon DEF peek, Kind
  <2> QED
    BY <1>2, <1>3, <2>1, ExpressionStmtConsumes, ReturnInv
<1>6. CASE Kind(pos) # "return" /\ Kind(pos) \notin {";", "id", "num", "("}
  <2>1. r = Failed(pos, pos)
    BY <1>1, <1>6, Zenon DEF peek, Kind
  <2>2. Consumes(r, pos) /\ ~r.ok /\ r.error = pos
    BY <1>3, <2>1, FailedConsumes, ResultFields DEF Positions
  <2> QED
    BY <1>2, <2>2, ReturnInv
<1> QED
  BY <1>4, <1>5, <1>6, Zenon

LEMMA NestedBlockInv ==
  ASSUME PInv, NestedBlock
  PROVE  PInv'
<1>1. PICK a : a = Activation("decls", Empty, pos)
  OBVIOUS
<1>2. /\ doing = "statement" /\ Kind(pos) = OpenBrace /\ stack' = Append(stack, a)
      /\ pos' = pos + 1 /\ doing' = "block" /\ UNCHANGED <<tokens, errors>>
  BY <1>1, Zenon DEF NestedBlock, OpenBrace, peek, Kind
<1>3. /\ Ends /\ pos \in Positions /\ StackOK(stack) /\ stack # <<>>
      /\ Log(tokens, errors, pos)
  BY <1>2 DEF PInv, Reported, StackFits
<1>4. pos' \in Positions /\ pos < pos'
  BY <1>2, <1>3, NextPlace, Punctuation DEF Positions
<1>5. IsActivation(a) /\ a.at = "decls"
  BY <1>1, ActivationFields
<1>6. StackOK(stack') /\ stack' # <<>> /\ stack'[Len(stack')] = a
  BY <1>2, <1>3, <1>5, PushOK DEF InnerPlaces
<1>7. StackFits'
  BY <1>2, <1>5, <1>6 DEF StackFits, Top
<1>8. Reported'
  BY <1>2, <1>3, <1>4, LogMoves DEF Reported, Positions
<1> QED
  BY <1>2, <1>4, <1>7, <1>8, InvariantStays DEF Control

LEMMA ControlStatementInv ==
  ASSUME PInv, ControlStatement
  PROVE  PInv'
<1>1. PICK r : r = ControlHeading(pos)
  OBVIOUS
<1>2. PICK a : a = IF peek = "if"
                   THEN Activation("then", IfStmt(r.node, None, None), pos)
                   ELSE Activation("while", WhileStmt(r.node, None), pos)
  OBVIOUS
<1>3. /\ doing = "statement" /\ Kind(pos) \in {"if", "while"}
      /\ IF r.ok
         THEN /\ stack' = Append(stack, a) /\ pos' = r.pos
              /\ UNCHANGED <<doing, result, errors>>
         ELSE Return(r) /\ UNCHANGED stack
      /\ UNCHANGED tokens
  BY <1>1, <1>2 DEF ControlStatement, peek, Kind
<1>4. Ends /\ pos \in Positions /\ Kind(pos) # "eof"
  BY <1>3 DEF PInv
<1>5. Consumes(r, pos)
  BY <1>1, <1>3, <1>4, HeadingConsumes
<1>6. CASE ~r.ok
  BY <1>3, <1>4, <1>5, <1>6, ReturnInv
<1>7. CASE r.ok
  <2>1. /\ stack' = Append(stack, a) /\ pos' = r.pos /\ doing' = "statement"
        /\ UNCHANGED <<tokens, errors, result>>
    BY <1>3, <1>7
  <2>2. StackOK(stack) /\ stack # <<>> /\ Log(tokens, errors, pos)
    BY <1>3 DEF PInv, Reported, StackFits
  <2>3. pos' \in Positions /\ pos < pos'
    BY <1>5, <1>7, <2>1 DEF Consumes, Sound
  <2>4. IsActivation(a) /\ a.at \in {"then", "while"}
    BY <1>2, ActivationFields
  <2>5. StackOK(stack') /\ stack' # <<>> /\ stack'[Len(stack')] = a
    BY <2>1, <2>2, <2>4, PushOK DEF InnerPlaces
  <2>6. StackFits'
    BY <2>1, <2>5 DEF StackFits
  <2>7. Log(tokens, errors, pos') /\ Fresh(tokens, errors, pos') /\ Once(tokens, errors, pos')
    BY <1>4, <2>2, <2>3, LogMoves DEF Positions
  <2>8. Reported'
    BY <2>1, <2>4, <2>5, <2>7 DEF Reported, Top
  <2> QED
    BY <2>1, <2>3, <2>6, <2>8, InvariantStays DEF Control
<1> QED
  BY <1>6, <1>7


LEMMA ParseElseInv ==
  ASSUME PInv, ParseElse
  PROVE  PInv'
<1>1. PICK node : node = [Top.node EXCEPT !.then = result.node]
  OBVIOUS
<1>2. PICK a : a = [Top EXCEPT !.at = "else", !.node = node]
  OBVIOUS
<1>3. /\ doing = "return" /\ Top.at = "then" /\ result.ok /\ Kind(pos) = "else"
      /\ stack' = Append(SubSeq(stack, 1, Len(stack) - 1), a)
      /\ pos' = pos + 1 /\ doing' = "statement" /\ UNCHANGED <<tokens, errors>>
  BY <1>1, <1>2 DEF ParseElse, Below, peek, Kind
<1>4. /\ Ends /\ pos \in Positions /\ StackOK(stack) /\ stack # <<>> /\ Log(tokens, errors, pos)
  BY <1>3 DEF PInv, Reported, StackFits
<1>5. pos' \in Positions /\ pos < pos'
  BY <1>3, <1>4, NextPlace DEF Positions
<1>6. IsActivation(Top) /\ Top.at \in InnerPlaces
  BY <1>3, <1>4, InnerBelow DEF Top, InnerPlaces
<1>7. IsActivation(a) /\ a.at = "else"
  <2>1. PICK top : top = Top
    OBVIOUS
  <2> DEFINE b == [top EXCEPT !.at = "else"]
  <2>2. a = [b EXCEPT !.node = node] /\ IsActivation(top)
    BY <1>2, <1>6, <2>1
  <2>3. b = Activation("else", top.node, top.before)
    BY <2>2, ReplacedFields
  <2> HIDE DEF b
  <2>4. a = Activation("else", node, top.before)
    <3>1. IsActivation(b) /\ b.at = "else" /\ b.before = top.before
      BY ONLY <2>3, ActivationFields
    <3>2. a = Activation(b.at, node, b.before)
      BY ONLY <2>2, <3>1, ReplacedFields
    <3> QED
      BY ONLY <3>1, <3>2
  <2> QED
    BY <2>4, ActivationFields
<1>8. StackOK(stack') /\ stack' # <<>> /\ stack'[Len(stack')] = a
  BY <1>3, <1>4, <1>6, <1>7, ReplaceTopOK DEF Top, InnerPlaces
<1>9. StackFits'
  BY <1>3, <1>8 DEF StackFits
<1>10. Log(tokens, errors, pos') /\ Fresh(tokens, errors, pos') /\ Once(tokens, errors, pos')
  BY <1>4, <1>5, LogMoves DEF Positions
<1>11. Reported'
  BY <1>3, <1>7, <1>8, <1>10 DEF Reported, Top
<1> QED
  BY <1>3, <1>5, <1>9, <1>11, InvariantStays DEF Control

LEMMA EndControlStatementInv ==
  ASSUME PInv, EndControlStatement
  PROVE  PInv'
<1>1. PICK r : r = CASE ~result.ok -> Null
                     [] result.ok /\ Top.at = "then" ->
                          Parsed([Top.node EXCEPT !.then = result.node], pos)
                     [] result.ok /\ Top.at = "else" ->
                          Parsed([Top.node EXCEPT !.else = result.node], pos)
                     [] OTHER -> Parsed([Top.node EXCEPT !.body = result.node], pos)
  OBVIOUS
<1>2. /\ doing = "return" /\ Top.at \in {"then", "else", "while"} /\ Return(r)
      /\ stack' = SubSeq(stack, 1, Len(stack) - 1) /\ UNCHANGED tokens
  BY <1>1, Zenon DEF EndControlStatement, Below
<1>3. r = Null \/ \E node : r = Parsed(node, pos)
  BY <1>1, Zenon
<1>4. r.pos = pos /\ (~r.ok => r.error = 0)
  BY <1>3, ResultFields DEF Null
<1>5. pos' = pos /\ errors' = errors /\ doing' = "return"
  BY <1>2, <1>4 DEF Return, Noted
<1>6. /\ pos \in Positions /\ StackOK(stack) /\ stack # <<>>
      /\ Log(tokens, errors, pos) /\ Once(tokens, errors, pos)
  BY <1>2 DEF PInv, Reported, StackFits
<1>7. StackOK(stack') /\ stack' # <<>>
  <2>1. stack[Len(stack)].at \in InnerPlaces
    BY <1>2 DEF Top, InnerPlaces
  <2> QED
    BY <1>2, <1>6, <2>1, PopOK
<1>8. StackFits'
  BY <1>5, <1>7 DEF StackFits
<1>9. Reported'
  BY <1>2, <1>5, <1>6 DEF Reported
<1> QED
  BY <1>2, <1>5, <1>6, <1>8, <1>9, InvariantStays DEF Control, Positions

LEMMA EndStatementInv ==
  ASSUME PInv, EndStatement
  PROVE  PInv'
<1>1. PICK node : node = [Top.node EXCEPT !.stmts = Append(@, result.node)]
  OBVIOUS
<1>2. PICK a : a = [Top EXCEPT !.node = node]
  OBVIOUS
<1>3. /\ doing = "return" /\ Top.at = "stmts" /\ doing' = "block"
      /\ IF result.ok
         THEN stack' = Append(SubSeq(stack, 1, Len(stack) - 1), a) /\ UNCHANGED pos
         ELSE /\ pos' = Advanced(Top.before, synchronizeStatement(pos))
              /\ UNCHANGED stack
      /\ UNCHANGED <<tokens, errors>>
  BY <1>1, <1>2 DEF EndStatement, Below
<1>4. /\ Ends /\ pos \in Positions /\ StackOK(stack) /\ stack # <<>> /\ Log(tokens, errors, pos)
      /\ Once(tokens, errors, pos) \/ (~result.ok /\ Top.before = pos)
  BY <1>3 DEF PInv, Reported, StackFits
<1>5. StackOK(stack') /\ stack' # <<>> /\ stack'[Len(stack')].at = "stmts"
  <2>1. CASE result.ok
    <3>1. IsActivation(Top) /\ Top.at \in InnerPlaces
      BY <1>3, <1>4, InnerBelow DEF Top, InnerPlaces
    <3>2. a = Activation("stmts", node, Top.before)
      BY <1>2, <1>3, <3>1, ReplacedFields, Zenon
    <3>3. IsActivation(a) /\ a.at = "stmts"
      BY <3>2, ActivationFields
    <3> QED
      BY <1>3, <1>4, <2>1, <3>1, <3>3, ReplaceTopOK DEF Top, InnerPlaces
  <2>2. CASE ~result.ok
    BY <1>3, <1>4, <2>2 DEF Top
  <2> QED
    BY <2>1, <2>2
<1>6. /\ pos' \in Positions /\ pos <= pos'
      /\ pos < pos' \/ Once(tokens, errors, pos)
  <2>1. CASE result.ok
    BY <1>3, <1>4, <2>1 DEF Positions
  <2>2. CASE ~result.ok
    <3>1. PICK q : q = synchronizeStatement(pos)
      OBVIOUS
    <3>2. q \in Positions /\ pos <= q
      BY <1>4, <3>1, StatementSkips DEF Positions, Ends
    <3>3. /\ Advanced(Top.before, q) \in Positions /\ q <= Advanced(Top.before, q)
          /\ Kind(Top.before) # "eof" /\ Top.before = q => q < Advanced(Top.before, q)
      BY <1>4, <3>2, AdvancedPlace
    <3>4. pos' = Advanced(Top.before, q)
      BY <1>3, <2>2, <3>1
    <3>5. Once(tokens, errors, pos) \/ (Top.before = pos /\ Kind(pos) # "eof")
      BY <1>4 DEF Once, Kind
    <3> HIDE <3>1
    <3> QED
      BY <1>4, <3>2, <3>3, <3>4, <3>5 DEF Positions
  <2> QED
    BY <2>1, <2>2
<1>7. Log(tokens, errors, pos') /\ Once(tokens, errors, pos')
  BY <1>4, <1>6, LogMoves DEF Positions
<1>8. StackFits'
  BY <1>3, <1>5 DEF StackFits, Top
<1>9. Reported'
  BY <1>3, <1>7 DEF Reported
<1> QED
  BY <1>3, <1>6, <1>8, <1>9, InvariantStays DEF Control

LEMMA EndFunctionInv ==
  ASSUME PInv, EndFunction
  PROVE  PInv'
<1>1. PICK r : r = IF result.ok
                   THEN Parsed([Top.node EXCEPT !.body = result.node], pos) ELSE Null
  OBVIOUS
<1>2. /\ doing = "return" /\ Top.at = "function" /\ stack' = <<>> /\ doing' = "program"
      /\ pos' = IF r.ok THEN r.pos ELSE Advanced(Top.before, synchronizeDeclaration(r.pos))
      /\ errors' = Noted(r) /\ UNCHANGED tokens
  BY <1>1 DEF EndFunction, EndDeclaration
<1>3. r = Null \/ \E node : r = Parsed(node, pos)
  BY <1>1
<1>4. r.pos = pos /\ errors' = errors
  BY <1>2, <1>3, ResultFields DEF Null, Noted
<1>5. /\ Ends /\ pos \in Positions /\ Log(tokens, errors, pos) /\ Once(tokens, errors, pos)
  BY <1>2 DEF PInv, Reported
<1>6. pos' \in Positions /\ pos <= pos'
  <2>1. CASE r.ok
    BY <1>2, <1>4, <1>5, <2>1 DEF Positions
  <2>2. CASE ~r.ok
    <3>1. PICK q : q = synchronizeDeclaration(pos)
      OBVIOUS
    <3>2. q \in Positions /\ pos <= q
      BY <1>5, <3>1, DeclarationSkips DEF Positions, Ends
    <3>3. Advanced(Top.before, q) \in Positions /\ q <= Advanced(Top.before, q)
      BY <1>5, <3>2, AdvancedPlace
    <3>4. pos' = Advanced(Top.before, q)
      BY <1>2, <1>4, <2>2, <3>1
    <3> HIDE <3>1
    <3> QED
      BY <1>5, <3>2, <3>3, <3>4 DEF Positions
  <2> QED
    BY <2>1, <2>2
<1>7. Log(tokens, errors, pos') /\ Once(tokens, errors, pos')
  BY <1>5, <1>6, LogMoves DEF Positions
<1>8. StackFits'
  BY <1>2, NoneOK DEF StackFits
<1>9. Reported'
  BY <1>2, <1>4, <1>7 DEF Reported
<1> QED
  BY <1>2, <1>6, <1>8, <1>9, InvariantStays DEF Control

LEMMA EndProgramInv ==
  ASSUME PInv, EndProgram
  PROVE  PInv'
<1>1. /\ doing = "program" /\ Kind(pos) = "eof" /\ doing' = "end"
      /\ errors' = IF pos = 1 THEN Append(errors, pos) ELSE errors
      /\ UNCHANGED <<tokens, pos, stack>>
  BY DEF EndProgram, atEnd, peek, Kind
<1>2. /\ pos \in Positions /\ StackFits /\ Log(tokens, errors, pos) /\ Once(tokens, errors, pos)
  BY <1>1 DEF PInv, Reported
<1>3. Log(tokens, Append(errors, pos), pos)
  <2>1. pos \in Nat /\ pos \in pos..pos /\ pos # 0
    BY <1>2 DEF Positions
  <2> QED
    BY <1>2, <2>1, LogGrows
<1>4. Log(tokens, errors', pos')
  BY <1>1, <1>2, <1>3
<1>5. StackFits'
  BY <1>1, <1>2 DEF StackFits
<1>6. Reported'
  BY <1>1, <1>4 DEF Reported
<1> QED
  BY <1>1, <1>2, <1>5, <1>6, InvariantStays DEF Control, Positions

-----------------------------------------------------------------------------
LEMMA InitInv == Init => PInv
<1> SUFFICES ASSUME Init PROVE PInv
  OBVIOUS
<1>1. PICK input \in Inputs : tokens = Append(input, "eof")
  BY DEF Init
<1>2. input \in Seq(Token \union {"eof"})
  BY <1>1, InputAssumption
<1>3. /\ Len(tokens) = Len(input) + 1 /\ tokens[Len(input) + 1] = "eof" /\ Len(input) \in Nat
  BY <1>1, <1>2, AppendProperties
<1>4. Ends /\ pos \in Positions
  BY <1>3 DEF Ends, Positions, Kind, Init
<1>5. StackFits
  BY NoneOK DEF Init, StackFits
<1>6. Reported
  BY DEF Init, Reported, Log, Once
<1> QED
  BY <1>4, <1>5, <1>6 DEF PInv, Init, Control

LEMMA NextInv == PInv /\ [Next]_vars => PInv'
<1> SUFFICES ASSUME PInv, [Next]_vars PROVE PInv'
  OBVIOUS
<1>1. CASE UNCHANGED vars
  <2>1. StackFits'
    BY <1>1 DEF vars, PInv, StackFits, Top
  <2>2. Reported'
    BY <1>1 DEF vars, PInv, Reported, Top
  <2> QED
    BY <1>1, <2>1, <2>2, InvariantStays DEF vars, PInv, Positions
<1>2. CASE Next
  BY <1>2, GlobalDeclarationInv, BeginFunctionInv, EndFunctionInv, LocalDeclarationInv,
     BeginStatementInv, EndStatementInv, EndBlockInv, SimpleStatementInv, NestedBlockInv,
     ControlStatementInv, ParseElseInv, EndControlStatementInv, EndProgramInv DEF Next
<1> QED
  BY <1>1, <1>2

(* The positions and the stack are always those that the parser's rules    *)
(* call for: no sequence of failed rules and recoveries takes it past the  *)
(* end of the file, which peek() would read, or leaves a function or a     *)
(* block it is still inside.                                               *)
THEOREM TypeCorrect == Spec => []TypeOK
<1>1. PInv => TypeOK
  BY DEF PInv, StackFits, StackOK, Reported, Log, TypeOK, InnerPlaces, Positions
<1> QED
  BY <1>1, InitInv, NextInv, PTL DEF Spec

(* Whatever the tokens, recovery never reports an error before one already *)
(* reported, and complains of no token more than twice; only the end of    *)
(* the file may get one from every block that it leaves open.              *)
THEOREM ErrorsInOrder == Spec => []ReportedInOrder
<1>1. PInv => ReportedInOrder
  <2> SUFFICES ASSUME PInv PROVE ReportedInOrder
    OBVIOUS
  <2>1. Log(tokens, errors, pos) /\ Len(errors) \in Nat
    BY DEF PInv, Reported, Log
  <2>2. \A i \in 1..Len(errors) - 1 : errors[i] <= errors[i + 1]
    BY <2>1 DEF Log
  <2> QED
    BY <2>1, <2>2 DEF Log, ReportedInOrder, Kind
<1> QED
  BY <1>1, InitInv, NextInv, PTL DEF Spec
=============================================================================
