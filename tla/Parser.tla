------------------------------- MODULE Parser -------------------------------
(***************************************************************************)
(* The recursive-descent parser with panic-mode recovery (src/Parser.cpp). *)
(*                                                                         *)
(* A failed rule reports one error and gives the null pointer to its       *)
(* caller.  Within an expression, a heading or a declaration nothing       *)
(* catches that, so what one of these does is an operator on the position  *)
(* it starts at.  Blocks and the program catch it and go on: they and the  *)
(* statements around them are activations on a stack, one step from a call *)
(* to the next.                                                            *)
(*                                                                         *)
(* A token is its kind.  `int' and `void' are the type specifiers; "<",    *)
(* "+" and "*" stand for every relop, addop and mulop.  The driver starts  *)
(* the parser only on tokens without a scanner error.                      *)
(***************************************************************************)
EXTENDS Naturals, Sequences

CONSTANTS
  Inputs,  \* the token sequences parsed, without their end of file
  None     \* the null pointer

VARIABLES
  tokens,  \* tokens_
  pos,     \* pos_, from 1
  doing,   \* where control is: see Control
  stack,   \* activations of the statement rules, innermost last
  result,  \* what the rule that has just returned gave
  errors,  \* the tokens at which an error was reported, in order
  decls    \* Program::decls

vars == <<tokens, pos, doing, stack, result, errors, decls>>

TypeSpecifier == {"int", "void"}
Token == TypeSpecifier \union
  {"id", "num", "(", ")", "[", "]", "{", "}", ";", ",", "=", "<", "+", "*",
   "if", "else", "while", "return"}

ASSUME InputAssumption == Inputs \subseteq Seq(Token)

Positions == 1..Len(tokens)
peek == tokens[pos]
atEnd == peek = "eof"
Kind(p) == tokens[p]

-----------------------------------------------------------------------------
(* What a rule gives: a node and the position behind it, or null and the   *)
(* token it complained about.                                              *)

Parsed(node, p) == [ok |-> TRUE, node |-> node, pos |-> p, error |-> 0]
Failed(p, error) == [ok |-> FALSE, node |-> None, pos |-> p, error |-> error]

(* What comes after a rule that gave r; a failure is passed on.  (The      *)
(* singleton makes TLC evaluate r once.)                                   *)
Then(r, Next(_)) == CHOOSE s \in {IF x.ok THEN Next(x) ELSE x : x \in {r}} : TRUE

expectAt(kind, p, node) ==
  IF Kind(p) = kind THEN Parsed(node, p + 1) ELSE Failed(p, p)
expect(kind, r) == Then(r, LAMBDA x : expectAt(kind, x.pos, x.node))

Made(r, Make(_)) == Then(r, LAMBDA x : Parsed(Make(x.node), x.pos))

-----------------------------------------------------------------------------
(* Expressions.                                                            *)

Num == [kind |-> "num", parenthesized |-> FALSE]
Var(index) == [kind |-> "var", index |-> index, parenthesized |-> FALSE]
Call(args) == [kind |-> "call", args |-> args, parenthesized |-> FALSE]
Assign(target, value) ==
  [kind |-> "assign", target |-> target, value |-> value, parenthesized |-> FALSE]
Binary(op, lhs, rhs) ==
  [kind |-> "binary", op |-> op, lhs |-> lhs, rhs |-> rhs, parenthesized |-> FALSE]

InParentheses(node) == [node EXCEPT !.parenthesized = TRUE]

(* As it would be with operators that associate to the right.              *)
FoldRight(op, first, rest) ==
  LET operands == <<first>> \o rest
      node[n \in 1..Len(operands)] ==
        IF n = Len(operands) THEN operands[n] ELSE Binary(op, operands[n], node[n + 1])
  IN node[1]

(* A left-recursive rule is a loop over the operators of `op': `rest' are  *)
(* the operands behind the first one.                                      *)
Fold(op, first, rest) ==
  LET node[n \in 0..Len(rest)] ==
        IF n = 0 THEN first ELSE Binary(op, node[n - 1], rest[n])
  IN node[Len(rest)]

(* Only a variable that is not in parentheses is an l-value.               *)
Assigned(lhs, value) ==
  IF lhs.node.kind # "var" \/ lhs.node.parenthesized
  THEN Failed(value.pos, lhs.pos)
  ELSE Parsed(Assign(lhs.node, value.node), value.pos)

(* Relational operators do not associate.                                  *)
Compared(lhs, rhs) ==
  IF Kind(rhs.pos) = "<"
  THEN Failed(rhs.pos, rhs.pos)
  ELSE Parsed(Binary("<", lhs.node, rhs.node), rhs.pos)

(* What the rules compute at p, given what they compute behind it and what *)
(* the rules of higher precedence compute at p.                            *)

Expression(rules, p) ==
  Then(rules[<<"simple", p>>], LAMBDA lhs :
    IF Kind(lhs.pos) = "="
    THEN Then(rules[<<"expression", lhs.pos + 1>>], LAMBDA value : Assigned(lhs, value))
    ELSE lhs)

SimpleExpression(rules, p) ==
  Then(rules[<<"additive", p>>], LAMBDA lhs :
    IF Kind(lhs.pos) = "<"
    THEN Then(rules[<<"additive", lhs.pos + 1>>], LAMBDA rhs : Compared(lhs, rhs))
    ELSE lhs)

(* One operand and those that `more' finds behind it.                      *)
Operation(op, operand, more, rules, p) ==
  Then(rules[<<operand, p>>], LAMBDA first :
    Made(rules[<<more, first.pos>>], LAMBDA rest : Fold(op, first.node, rest)))

Operands(op, operand, more, rules, p) ==
  IF Kind(p) # op THEN Parsed(<<>>, p)
  ELSE Then(rules[<<operand, p + 1>>], LAMBDA next :
         Made(rules[<<more, next.pos>>], LAMBDA rest : <<next.node>> \o rest))

Args(rules, p) ==
  Then(rules[<<"expression", p>>], LAMBDA arg :
    IF Kind(arg.pos) = ","
    THEN Made(rules[<<"args", arg.pos + 1>>], LAMBDA rest : <<arg.node>> \o rest)
    ELSE Parsed(<<arg.node>>, arg.pos))

OptionalArgs(rules, p) == IF Kind(p) = ")" THEN Parsed(<<>>, p) ELSE rules[<<"args", p>>]

Factor(rules, p) ==
  CASE Kind(p) = "(" -> Made(expect(")", rules[<<"expression", p + 1>>]), InParentheses)
    [] Kind(p) = "num" -> Parsed(Num, p + 1)
    [] Kind(p) = "id" /\ Kind(p + 1) = "(" -> Made(expect(")", OptionalArgs(rules, p + 2)), Call)
    [] Kind(p) = "id" /\ Kind(p + 1) = "[" -> Made(expect("]", rules[<<"expression", p + 2>>]), Var)
    [] Kind(p) = "id" /\ Kind(p + 1) \notin {"(", "["} -> Parsed(Var(None), p + 1)
    [] OTHER -> Failed(p, p)

Rules == {"expression", "simple", "additive", "addends", "term", "factors", "factor", "args"}

Rule(rules, rule, p) ==
  CASE rule = "expression" -> Expression(rules, p)
    [] rule = "simple" -> SimpleExpression(rules, p)
    [] rule = "additive" -> Operation("+", "term", "addends", rules, p)
    [] rule = "addends" -> Operands("+", "term", "addends", rules, p)
    [] rule = "term" -> Operation("*", "factor", "factors", rules, p)
    [] rule = "factors" -> Operands("*", "factor", "factors", rules, p)
    [] rule = "factor" -> Factor(rules, p)
    [] rule = "args" -> Args(rules, p)

parse[goal \in Rules \X Positions] == Rule(parse, goal[1], goal[2])

parseExpression(p) == parse[<<"expression", p>>]

-----------------------------------------------------------------------------
(* Declarations and headings.                                              *)

(* type-specifier ID, the prefix of every declaration.                     *)
TypedName(p) ==
  CASE Kind(p) \notin TypeSpecifier -> Failed(p, p)
    [] Kind(p) \in TypeSpecifier /\ Kind(p + 1) # "id" -> Failed(p + 1, p + 1)
    [] OTHER -> Parsed(Kind(p), p + 2)

VarDecl(type, isArray) == [kind |-> "vardecl", type |-> type, isArray |-> isArray]
Param(type, isArray) == [type |-> type, isArray |-> isArray]
FunDecl(type, params, body) ==
  [kind |-> "function", type |-> type, params |-> params, body |-> body]

finishVarDeclaration(type, p) ==
  expect(";", IF Kind(p) = "["
              THEN expect("]", expectAt("num", p + 1, VarDecl(type, TRUE)))
              ELSE Parsed(VarDecl(type, FALSE), p))

parseParam(p) ==
  Then(TypedName(p), LAMBDA name :
    IF Kind(name.pos) = "["
    THEN expectAt("]", name.pos + 1, Param(name.node, TRUE))
    ELSE Parsed(Param(name.node, FALSE), name.pos))

Params(lists, p) ==
  Then(parseParam(p), LAMBDA param :
    IF Kind(param.pos) = ","
    THEN Made(lists[param.pos + 1], LAMBDA rest : <<param.node>> \o rest)
    ELSE Parsed(<<param.node>>, param.pos))

paramList[p \in Positions] == Params(paramList, p)

(* `void' alone is the empty list, which may not be written as nothing.    *)
parseParams(p) ==
  CASE Kind(p) = "void" /\ Kind(p + 1) = ")" -> Parsed(<<>>, p + 1)
    [] Kind(p) = ")" -> Failed(p, p)
    [] OTHER -> paramList[p]

(* Up to the brace that begins the body, which is left to be read.         *)
finishFunDeclaration(type, p) ==
  Then(expect(")", parseParams(p + 1)), LAMBDA params :
    IF Kind(params.pos) = "{"
    THEN Parsed(FunDecl(type, params.node, None), params.pos)
    ELSE Failed(params.pos, params.pos))

parseDeclaration(p) ==
  Then(TypedName(p), LAMBDA name :
    IF Kind(name.pos) = "("
    THEN finishFunDeclaration(name.node, name.pos)
    ELSE finishVarDeclaration(name.node, name.pos))

(* Blocks declare variables only; the complaint is about the name.         *)
parseLocalVarDeclaration(p) ==
  Then(TypedName(p), LAMBDA name :
    IF Kind(name.pos) = "("
    THEN Failed(name.pos, name.pos - 1)
    ELSE finishVarDeclaration(name.node, name.pos))

-----------------------------------------------------------------------------
(* Recovery.                                                               *)

FirstFrom(p, Stops(_)) ==
  CHOOSE q \in p..Len(tokens) : Stops(q) /\ \A r \in p..q - 1 : ~Stops(r)

(* The depth of braces at q, counted from p and never below zero.          *)
BraceDepth(p, q) ==
  LET depth[r \in p..q] ==
        CASE r = p -> 0
          [] r > p /\ Kind(r - 1) = "{" -> depth[r - 1] + 1
          [] r > p /\ Kind(r - 1) = "}" /\ depth[r - 1] > 0 -> depth[r - 1] - 1
          [] OTHER -> depth[r - 1]
  IN depth[q]

(* The next type specifier outside of all braces.                          *)
synchronizeDeclaration(p) ==
  FirstFrom(p, LAMBDA q : \/ Kind(q) = "eof"
                          \/ Kind(q) \in TypeSpecifier /\ BraceDepth(p, q) = 0)

previous(p) == IF p > 1 THEN Kind(p - 1) ELSE Kind(1)

(* As it would be if the token it stops at were skipped as well.           *)
synchronizeStatementBehind(p) ==
  FirstFrom(p, LAMBDA q : Kind(q) = "eof" \/ previous(q) = ";") + 1

(* The next token that may begin a statement, or end a block.              *)
synchronizeStatement(p) ==
  FirstFrom(p, LAMBDA q :
    \/ Kind(q) = "eof"
    \/ previous(q) = ";"
    \/ Kind(q) \in TypeSpecifier \union {"if", "while", "return", "{", "}"})

(* The loops that recover never stay at one token.                         *)
Advanced(before, p) == IF p = before /\ Kind(p) # "eof" THEN p + 1 ELSE p

-----------------------------------------------------------------------------
(* Statements without statements inside.                                   *)

ExprStmt(expr) == [kind |-> "exprstmt", expr |-> expr]
ReturnStmt(value) == [kind |-> "return", value |-> value]
IfStmt(cond, then, else) == [kind |-> "if", cond |-> cond, then |-> then, else |-> else]
WhileStmt(cond, body) == [kind |-> "while", cond |-> cond, body |-> body]
CompoundStmt(locals, stmts) == [kind |-> "compound", decls |-> locals, stmts |-> stmts]

(* An optional expression and a semicolon.                                 *)
OptionalExpression(p) ==
  IF Kind(p) = ";" THEN Parsed(None, p + 1) ELSE expect(";", parseExpression(p))

parseExpressionStmt(p) == Made(OptionalExpression(p), ExprStmt)
parseReturnStmt(p) == Made(OptionalExpression(p + 1), ReturnStmt)

(* `if' or `while' up to the statement it governs.                         *)
ControlHeading(p) ==
  IF Kind(p + 1) = "(" THEN expect(")", parseExpression(p + 2)) ELSE Failed(p + 1, p + 1)

-----------------------------------------------------------------------------
(* Activations: `at' is where to resume, `node' the node under             *)
(* construction, `before' the position of the loop's last turn.            *)

Control == {"program", "block", "statement", "return", "end"}

Activation(at, node, before) == [at |-> at, node |-> node, before |-> before]
Top == stack[Len(stack)]
Below == SubSeq(stack, 1, Len(stack) - 1)
Empty == CompoundStmt(<<>>, <<>>)

Noted(r) == IF r.ok \/ r.error = 0 THEN errors ELSE Append(errors, r.error)
Null == Failed(pos, 0)

(* The current rule gives r to its caller.                                 *)
Return(r) ==
  /\ result' = r
  /\ pos' = r.pos
  /\ errors' = Noted(r)
  /\ doing' = "return"

(* The program goes on behind a declaration, or behind what it skips.      *)
EndDeclaration(r, before) ==
  /\ decls' = IF r.ok THEN Append(decls, r.node) ELSE decls
  /\ pos' = IF r.ok THEN r.pos ELSE Advanced(before, synchronizeDeclaration(r.pos))
  /\ errors' = Noted(r)
  /\ doing' = "program"

GlobalDeclaration ==
  LET r == parseDeclaration(pos)
  IN /\ doing = "program"
     /\ ~atEnd
     /\ ~(r.ok /\ r.node.kind = "function")
     /\ EndDeclaration(r, pos)
     /\ UNCHANGED <<tokens, stack, result>>

BeginFunction ==
  LET r == parseDeclaration(pos)
  IN /\ doing = "program"
     /\ ~atEnd
     /\ r.ok /\ r.node.kind = "function"
     /\ stack' = <<Activation("function", r.node, pos), Activation("decls", Empty, pos)>>
     /\ pos' = r.pos + 1
     /\ doing' = "block"
     /\ UNCHANGED <<tokens, result, errors, decls>>

LocalDeclaration ==
  LET r == parseLocalVarDeclaration(pos)
  IN /\ doing = "block"
     /\ Top.at = "decls"
     /\ peek \in TypeSpecifier
     /\ stack' = IF r.ok
                 THEN Append(Below, [Top EXCEPT !.node.decls = Append(@, r.node)])
                 ELSE stack
     /\ pos' = IF r.ok THEN r.pos ELSE Advanced(pos, synchronizeStatement(r.pos))
     /\ errors' = Noted(r)
     /\ UNCHANGED <<tokens, doing, result, decls>>

PastDeclarations == Top.at = "stmts" \/ peek \notin TypeSpecifier

BeginStatement ==
  /\ doing = "block"
  /\ PastDeclarations
  /\ peek \notin {"}", "eof"}
  /\ stack' = Append(Below, [Top EXCEPT !.at = "stmts", !.before = pos])
  /\ doing' = "statement"
  /\ UNCHANGED <<tokens, pos, result, errors, decls>>

(* As it would be if the end of the file did not end a block.              *)
EndBlockAtBrace ==
  /\ doing = "block"
  /\ PastDeclarations
  /\ peek = "}"
  /\ Return(expectAt("}", pos, Top.node))
  /\ stack' = Below
  /\ UNCHANGED <<tokens, decls>>

EndBlock ==
  /\ doing = "block"
  /\ PastDeclarations
  /\ peek \in {"}", "eof"}
  /\ Return(expectAt("}", pos, Top.node))
  /\ stack' = Below
  /\ UNCHANGED <<tokens, decls>>

SimpleStatement ==
  /\ doing = "statement"
  /\ peek \notin {"{", "if", "while"}
  /\ Return(CASE peek = "return" -> parseReturnStmt(pos)
              [] peek \in {";", "id", "num", "("} -> parseExpressionStmt(pos)
              [] OTHER -> Failed(pos, pos))
  /\ UNCHANGED <<tokens, stack, decls>>

NestedBlock ==
  /\ doing = "statement"
  /\ peek = "{"
  /\ stack' = Append(stack, Activation("decls", Empty, pos))
  /\ pos' = pos + 1
  /\ doing' = "block"
  /\ UNCHANGED <<tokens, result, errors, decls>>

ControlStatement ==
  LET r == ControlHeading(pos)
  IN /\ doing = "statement"
     /\ peek \in {"if", "while"}
     /\ IF r.ok
        THEN /\ stack' = Append(stack,
                  IF peek = "if"
                  THEN Activation("then", IfStmt(r.node, None, None), pos)
                  ELSE Activation("while", WhileStmt(r.node, None), pos))
             /\ pos' = r.pos
             /\ UNCHANGED <<doing, result, errors>>
        ELSE Return(r) /\ UNCHANGED stack
     /\ UNCHANGED <<tokens, decls>>

(* `else' belongs to the nearest `if' that has none.                       *)
ParseElse ==
  /\ doing = "return"
  /\ Top.at = "then"
  /\ result.ok /\ peek = "else"
  /\ stack' = Append(Below, [Top EXCEPT !.at = "else", !.node.then = result.node])
  /\ pos' = pos + 1
  /\ doing' = "statement"
  /\ UNCHANGED <<tokens, result, errors, decls>>

EndControlStatement ==
  /\ doing = "return"
  /\ \/ Top.at \in {"else", "while"}
     \/ Top.at = "then" /\ ~(result.ok /\ peek = "else")
  /\ Return(CASE ~result.ok -> Null
              [] result.ok /\ Top.at = "then" ->
                   Parsed([Top.node EXCEPT !.then = result.node], pos)
              [] result.ok /\ Top.at = "else" ->
                   Parsed([Top.node EXCEPT !.else = result.node], pos)
              [] OTHER -> Parsed([Top.node EXCEPT !.body = result.node], pos))
  /\ stack' = Below
  /\ UNCHANGED <<tokens, decls>>

(* As it would be with recovery from where the statement began.            *)
EndStatementFromStart ==
  /\ doing = "return"
  /\ Top.at = "stmts"
  /\ IF result.ok
     THEN /\ stack' = Append(Below, [Top EXCEPT !.node.stmts = Append(@, result.node)])
          /\ UNCHANGED pos
     ELSE /\ pos' = Advanced(Top.before, synchronizeStatement(Top.before))
          /\ UNCHANGED stack
  /\ doing' = "block"
  /\ UNCHANGED <<tokens, result, errors, decls>>

(* The block that called a failed statement recovers.                      *)
EndStatement ==
  /\ doing = "return"
  /\ Top.at = "stmts"
  /\ IF result.ok
     THEN /\ stack' = Append(Below, [Top EXCEPT !.node.stmts = Append(@, result.node)])
          /\ UNCHANGED pos
     ELSE /\ pos' = Advanced(Top.before, synchronizeStatement(pos))
          /\ UNCHANGED stack
  /\ doing' = "block"
  /\ UNCHANGED <<tokens, result, errors, decls>>

EndFunction ==
  /\ doing = "return"
  /\ Top.at = "function"
  /\ EndDeclaration(IF result.ok
                    THEN Parsed([Top.node EXCEPT !.body = result.node], pos)
                    ELSE Null,
                    Top.before)
  /\ stack' = <<>>
  /\ UNCHANGED <<tokens, result>>

(* A program has at least one declaration.                                 *)
EndProgram ==
  /\ doing = "program"
  /\ atEnd
  /\ doing' = "end"
  /\ errors' = IF pos = 1 THEN Append(errors, pos) ELSE errors
  /\ UNCHANGED <<tokens, pos, stack, result, decls>>

-----------------------------------------------------------------------------
Init ==
  /\ \E input \in Inputs : tokens = Append(input, "eof")
  /\ pos = 1
  /\ doing = "program"
  /\ stack = <<>>
  /\ result = Failed(1, 0)
  /\ errors = <<>>
  /\ decls = <<>>

Next ==
  \/ GlobalDeclaration \/ BeginFunction \/ EndFunction
  \/ LocalDeclaration \/ BeginStatement \/ EndStatement \/ EndBlock
  \/ SimpleStatement \/ NestedBlock
  \/ ControlStatement \/ ParseElse \/ EndControlStatement
  \/ EndProgram

Spec == Init /\ [][Next]_vars

(* Parsing is one thread that nothing can suspend.                         *)
FairSpec == Spec /\ WF_vars(Next)

-----------------------------------------------------------------------------
Done == doing = "end"

(* The position stays within the tokens; a statement is being parsed only  *)
(* inside a function.                                                      *)
TypeOK ==
  /\ pos \in Positions
  /\ doing \in Control
  /\ stack = <<>> <=> doing \in {"program", "end"}
  /\ stack # <<>> => stack[1].at = "function"
  /\ \A k \in 2..Len(stack) : stack[k].at \in {"decls", "stmts", "then", "else", "while"}
  /\ doing = "block" => Top.at \in {"decls", "stmts"}
  /\ \A i \in 1..Len(errors) : errors[i] \in Positions

(* Errors come in the order of the text: recovery never takes the parser   *)
(* back.  A token is complained about at most twice (where a statement     *)
(* stops and again where the next one begins); only the end of the file    *)
(* gets more, one error from each block it leaves open.                    *)
ReportedInOrder ==
  /\ \A i \in 1..Len(errors) - 1 : errors[i] <= errors[i + 1]
  /\ \A i \in 1..Len(errors) - 2 : errors[i] < errors[i + 2] \/ Kind(errors[i + 2]) = "eof"

(* Parsing ends, whatever the tokens.                                      *)
Finishes == <>Done
=============================================================================
