----------------------------- MODULE ASTPrinter -----------------------------
(***************************************************************************)
(* --dump-ast (src/AST.cpp): the tree printed one node a line, indented by *)
(* depth.  A line is its depth and what it says; names, numbers and places *)
(* are left out, as they are in the trees of Parser.                       *)
(*                                                                         *)
(* The second half reads a dump back, from the lines alone.                *)
(***************************************************************************)
EXTENDS Parser
LOCAL Sequence == INSTANCE SequencesExt

Line(depth, says) == << [depth |-> depth, says |-> says] >>

(* A label, and what it stands above one deeper.                           *)
label(depth, text, below) == Line(depth, <<text>>) \o below

RECURSIVE expr(_, _)
expr(e, depth) ==
  CASE e.kind = "num" -> Line(depth, <<"NumExpr">>)
    [] e.kind = "var" ->
         Line(depth, <<"VarExpr">>)
           \o (IF e.index = None THEN <<>> ELSE label(depth + 1, "index", expr(e.index, depth + 2)))
    [] e.kind = "call" ->
         Line(depth, <<"CallExpr">>)
           \o (IF e.args = <<>> THEN Line(depth + 1, <<"(no arguments)">>)
               ELSE Sequence!FlattenSeq([i \in DOMAIN e.args |-> expr(e.args[i], depth + 1)]))
    [] e.kind = "assign" ->
         Line(depth, <<"AssignExpr">>) \o expr(e.target, depth + 1) \o expr(e.value, depth + 1)
    [] e.kind = "binary" ->
         Line(depth, <<"BinaryExpr", e.op>>) \o expr(e.lhs, depth + 1) \o expr(e.rhs, depth + 1)

varDecl(v, depth) ==
  Line(depth, IF v.isArray THEN <<"VarDecl", v.type, "[]">> ELSE <<"VarDecl", v.type>>)

(* As it would be with an else below the arm it belongs to.                *)
elseArmInside(depth, lines) == label(depth + 1, "else", lines)

(* The arm of an else stands beside the arm of its if.                     *)
elseArm(depth, lines) == label(depth, "else", lines)

RECURSIVE stmt(_, _)
stmt(s, depth) ==
  CASE s.kind = "compound" ->
         Line(depth, <<"CompoundStmt">>)
           \o Sequence!FlattenSeq([i \in DOMAIN s.decls |-> varDecl(s.decls[i], depth + 1)])
           \o Sequence!FlattenSeq([i \in DOMAIN s.stmts |-> stmt(s.stmts[i], depth + 1)])
           \o (IF s.decls = <<>> /\ s.stmts = <<>> THEN Line(depth + 1, <<"(empty)">>) ELSE <<>>)
    [] s.kind = "exprstmt" ->
         IF s.expr = None THEN Line(depth, <<"ExprStmt", "(empty)">>)
         ELSE Line(depth, <<"ExprStmt">>) \o expr(s.expr, depth + 1)
    [] s.kind = "if" ->
         Line(depth, <<"IfStmt">>)
           \o label(depth + 1, "cond", expr(s.cond, depth + 2))
           \o label(depth + 1, "then", stmt(s.then, depth + 2))
           \o (IF s.else = None THEN <<>> ELSE elseArm(depth + 1, stmt(s.else, depth + 2)))
    [] s.kind = "while" ->
         Line(depth, <<"WhileStmt">>)
           \o label(depth + 1, "cond", expr(s.cond, depth + 2))
           \o label(depth + 1, "body", stmt(s.body, depth + 2))
    [] s.kind = "return" ->
         IF s.value = None THEN Line(depth, <<"ReturnStmt", "(no value)">>)
         ELSE Line(depth, <<"ReturnStmt">>) \o expr(s.value, depth + 1)

paramDecl(p, depth) ==
  Line(depth, IF p.isArray THEN <<"ParamDecl", p.type, "[]">> ELSE <<"ParamDecl", p.type>>)

decl(d, depth) ==
  IF d.kind = "vardecl" THEN varDecl(d, depth)
  ELSE Line(depth, <<"FunDecl", d.type>>)
         \o (IF d.params = <<>> THEN Line(depth + 1, <<"(no parameters)">>)
             ELSE Sequence!FlattenSeq(
                    [i \in DOMAIN d.params |-> paramDecl(d.params[i], depth + 1)]))
         \o label(depth + 1, "body", stmt(d.body, depth + 2))

printAST(program) ==
  Line(0, <<"Program">>) \o Sequence!FlattenSeq([i \in DOMAIN program |-> decl(program[i], 1)])

-----------------------------------------------------------------------------
(* Reading.  The children of a line are the lines below it that are one    *)
(* deeper, each with what is below it.                                     *)

Children(lines) ==
  LET starts == SelectSeq([i \in 1..Len(lines) |-> i],
                          LAMBDA i : lines[i].depth = lines[1].depth + 1)
      end(k) == IF k = Len(starts) THEN Len(lines) ELSE starts[k + 1] - 1
  IN [k \in DOMAIN starts |-> SubSeq(lines, starts[k], end(k))]

Says(lines) == lines[1].says[1]
Marked(lines) == Len(lines[1].says) > 1

(* What stands under a label, if the label is there.                       *)
Under(lines, text) ==
  LET labelled == SelectSeq(Children(lines), LAMBDA c : Says(c) = text)
  IN IF labelled = <<>> THEN None ELSE Children(labelled[1])[1]

RECURSIVE ReadExpr(_)
ReadExpr(lines) ==
  LET children == Children(lines)
      read(i) == ReadExpr(children[i])
  IN CASE Says(lines) = "NumExpr" -> Num
       [] Says(lines) = "VarExpr" ->
            Var(IF Under(lines, "index") = None THEN None ELSE ReadExpr(Under(lines, "index")))
       [] Says(lines) = "CallExpr" ->
            Call(IF Says(children[1]) = "(no arguments)" THEN <<>>
                 ELSE [i \in DOMAIN children |-> read(i)])
       [] Says(lines) = "AssignExpr" -> Assign(read(1), read(2))
       [] Says(lines) = "BinaryExpr" -> Binary(lines[1].says[2], read(1), read(2))

ReadDecl(lines) == VarDecl(lines[1].says[2], Len(lines[1].says) = 3)

RECURSIVE ReadStmt(_)
ReadStmt(lines) ==
  LET children == Children(lines)
      locals == SelectSeq(children, LAMBDA c : Says(c) = "VarDecl")
      stmts == SelectSeq(children, LAMBDA c : Says(c) \notin {"VarDecl", "(empty)"})
  IN CASE Says(lines) = "CompoundStmt" ->
            CompoundStmt([i \in DOMAIN locals |-> ReadDecl(locals[i])],
                         [i \in DOMAIN stmts |-> ReadStmt(stmts[i])])
       [] Says(lines) = "ExprStmt" ->
            ExprStmt(IF Marked(lines) THEN None ELSE ReadExpr(children[1]))
       [] Says(lines) = "IfStmt" ->
            IfStmt(ReadExpr(Under(lines, "cond")), ReadStmt(Under(lines, "then")),
                   IF Under(lines, "else") = None THEN None ELSE ReadStmt(Under(lines, "else")))
       [] Says(lines) = "WhileStmt" ->
            WhileStmt(ReadExpr(Under(lines, "cond")), ReadStmt(Under(lines, "body")))
       [] Says(lines) = "ReturnStmt" ->
            ReturnStmt(IF Marked(lines) THEN None ELSE ReadExpr(children[1]))

ReadProgram(lines) ==
  LET read(d) ==
        IF Says(d) = "VarDecl" THEN ReadDecl(d)
        ELSE LET params == SelectSeq(Children(d), LAMBDA c : Says(c) = "ParamDecl")
             IN FunDecl(d[1].says[2],
                        [i \in DOMAIN params |->
                           Param(params[i][1].says[2], Len(params[i][1].says) = 3)],
                        ReadStmt(Under(d, "body")))
  IN [i \in DOMAIN Children(lines) |-> read(Children(lines)[i])]

(* A tree without the marks of its parentheses, which no line shows.       *)
RECURSIVE PlainExpr(_)
PlainExpr(e) ==
  CASE e = None \/ e.kind = "num" -> IF e = None THEN None ELSE Num
    [] e # None /\ e.kind = "var" -> Var(PlainExpr(e.index))
    [] e # None /\ e.kind = "call" -> Call([i \in DOMAIN e.args |-> PlainExpr(e.args[i])])
    [] e # None /\ e.kind = "assign" -> Assign(PlainExpr(e.target), PlainExpr(e.value))
    [] e # None /\ e.kind = "binary" -> Binary(e.op, PlainExpr(e.lhs), PlainExpr(e.rhs))

RECURSIVE PlainStmt(_)
PlainStmt(s) ==
  CASE s = None -> None
    [] s # None /\ s.kind = "compound" ->
         CompoundStmt(s.decls, [i \in DOMAIN s.stmts |-> PlainStmt(s.stmts[i])])
    [] s # None /\ s.kind = "exprstmt" -> ExprStmt(PlainExpr(s.expr))
    [] s # None /\ s.kind = "if" ->
         IfStmt(PlainExpr(s.cond), PlainStmt(s.then), PlainStmt(s.else))
    [] s # None /\ s.kind = "while" -> WhileStmt(PlainExpr(s.cond), PlainStmt(s.body))
    [] s # None /\ s.kind = "return" -> ReturnStmt(PlainExpr(s.value))

PlainProgram(program) ==
  [i \in DOMAIN program |->
     IF program[i].kind = "vardecl" THEN program[i]
     ELSE [program[i] EXCEPT !.body = PlainStmt(@)]]

(* Nothing of a program is lost in its dump: what belongs to what can be   *)
(* read from the lines and their depths, the arms of nested ifs, empty     *)
(* blocks and statements, and absent values included (Printer).            *)
DumpReadable ==
  Done /\ errors = <<>> => ReadProgram(printAST(decls)) = PlainProgram(decls)
=============================================================================
