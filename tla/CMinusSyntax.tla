---------------------------- MODULE CMinusSyntax ----------------------------
(***************************************************************************)
(* The annotated syntax tree that semantic analysis hands to the code      *)
(* generators (include/cminus/AST.h).  A node is a record whose `kind'     *)
(* names its class; its other fields are the members the generators read.  *)
(* Identifiers are resolved: a variable is its symbol.  Types, locations   *)
(* and the values of literals are left out, because no decision of the     *)
(* generators modelled here depends on them.                               *)
(*                                                                         *)
(* The sets Expr and Stmt are constants, closed under taking children.     *)
(***************************************************************************)
EXTENDS Naturals, Sequences

CONSTANTS
  Expr,     \* the expressions of the programs considered
  Stmt,     \* the statements of the programs considered
  Function, \* the functions considered (FunDecl)
  Symbol,   \* variables, parameters and arrays, one symbol per declaration
  Globals,  \* the symbols of global variables
  Operator, \* the binary operators
  Callee,   \* the functions that are called
  None      \* the null child: no else, no value, no expression

(* The value of a literal, and of an assignment of one, is known when code *)
(* is generated.  A literal is a `num', or a `big' when the 32 bits it is  *)
(* cut to make a negative number.                                          *)
Known[e \in Expr] ==
  e.kind \in {"num", "big"} \/ (e.kind = "assign" /\ Known[e.value])
NeverNegative[e \in Expr] ==
  e.kind = "num" \/ (e.kind = "assign" /\ NeverNegative[e.value])

(* NumExpr, VarExpr (scalar, element, whole array), AssignExpr, BinaryExpr *)
(* and CallExpr.  A VarExpr is split in three by what it denotes.  An      *)
(* operation on two known values, which an IRBuilder folds, is left out.   *)
ExprShape(e) ==
  \/ e.kind \in {"num", "big"}
  \/ e.kind = "var"    /\ e.symbol \in Symbol
  \/ e.kind = "array"  /\ e.symbol \in Symbol
  \/ e.kind = "elem"   /\ e.symbol \in Symbol /\ e.index \in Expr
  \/ /\ e.kind = "assign"
     /\ e.target \in Expr /\ e.target.kind \in {"var", "elem"}
     /\ e.value \in Expr
  \/ /\ e.kind = "binary"
     /\ e.lhs \in Expr /\ e.rhs \in Expr
     /\ e.op \in Operator
     /\ ~(Known[e.lhs] /\ Known[e.rhs])
  \/ e.kind = "call"   /\ e.callee \in Callee /\ e.args \in Seq(Expr)

(* CompoundStmt, ExprStmt, IfStmt, WhileStmt and ReturnStmt.               *)
StmtShape(s) ==
  \/ /\ s.kind = "compound"
     /\ s.decls \subseteq Symbol
     /\ s.stmts \in Seq(Stmt)
  \/ s.kind = "exprstmt" /\ s.expr \in Expr \union {None}
  \/ /\ s.kind = "if"
     /\ s.cond \in Expr
     /\ s.then \in Stmt
     /\ s.else \in Stmt \union {None}
  \/ s.kind = "while"  /\ s.cond \in Expr /\ s.body \in Stmt
  \/ s.kind = "return" /\ s.value \in Expr \union {None}

(* FunDecl: its parameters, its body and what it returns.  Semantic        *)
(* analysis makes main a void function; what is generated for it returns   *)
(* the exit status all the same.                                           *)
FunctionShape(f) ==
  /\ f.kind \in {"int", "void", "main"}
  /\ f.params \subseteq Symbol
  /\ f.body \in Stmt
  /\ f.body.kind = "compound"

ASSUME SyntaxAssumption ==
  /\ \A e \in Expr : ExprShape(e)
  /\ \A s \in Stmt : StmtShape(s)
  /\ \A f \in Function : FunctionShape(f)
  /\ Globals \subseteq Symbol
  /\ None \notin Expr \union Stmt
=============================================================================
