------------------------------ MODULE MCScopes ------------------------------
(***************************************************************************)
(* Scoping: long programs over two names, the second one that of a         *)
(* predefined function, with functions whose parameters take the same      *)
(* names.                                                                  *)
(***************************************************************************)
EXTENDS SemanticAnalyzer
LOCAL INSTANCE FiniteSetsExt

MCVariable ==
  {[name |-> "a", type |-> "int", size |-> 0],
   [name |-> "output", type |-> "array", size |-> 1],
   [name |-> "output", type |-> "array", size |-> 2]}
MCHeader ==
  {[name |-> "a", type |-> "void", params |-> << [name |-> "a", type |-> "int"] >>],
   [name |-> "main", type |-> "void", params |-> <<>>]}

One == [kind |-> "num", value |-> 1]
MCExpr ==
  {One,
   [kind |-> "var", name |-> "a", index |-> None],
   [kind |-> "var", name |-> "output", index |-> One],
   [kind |-> "call", callee |-> "output", args |-> <<>>]}
MCHeight[e \in MCExpr] == 1 + Max({0} \union {MCHeight[p] : p \in Parts(e)})
=============================================================================
