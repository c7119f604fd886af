------------------------------ MODULE MCTypes -------------------------------
(***************************************************************************)
(* Types: short programs over every kind of declaration and expression.    *)
(***************************************************************************)
EXTENDS SemanticAnalyzer
LOCAL INSTANCE FiniteSetsExt

Typed(n, t) == [name |-> n, type |-> t]
Sized(n, t, size) == [name |-> n, type |-> t, size |-> size]
MCVariable ==
  {Sized("a", "int", 0), Sized("a", "array", 1), Sized("a", "array", 2),
   Sized("b", "array", 0), Sized("main", "void", 0)}
MCHeader ==
  {[name |-> "a", type |-> "int", params |-> << Typed("b", "array") >>],
   [name |-> "input", type |-> "int", params |-> <<>>],
   [name |-> "main", type |-> "void", params |-> <<>>],
   [name |-> "main", type |-> "void",
    params |-> << Typed("b", "void"), Typed("b", "int") >>]}

Num(value) == [kind |-> "num", value |-> value]
Var(n) == [kind |-> "var", name |-> n, index |-> None]
Elem(n, i) == [kind |-> "var", name |-> n, index |-> i]
CallOf(f, args) == [kind |-> "call", callee |-> f, args |-> args]
Assign(v, e) == [kind |-> "assign", target |-> v, value |-> e]
Binary(op, l, r) == [kind |-> "binary", op |-> op, lhs |-> l, rhs |-> r]

Zero == Num(0)
One == Num(1)
Output(e) == CallOf("output", <<e>>)
Quotient == Binary("div", Elem("a", One), Zero)
MCExpr ==
  {Zero, One, Var("a"), Var("b"), Var("main"), Elem("a", One), Elem("a", Var("a")),
   Elem("b", One), Elem("b", Var("main")), Quotient,
   Output(One), Output(Var("a")), Output(Quotient),
   CallOf("a", <<Var("b")>>), CallOf("a", <<Var("a")>>), CallOf("output", <<>>),
   CallOf("a", <<One>>),
   Assign(Var("a"), Zero), Assign(Elem("a", One), Var("b")), Assign(Var("b"), Output(One)),
   Binary("other", One, Output(One)), Binary("div", Var("a"), Zero),
   Binary("other", Var("a"), Zero),
   Binary("div", Elem("b", Var("main")), Var("a"))}
MCHeight[e \in MCExpr] == 1 + Max({0} \union {MCHeight[p] : p \in Parts(e)})
=============================================================================
