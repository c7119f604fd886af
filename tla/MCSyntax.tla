------------------------------ MODULE MCSyntax ------------------------------
(***************************************************************************)
(* The small functions the code generators are checked on: every nesting   *)
(* of control statements up to a depth, every kind of expression in every  *)
(* place, and locals declared in every kind of nested block.               *)
(***************************************************************************)
EXTENDS CMinusSyntax, FiniteSets

MCSymbol == {"g", "ga", "p", "x", "y", "la"}
MCGlobals == {"g", "ga"}
MCOperator == {"+", "<"}
MCCallee == {"f", "output"}

\* --- expressions
Num == [kind |-> "num"]
Big == [kind |-> "big"]
Var(x) == [kind |-> "var", symbol |-> x]
Array(a) == [kind |-> "array", symbol |-> a]
Elem(a, i) == [kind |-> "elem", symbol |-> a, index |-> i]
Assign(v, e) == [kind |-> "assign", target |-> v, value |-> e]
Binary(op, l, r) == [kind |-> "binary", op |-> op, lhs |-> l, rhs |-> r]
CallOf(f, args) == [kind |-> "call", callee |-> f, args |-> args]

G == Var("g")
Tick == CallOf("f", <<>>)
GaOfG == Elem("ga", G)

(* The expressions put in every place, over a global, a parameter, a local *)
(* and arrays of each.                                                     *)
Exprs ==
  { Num, G, Var("x"), GaOfG, Elem("ga", Num), Elem("ga", Assign(G, Big)), Elem("la", GaOfG), Tick,
    Assign(G, Num), Assign(GaOfG, Tick), Assign(Elem("la", Tick), GaOfG),
    Assign(Var("x"), Assign(Var("p"), G)),
    Binary("+", G, GaOfG), Binary("<", Elem("la", Assign(G, Num)), Num),
    CallOf("output", <<GaOfG, Array("la"), Var("p")>>), CallOf("f", <<Array("ga")>>) }

ExprParts ==
  { Big, Assign(G, Big), Var("p"), Array("la"), Array("ga"), Elem("la", Tick), Elem("la", Assign(G, Num)),
    Assign(Var("p"), G), Var("y") }

MCExpr == Exprs \union ExprParts

\* --- statements
Compound(decls, stmts) == [kind |-> "compound", decls |-> decls, stmts |-> stmts]
ExprStmt(e) == [kind |-> "exprstmt", expr |-> e]
If(c, t, e) == [kind |-> "if", cond |-> c, then |-> t, else |-> e]
While(c, b) == [kind |-> "while", cond |-> c, body |-> b]
ReturnOf(v) == [kind |-> "return", value |-> v]

SeqUpTo(S, n) == UNION {[1..k -> S] : k \in 0..n}

(* One level of control statements around the statements of S.             *)
Around(S, T) ==
  {If(G, t, e) : t \in S, e \in T \union {None}}
    \union {While(G, b) : b \in S}
    \union {Compound({}, ss) : ss \in SeqUpTo(S, 2)}

ReturnFor(kind) == ReturnOf(IF kind = "int" THEN G ELSE None)
Flat(kind) == {ExprStmt(Tick), ReturnFor(kind)}
Nested(kind) == Flat(kind) \union Around(Flat(kind), Flat(kind))
Deep(kind) == Around(Nested(kind), Nested(kind))

(* Control flow: any nesting, followed by one more statement.              *)
ControlBodies(kind) ==
  {Compound({}, <<s>>) : s \in Deep(kind)}
    \union {Compound({}, <<s, ExprStmt(Tick)>>) : s \in Nested(kind)}

(* Expressions: each as a statement, a condition and a returned value.     *)
Locals == {"x", "la"}
ExprBodies(e) ==
  {Compound(Locals, <<ExprStmt(e), ReturnOf(e)>>),
   Compound(Locals, <<If(e, ReturnOf(G), None), ReturnOf(Num)>>),
   Compound(Locals, <<While(e, ExprStmt(G)), ReturnOf(Num)>>)}

(* Locals: declared in the arms of an if, in a loop and behind a return,   *)
(* each used where it is declared.                                         *)
UseX == Compound({"x"}, <<ExprStmt(Assign(G, Num)), ExprStmt(Var("x"))>>)
UseY == Compound({"y"}, <<ExprStmt(Var("y"))>>)
LocalBodies ==
  {Compound({}, <<s, ReturnOf(Num)>>) :
     s \in {If(G, UseX, UseY), If(G, UseX, None), While(G, UseX),
            While(G, If(G, ExprStmt(None), UseY)),
            Compound({}, <<UseX, UseY>>), Compound({"x"}, <<UseY, ExprStmt(Var("x"))>>),
            If(G, While(G, UseY), Compound({}, <<ReturnOf(G), UseX>>))}}

(* Nested control with an index check in every condition and in the        *)
(* innermost statements.                                                   *)
CheckedLeaves == {ExprStmt(GaOfG), ReturnOf(G)}
CheckedBodies ==
  {Compound({}, <<s, ExprStmt(Tick)>>) :
     s \in UNION {{If(GaOfG, While(GaOfG, a), b), If(GaOfG, a, While(GaOfG, b)),
                   While(GaOfG, If(GaOfG, a, b)), If(GaOfG, If(GaOfG, a, b), b)} :
                    <<a, b>> \in CheckedLeaves \X CheckedLeaves}}

Bodies(kind) ==
  ControlBodies(kind)
    \union IF kind = "int" THEN CheckedBodies \union LocalBodies \union UNION {ExprBodies(e) : e \in Exprs} ELSE {}

FunctionOf(kind, body) ==
  [kind |-> kind, params |-> IF kind = "int" THEN {"p"} ELSE {}, body |-> body]

MCFunction == UNION {{FunctionOf(k, b) : b \in Bodies(k)} : k \in {"int", "void", "main"}}

(* Every statement of those functions, level by level.                     *)
Children(s) ==
  CASE s.kind = "compound" -> {s.stmts[i] : i \in DOMAIN s.stmts}
    [] s.kind = "if" -> {s.then} \union ({s.else} \ {None})
    [] s.kind = "while" -> {s.body}
    [] OTHER -> {}
Below1 == {f.body : f \in MCFunction}
Below2 == UNION {Children(s) : s \in Below1}
Below3 == UNION {Children(s) : s \in Below2}
Below4 == UNION {Children(s) : s \in Below3}
Below5 == UNION {Children(s) : s \in Below4}
MCStmt == Below1 \union Below2 \union Below3 \union Below4 \union Below5
=============================================================================
