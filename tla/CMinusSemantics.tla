--------------------------- MODULE CMinusSemantics ---------------------------
(***************************************************************************)
(* What a C- function does when it is called: the meaning of its syntax    *)
(* tree, one observable step at a time, independent of any generated code. *)
(*                                                                         *)
(* `rest' is what remains to be done, a sequence of nodes and of steps     *)
(* whose first element is always a step (or the sequence is empty).  The   *)
(* values of variables are abstracted: an index may be negative or not,    *)
(* and a condition may be true or false, each time it is evaluated.        *)
(*                                                                         *)
(* Operands, arguments and the index of an element are evaluated left to   *)
(* right; the index on the left of an assignment is evaluated and checked  *)
(* before its value.  With `checked' a negative index stops the program; a *)
(* constant that is not negative needs no test.                            *)
(***************************************************************************)
EXTENDS CMinusSyntax

VARIABLES
  fn,      \* the function called
  checked, \* are indices checked?
  rest,    \* what remains to be done
  event,   \* the last step taken
  outcome  \* "running", or how the call ended

Step(what, on) == [kind |-> "step", what |-> what, on |-> on]

(* Work is either a step or a node that unfolds to more work.              *)
Test(index) ==
  IF checked /\ ~NeverNegative[index] THEN <<index, Step("index", "")>> ELSE <<index>>

Place(var) == IF var.kind = "elem" THEN Test(var.index) ELSE <<>>

UnfoldExpr(e) ==
  CASE e.kind \in {"num", "big"} -> <<>>
    [] e.kind \in {"var", "elem"} -> Place(e) \o <<Step("load", e.symbol)>>
    [] e.kind = "array" -> <<Step("base", e.symbol)>>
    [] e.kind = "assign" -> Place(e.target) \o <<e.value, Step("store", e.target.symbol)>>
    [] e.kind = "binary" -> <<e.lhs, e.rhs, Step("binary", e.op)>>
    [] e.kind = "call" -> Append(e.args, Step("call", e.callee))

Result(s) ==
  IF s.value # None THEN "value" ELSE IF fn.kind = "main" THEN "zero" ELSE "void"
Optional(node) == IF node = None THEN <<>> ELSE <<node>>

UnfoldStmt(s) ==
  CASE s.kind = "compound" -> s.stmts
    [] s.kind = "exprstmt" -> Optional(s.expr)
    [] s.kind \in {"if", "while"} -> <<s.cond, Step("cond", s)>>
    [] s.kind = "return" -> Optional(s.value) \o <<Step("return", Result(s))>>

RECURSIVE Settle(_)
Settle(work) ==
  IF work = <<>> \/ work[1].kind = "step" THEN work
  ELSE Settle((IF work[1].kind \in {"num", "big", "var", "elem", "array", "assign", "binary", "call"}
               THEN UnfoldExpr(work[1]) ELSE UnfoldStmt(work[1])) \o Tail(work))

Chosen(s, truth) ==
  CASE s.kind = "while" -> IF truth THEN <<s.body, s>> ELSE <<>>
    [] s.kind = "if"    -> IF truth THEN <<s.then>> ELSE Optional(s.else)

-----------------------------------------------------------------------------
(* What can happen next: the step at hand, with both answers when it asks  *)
(* something.  A body that has nothing left to do returns: only a void     *)
(* function may end so, and the language leaves open what an int function  *)
(* then yields.                                                            *)
Offers ==
  IF outcome # "running" THEN {}
  ELSE IF rest = <<>> THEN {<<"return", IF fn.kind = "void" THEN "void" ELSE "zero">>}
  ELSE CASE rest[1].what = "index" -> {<<"index", "ok">>, <<"index", "negative">>}
         [] rest[1].what = "cond"  -> {<<"cond", "true">>, <<"cond", "false">>}
         [] OTHER                  -> {<<rest[1].what, rest[1].on>>}

Ends(ev) == ev[1] = "return" \/ ev = <<"index", "negative">>

After(ev) ==
  CASE Ends(ev) -> <<>>
    [] ev[1] = "cond" -> Settle(Chosen(rest[1].on, ev[2] = "true") \o Tail(rest))
    [] OTHER -> Settle(Tail(rest))

OutcomeAfter(ev) ==
  IF ~Ends(ev) THEN "running"
  ELSE IF ev[1] = "index" THEN "stopped"
  ELSE IF rest = <<>> THEN "fell off"
  ELSE "returned"

Init ==
  /\ rest = Settle(<<fn.body>>)
  /\ event = <<"enter", "">>
  /\ outcome = "running"

Next ==
  \E ev \in Offers :
    /\ event' = ev
    /\ rest' = After(ev)
    /\ outcome' = OutcomeAfter(ev)
    /\ UNCHANGED <<fn, checked>>

Spec == Init /\ [][Next]_<<fn, checked, rest, event, outcome>>
=============================================================================
