----------------------------- MODULE IRGenProofs -----------------------------
(***************************************************************************)
(* What holds of IRGen whatever the function, in three parts: its types,   *)
(* the control flow it generates, and the warning of semantic analysis     *)
(* that foresees a part of this control flow.                              *)
(***************************************************************************)
EXTENDS IRGen, FiniteSetTheorems, StackLemmas

(***************************************************************************)
(* Type correctness of IRGen, whatever the function: every activation      *)
(* works on a node of its kind and every branch leads to a block there is. *)
(***************************************************************************)

(* The inductive invariant behind TypeOK: each activation has a node of    *)
(* the kind it works on and blocks that exist, and the builder is in a     *)
(* block as soon as emitFunction has begun.                                *)

StatementOf(label) ==
  CASE label \in {"if", "if.cond", "if.then", "if.last"} -> "if"
    [] label \in {"while", "while.cond", "while.body"} -> "while"
    [] label \in {"return", "return.value"} -> "return"
    [] OTHER -> label

NodeOK(a) ==
  /\ a.at # "function"
  /\ a.at = "expr" => a.node \in Expr
  /\ a.at \notin {"expr", "function.end"} =>
       a.node \in Stmt /\ a.node.kind = StatementOf(a.at)
  /\ a.at = "if.then" => a.node.else # None

(* n is the number of blocks there are.                                    *)
BlocksOK(a, n) ==
  /\ a.at \in {"if.then", "if.last", "while.cond", "while.body"} => a.end \in 1..n
  /\ a.at \in {"if.then", "while.cond", "while.body"} => a.other \in 1..n
  /\ a.at = "while.cond" => a.body \in 1..n

FrameOK(a, n) == a \in Frame /\ NodeOK(a) /\ BlocksOK(a, n)

StackOK(s, n) == s \in Seq(Frame) /\ \A k \in 1..Len(s) : FrameOK(s[k], n)

Fresh ==
  /\ stack = <<Activation("function", function)>>
  /\ code = <<>>
  /\ attached = {}
  /\ cursor = 0
  /\ implicit = 0

Working ==
  /\ StackOK(stack, Len(code))
  /\ code \in Seq(Seq(Instructions))
  /\ attached \subseteq Blocks
  /\ cursor \in Blocks
  /\ implicit \in Blocks \union {0}

TypeInv == function \in Function /\ (Fresh \/ Working)

-----------------------------------------------------------------------------
(* What emitExpr does for an expression: recursive calls on its operands,  *)
(* checks, and instructions none of which ends a block.                    *)

Plain == {i \in Instructions : ~IsTerminator(i) /\ i.to = <<>>}

PartSet ==
  {Sub(e) : e \in Expr} \union {Check(e) : e \in Expr} \union {Do(i) : i \in Plain}

LEMMA PlainInstructions ==
  ASSUME NEW op \in {"alloca", "load", "store", "binary", "call", "base", "indexError"},
         NEW arg \in Symbol \union Operator \union Callee \union {""}
  PROVE  Instruction(op, arg) \in Plain
<1>1. <<>> \in Seq(Nat)
  BY EmptySeq
<1>2. arg \in Symbol \union Operator \union Callee
                \union {"", "cond", "index", "void", "value", "zero"}
  OBVIOUS
<1>3. Instruction(op, arg) \in Instructions
  BY <1>1, <1>2, Zenon DEF Instruction, Instructions
<1>4. ~IsTerminator(Instruction(op, arg)) /\ Instruction(op, arg).to = <<>>
  BY DEF Instruction, IsTerminator
<1> QED
  BY <1>3, <1>4 DEF Plain

LEMMA ElementAddressParts ==
  ASSUME NEW v \in Expr, v.kind \in {"var", "elem"}
  PROVE  elementAddress(v) \in Seq(PartSet)
<1>1. CASE v.kind = "elem" /\ HasAddress(v.symbol)
  <2>1. v.index \in Expr
    BY <1>1, SyntaxAssumption DEF ExprShape
  <2>2. Sub(v.index) \in PartSet /\ Check(v.index) \in PartSet
    BY <2>1 DEF PartSet
  <2> HIDE DEF PartSet
  <2>3. elementAddress(v) = <<Sub(v.index), Check(v.index)>>
    BY <1>1 DEF elementAddress
  <2> QED
    BY <2>2, <2>3
<1>2. CASE ~(v.kind = "elem" /\ HasAddress(v.symbol))
  BY <1>2 DEF elementAddress
<1> QED
  BY <1>1, <1>2


LEMMA EmptyParts == <<>> \in Seq(PartSet)
  BY EmptySeq

LEMMA OnePart ==
  ASSUME NEW p \in PartSet
  PROVE  <<p>> \in Seq(PartSet)
<1> HIDE DEF PartSet
<1> QED
  OBVIOUS

LEMMA SubParts ==
  ASSUME NEW e \in Expr
  PROVE  Sub(e) \in PartSet /\ Check(e) \in PartSet
  BY DEF PartSet

LEMMA DoParts ==
  ASSUME NEW op \in {"load", "store", "binary", "call", "base"},
         NEW arg \in Symbol \union Operator \union Callee
  PROVE  <<Do(Instruction(op, arg))>> \in Seq(PartSet)
<1>1. Instruction(op, arg) \in Plain
  BY PlainInstructions
<1>2. Do(Instruction(op, arg)) \in PartSet
  BY <1>1 DEF PartSet
<1> QED
  BY <1>2, OnePart

LEMMA JoinParts ==
  ASSUME NEW p \in Seq(PartSet), NEW q \in Seq(PartSet)
  PROVE  p \o q \in Seq(PartSet)
  BY JoinFacts, Zenon

(* Whatever the expression, its parts are of these three kinds.            *)
LEMMA PartsType ==
  ASSUME NEW e \in Expr
  PROVE  Parts(e) \in Seq(PartSet)
<1>0. ExprShape(e)
  BY SyntaxAssumption
<1>1. CASE e.kind \in {"num", "big"}
  BY <1>1, EmptyParts DEF Parts
<1>2. CASE e.kind \in {"var", "elem"}
  <2>1. elementAddress(e) \in Seq(PartSet)
    BY <1>2, ElementAddressParts
  <2>2. e.symbol \in Symbol
    BY <1>0, <1>2 DEF ExprShape
  <2>3. <<Do(Instruction("load", e.symbol))>> \in Seq(PartSet)
    BY <2>2, DoParts
  <2>4. emitVar(e) \in Seq(PartSet)
    BY <2>1, <2>3, EmptyParts, JoinParts, Zenon DEF emitVar
  <2>5. Parts(e) = emitVar(e)
    BY <1>2 DEF Parts
  <2> QED
    BY <2>4, <2>5
<1>3. CASE e.kind = "array"
  <2>1. e.symbol \in Symbol
    BY <1>0, <1>3 DEF ExprShape
  <2>2. <<Do(Instruction("base", e.symbol))>> \in Seq(PartSet)
    BY <2>1, DoParts
  <2>3. Parts(e) = arrayBase(e)
    BY <1>3 DEF Parts
  <2> QED
    BY <2>2, <2>3, EmptyParts, Zenon DEF arrayBase
<1>4. CASE e.kind = "assign"
  <2>1. e.target \in Expr /\ e.target.kind \in {"var", "elem"} /\ e.value \in Expr
    BY <1>0, <1>4 DEF ExprShape
  <2>2. e.target.symbol \in Symbol
    BY <2>1, SyntaxAssumption DEF ExprShape
  <2>3. <<Do(Instruction("store", e.target.symbol))>> \in Seq(PartSet)
    BY <2>2, DoParts
  <2>4. elementAddress(e.target) \in Seq(PartSet)
    BY <2>1, ElementAddressParts
  <2>5. <<Sub(e.value)>> \in Seq(PartSet)
    BY <2>1, SubParts, OnePart
  <2>6. emitAssign(e) \in Seq(PartSet)
    BY <2>3, <2>4, <2>5, EmptyParts, JoinParts, Zenon DEF emitAssign
  <2>7. Parts(e) = emitAssign(e)
    BY <1>4 DEF Parts
  <2> QED
    BY <2>6, <2>7
<1>5. CASE e.kind = "binary"
  <2>1. e.lhs \in Expr /\ e.rhs \in Expr /\ e.op \in Operator
    BY <1>0, <1>5 DEF ExprShape
  <2>2. /\ Sub(e.lhs) \in PartSet /\ Sub(e.rhs) \in PartSet
        /\ Do(Instruction("binary", e.op)) \in PartSet
    BY <2>1, SubParts, PlainInstructions DEF PartSet
  <2>3. Parts(e) = <<Sub(e.lhs), Sub(e.rhs), Do(Instruction("binary", e.op))>>
    BY <1>5 DEF Parts, emitBinary
  <2> HIDE DEF PartSet
  <2> QED
    BY <2>2, <2>3
<1>6. CASE e.kind = "call"
  <2>1. e.args \in Seq(Expr) /\ e.callee \in Callee
    BY <1>0, <1>6 DEF ExprShape
  <2> DEFINE subs == [i \in 1..Len(e.args) |-> Sub(e.args[i])]
  <2>2. \A i \in 1..Len(e.args) : Sub(e.args[i]) \in PartSet
    BY <2>1, ElementOfSeq, SubParts
  <2>3. subs \in Seq(PartSet)
    <3>1. Len(e.args) \in Nat
      BY <2>1, LenProperties
    <3> HIDE DEF PartSet
    <3> QED
      BY <2>2, <3>1, IsASeq
  <2>4. <<Do(Instruction("call", e.callee))>> \in Seq(PartSet)
    BY <2>1, DoParts
  <2>5. Parts(e) = subs \o <<Do(Instruction("call", e.callee))>>
    BY <1>6 DEF Parts, emitCall
  <2> HIDE DEF subs
  <2> QED
    BY <2>3, <2>4, <2>5, JoinParts, Zenon
<1> QED
  BY <1>0, <1>1, <1>2, <1>3, <1>4, <1>5, <1>6 DEF ExprShape

-----------------------------------------------------------------------------
(* Facts about activations.                                                *)

LEMMA MoreBlocks ==
  ASSUME NEW a, NEW m \in Nat, NEW n \in Nat, m <= n, FrameOK(a, m)
  PROVE  FrameOK(a, n)
<1>1. 1..m \subseteq 1..n
  OBVIOUS
<1> QED
  BY <1>1, Zenon DEF FrameOK, BlocksOK

LEMMA TopFacts ==
  ASSUME Working, stack # <<>>
  PROVE  FrameOK(Top, Len(code)) /\ Top \in Frame
<1>1. stack \in Seq(Frame) /\ \A k \in 1..Len(stack) : FrameOK(stack[k], Len(code))
  BY DEF Working, StackOK
<1>2. Len(stack) \in 1..Len(stack)
  BY <1>1, EmptySeq
<1> QED
  BY <1>1, <1>2, Zenon DEF Top, FrameOK

LEMMA ReturnOK ==
  ASSUME NEW s, s # <<>>, NEW m \in Nat, NEW n \in Nat, m <= n, StackOK(s, m)
  PROVE  StackOK(SubSeq(s, 1, Len(s) - 1), n)
<1> DEFINE t == SubSeq(s, 1, Len(s) - 1)
<1>1. s \in Seq(Frame) /\ \A k \in 1..Len(s) : FrameOK(s[k], n)
  BY MoreBlocks DEF StackOK
<1>2. /\ t \in Seq(Frame)
      /\ Len(t) = Len(s) - 1
      /\ \A k \in 1..(Len(s) - 1) : t[k] = s[k]
      /\ Len(s) \in Nat \ {0}
  BY <1>1, PopFacts, Zenon
<1>3. 1..(Len(s) - 1) \subseteq 1..Len(s)
  BY <1>2
<1> HIDE DEF t
<1>4. \A k \in 1..Len(t) : FrameOK(t[k], n)
  BY <1>1, <1>2, <1>3, Zenon
<1> QED
  BY <1>2, <1>4, Zenon DEF t, StackOK

LEMMA ResumeOK ==
  ASSUME NEW s, s # <<>>, NEW m \in Nat, NEW n \in Nat, m <= n, StackOK(s, m),
         NEW a, FrameOK(a, n)
  PROVE  StackOK(Append(SubSeq(s, 1, Len(s) - 1), a), n)
<1> DEFINE t == Append(SubSeq(s, 1, Len(s) - 1), a)
<1>1. s \in Seq(Frame) /\ \A k \in 1..Len(s) : FrameOK(s[k], n)
  BY MoreBlocks DEF StackOK
<1>2. a \in Frame
  BY DEF FrameOK
<1>3. /\ t \in Seq(Frame)
      /\ Len(t) = Len(s)
      /\ \A k \in 1..(Len(s) - 1) : t[k] = s[k]
      /\ t[Len(s)] = a
  BY <1>1, <1>2, ReplaceFacts, Zenon
<1>4. Len(s) \in Nat \ {0}
  BY <1>1, EmptySeq
<1>5. \A k \in 1..Len(s) : k = Len(s) \/ k \in 1..(Len(s) - 1)
  BY <1>4
<1> HIDE DEF t
<1>6. \A k \in 1..Len(t) : FrameOK(t[k], n)
  BY <1>1, <1>3, <1>5, Zenon
<1> QED
  BY <1>3, <1>6, Zenon DEF t, StackOK

LEMMA PushOK ==
  ASSUME NEW s, NEW n \in Nat, StackOK(s, n), NEW b, FrameOK(b, n)
  PROVE  StackOK(Append(s, b), n)
<1>1. /\ s \in Seq(Frame)
      /\ \A k \in 1..Len(s) : FrameOK(s[k], n)
      /\ b \in Frame
  BY DEF StackOK, FrameOK
<1> DEFINE t == Append(s, b)
<1>2. /\ t \in Seq(Frame)
      /\ Len(t) = Len(s) + 1
      /\ \A k \in 1..Len(s) : t[k] = s[k]
      /\ t[Len(s) + 1] = b
  BY <1>1, AppendProperties
<1>3. \A k \in 1..(Len(s) + 1) : k = Len(s) + 1 \/ k \in 1..Len(s)
  BY <1>1, LenProperties
<1> HIDE DEF t
<1>4. \A k \in 1..Len(t) : FrameOK(t[k], n)
  BY <1>1, <1>2, <1>3, Zenon
<1> QED
  BY <1>2, <1>4, Zenon DEF t, StackOK

LEMMA CallOK ==
  ASSUME NEW s, s # <<>>, NEW m \in Nat, NEW n \in Nat, m <= n, StackOK(s, m),
         NEW a, FrameOK(a, n), NEW b, FrameOK(b, n)
  PROVE  StackOK(Append(Append(SubSeq(s, 1, Len(s) - 1), a), b), n)
  BY ResumeOK, PushOK, Zenon

LEMMA NewStatement ==
  ASSUME NEW stmt \in Stmt, NEW n \in Nat
  PROVE  FrameOK(emitStmt(stmt), n)
<1>1. stmt.kind \in {"compound", "exprstmt", "if", "while", "return"}
  BY SyntaxAssumption DEF StmtShape
<1>2. emitStmt(stmt) \in Frame
  BY <1>1 DEF emitStmt, Activation, Frame, Labels
<1>3. NodeOK(emitStmt(stmt)) /\ BlocksOK(emitStmt(stmt), n)
  BY <1>1 DEF emitStmt, Activation, NodeOK, StatementOf, BlocksOK
<1> QED
  BY <1>2, <1>3 DEF FrameOK

LEMMA NewExpression ==
  ASSUME NEW expr \in Expr, NEW n \in Nat
  PROVE  FrameOK(emitExpr(expr), n)
<1>1. emitExpr(expr) \in Frame
  BY DEF emitExpr, Activation, Frame, Labels
<1>2. NodeOK(emitExpr(expr)) /\ BlocksOK(emitExpr(expr), n)
  BY DEF emitExpr, Activation, NodeOK, BlocksOK
<1> QED
  BY <1>1, <1>2 DEF FrameOK

LEMMA StackSteps ==
  ASSUME Working, stack # <<>>, NEW n \in Nat, Len(code) <= n
  PROVE  /\ StackOK(Return, n)
         /\ \A a : FrameOK(a, n) => StackOK(Resume(a), n)
         /\ \A a, b : FrameOK(a, n) /\ FrameOK(b, n) => StackOK(CallFrom(a, b), n)
<1>1. Len(code) \in Nat /\ StackOK(stack, Len(code))
  BY LenProperties DEF Working
<1>2. StackOK(Return, n)
  BY <1>1, ReturnOK, Zenon DEF Return, Below
<1>3. ASSUME NEW a, FrameOK(a, n)
      PROVE  StackOK(Resume(a), n)
  BY <1>1, <1>3, ResumeOK, Zenon DEF Resume, Below
<1>4. ASSUME NEW a, NEW b, FrameOK(a, n), FrameOK(b, n)
      PROVE  StackOK(CallFrom(a, b), n)
  BY <1>1, <1>4, CallOK, Zenon DEF CallFrom, Below
<1> QED
  BY <1>2, <1>3, <1>4, Zenon

LEMMA AdvancedOK ==
  ASSUME Working, stack # <<>>, Top.at \in {"compound", "expr"},
         NEW n \in Nat, Len(code) <= n
  PROVE  FrameOK(Advanced, n)
<1>1. FrameOK(Top, Len(code)) /\ Top \in Frame
  BY TopFacts
<1>2. Advanced \in Frame
  BY <1>1 DEF Advanced, Frame
<1>3. /\ Advanced.at = Top.at
      /\ Advanced.node = Top.node
  BY <1>1 DEF Advanced, Frame
<1>4. NodeOK(Advanced)
  BY <1>1, <1>3, Zenon DEF FrameOK, NodeOK
<1>5. BlocksOK(Advanced, n)
  BY <1>3 DEF BlocksOK
<1> QED
  BY <1>2, <1>4, <1>5 DEF FrameOK

-----------------------------------------------------------------------------
(* Facts about the blocks.                                                 *)

LEMMA CodeFacts ==
  ASSUME Working
  PROVE  /\ Len(code) \in Nat
         /\ cursor \in 1..Len(code)
         /\ \A b \in Blocks : code[b] \in Seq(Instructions)
<1>1. code \in Seq(Seq(Instructions)) /\ cursor \in Blocks
  BY DEF Working
<1> QED
  BY <1>1, LenProperties, ElementOfSeq DEF Blocks

LEMMA EmitFacts ==
  ASSUME Working, NEW i \in Instructions, Emit(i)
  PROVE  /\ code' \in Seq(Seq(Instructions))
         /\ Len(code') = Len(code)
         /\ \A b \in Blocks : b # cursor => code'[b] = code[b]
         /\ code'[cursor] = Append(code[cursor], i)
<1>1. code \in Seq(Seq(Instructions)) /\ cursor \in 1..Len(code)
  BY DEF Working, Blocks
<1> DEFINE d == [code EXCEPT ![cursor] = Append(@, i)]
<1>2. code' = d
  BY DEF Emit
<1>3. /\ d \in Seq(Seq(Instructions))
      /\ Len(d) = Len(code)
      /\ \A k \in 1..Len(code) : k # cursor => d[k] = code[k]
      /\ d[cursor] = Append(code[cursor], i)
  BY <1>1, GrowFacts
<1> HIDE DEF d
<1> QED
  BY <1>2, <1>3, Zenon DEF Blocks

LEMMA EmptyBlocks ==
  ASSUME NEW n \in Nat
  PROVE  /\ [i \in 1..n |-> <<>>] \in Seq(Seq(Instructions))
         /\ Len([i \in 1..n |-> <<>>]) = n
         /\ \A i \in 1..n : [j \in 1..n |-> <<>>][i] = <<>>
<1>1. <<>> \in Seq(Instructions)
  BY EmptySeq
<1>2. PICK T : T = Seq(Instructions)
  OBVIOUS
<1>3. [i \in 1..n |-> <<>>] \in Seq(T)
  BY <1>1, <1>2, IsASeq
<1> QED
  BY <1>2, <1>3

LEMMA ExtendFacts ==
  ASSUME Working, NEW i \in Instructions, NEW x \in Seq(Seq(Instructions)),
         code' = [code EXCEPT ![cursor] = Append(@, i)] \o x
  PROVE  /\ code' \in Seq(Seq(Instructions))
         /\ Len(code') = Len(code) + Len(x)
         /\ \A b \in Blocks : b # cursor => code'[b] = code[b]
         /\ code'[cursor] = Append(code[cursor], i)
         /\ \A k \in 1..Len(x) : code'[Len(code) + k] = x[k]
<1>1. code \in Seq(Seq(Instructions)) /\ cursor \in 1..Len(code)
  BY DEF Working, Blocks
<1> DEFINE d == [code EXCEPT ![cursor] = Append(@, i)]
<1>2. code' = d \o x
  OBVIOUS
<1>3. /\ d \in Seq(Seq(Instructions))
      /\ Len(d) = Len(code)
      /\ \A k \in 1..Len(code) : k # cursor => d[k] = code[k]
      /\ d[cursor] = Append(code[cursor], i)
  BY <1>1, GrowFacts
<1> HIDE DEF d
<1>5. PICK T : T = Seq(Instructions)
  OBVIOUS
<1>6. d \in Seq(T) /\ x \in Seq(T)
  BY <1>3, <1>5, Zenon
<1>7. d \o x \in Seq(T)
  BY <1>6, JoinFacts
<1>8. Len(d \o x) = Len(d) + Len(x)
  BY <1>6, JoinFacts
<1>9. \A k \in 1..Len(d) : (d \o x)[k] = d[k]
  BY <1>6, JoinFacts
<1>10. \A k \in 1..Len(x) : (d \o x)[Len(d) + k] = x[k]
  BY <1>6, JoinFacts
<1> QED
  BY <1>1, <1>2, <1>3, <1>5, <1>7, <1>8, <1>9, <1>10, Zenon DEF Blocks

LEMMA EmitCreatingFacts ==
  ASSUME Working, NEW i \in Instructions, NEW n \in Nat, EmitCreating(i, n)
  PROVE  /\ code' \in Seq(Seq(Instructions))
         /\ Len(code') = Len(code) + n
         /\ \A b \in Blocks : b # cursor => code'[b] = code[b]
         /\ code'[cursor] = Append(code[cursor], i)
         /\ \A k \in 1..n : code'[Len(code) + k] = <<>>
<1> DEFINE x == [j \in 1..n |-> <<>>]
<1>1. code' = [code EXCEPT ![cursor] = Append(@, i)] \o x
  BY DEF EmitCreating
<1>2. x \in Seq(Seq(Instructions)) /\ Len(x) = n /\ \A k \in 1..n : x[k] = <<>>
  BY EmptyBlocks
<1> HIDE DEF x
<1>3. /\ code' \in Seq(Seq(Instructions))
      /\ Len(code') = Len(code) + Len(x)
      /\ \A b \in Blocks : b # cursor => code'[b] = code[b]
      /\ code'[cursor] = Append(code[cursor], i)
      /\ \A k \in 1..Len(x) : code'[Len(code) + k] = x[k]
  BY <1>1, <1>2, ExtendFacts, Zenon
<1> QED
  BY <1>2, <1>3, Zenon

LEMMA BranchInstructions ==
  ASSUME NEW a \in Nat, NEW b \in Nat
  PROVE  /\ Br(a) \in Instructions
         /\ CondBr("cond", a, b) \in Instructions
         /\ CondBr("index", a, b) \in Instructions
<1>1. <<a>> \in Seq(Nat) /\ <<a, b>> \in Seq(Nat)
  OBVIOUS
<1> QED
  BY <1>1, Zenon DEF Br, CondBr, Instructions

LEMMA RetInstructions ==
  ASSUME NEW v \in {"void", "value", "zero"}
  PROVE  Ret(v) \in Instructions
<1>1. <<>> \in Seq(Nat)
  BY EmptySeq
<1> QED
  BY <1>1, Zenon DEF Ret, Instruction, Instructions

-----------------------------------------------------------------------------
(* Each action keeps the types.                                            *)

LEMMA PartFacts ==
  ASSUME Working, At("expr"), Top.next <= Len(Parts(Top.node))
  PROVE  /\ Part.do = "emitExpr" => Part.of \in Expr
         /\ Part.do = "checkIndex" => Part.of \in Expr
         /\ Part.do = "emit" => Part.of \in Plain
<1>1. Top.node \in Expr /\ Top.next \in Nat \ {0}
  BY TopFacts DEF At, FrameOK, NodeOK, Frame
<1>2. Parts(Top.node) \in Seq(PartSet)
  BY <1>1, PartsType
<1>3. Top.next \in 1..Len(Parts(Top.node))
  BY <1>1, <1>2, LenProperties
<1>4. Part \in PartSet
  BY <1>2, <1>3, ElementOfSeq DEF Part
<1> QED
  BY <1>4 DEF PartSet, Sub, Check, Do

(* A step that leaves the blocks alone.                                    *)
LEMMA SameCode ==
  ASSUME Working, UNCHANGED <<code, attached, cursor, implicit>>,
         StackOK(stack', Len(code))
  PROVE  Working'
  BY DEF Working, Blocks

(* A step that appends to the cursor's block and moves the cursor.         *)
LEMMA SameBlocks ==
  ASSUME Working, UNCHANGED implicit, attached' \subseteq Blocks,
         code' \in Seq(Seq(Instructions)), Len(code') = Len(code),
         cursor' \in Blocks, StackOK(stack', Len(code))
  PROVE  Working'
  BY DEF Working, Blocks

LEMMA EmitSubexprType ==
  ASSUME Working, EmitSubexpr
  PROVE  Working'
<1>1. /\ stack # <<>>
      /\ Top.at = "expr"
      /\ stack' = CallFrom(Advanced, emitExpr(Part.of))
      /\ UNCHANGED <<code, attached, cursor, implicit>>
  BY DEF EmitSubexpr, AtPart, At
<1>2. Part.of \in Expr
  BY PartFacts DEF EmitSubexpr, AtPart
<1>3. Len(code) \in Nat
  BY CodeFacts
<1>4. FrameOK(Advanced, Len(code)) /\ FrameOK(emitExpr(Part.of), Len(code))
  BY <1>1, <1>2, <1>3, AdvancedOK, NewExpression
<1>5. StackOK(stack', Len(code))
  BY <1>1, <1>3, <1>4, StackSteps
<1> QED
  BY <1>1, <1>5, SameCode

LEMMA EmitInstructionType ==
  ASSUME Working, EmitInstruction
  PROVE  Working'
<1>1. /\ stack # <<>>
      /\ Top.at = "expr"
      /\ stack' = Resume(Advanced)
      /\ Emit(Part.of)
      /\ UNCHANGED <<attached, cursor, implicit>>
  BY DEF EmitInstruction, AtPart, At
<1>2. Part.of \in Instructions
  BY PartFacts DEF EmitInstruction, AtPart, Plain
<1>3. Len(code) \in Nat
  BY CodeFacts
<1>4. StackOK(stack', Len(code))
  BY <1>1, <1>3, AdvancedOK, StackSteps
<1>5. code' \in Seq(Seq(Instructions)) /\ Len(code') = Len(code)
  BY <1>1, <1>2, EmitFacts
<1>6. attached' \subseteq Blocks /\ cursor' \in Blocks
  BY <1>1 DEF Working
<1> QED
  BY <1>1, <1>4, <1>5, <1>6, SameBlocks

LEMMA SkipCheckType ==
  ASSUME Working, SkipCheck
  PROVE  Working'
<1>1. /\ stack # <<>>
      /\ Top.at = "expr"
      /\ stack' = Resume(Advanced)
      /\ UNCHANGED <<code, attached, cursor, implicit>>
  BY DEF SkipCheck, AtPart, At
<1>2. StackOK(stack', Len(code))
  BY <1>1, CodeFacts, AdvancedOK, StackSteps
<1> QED
  BY <1>1, <1>2, SameCode

LEMMA ReturnType ==
  ASSUME Working, stack # <<>>, stack' = Return,
         UNCHANGED <<code, attached, cursor, implicit>>
  PROVE  Working'
<1>1. StackOK(stack', Len(code))
  BY CodeFacts, StackSteps
<1> QED
  BY <1>1, SameCode

LEMMA FailBlocks ==
  << <<Instruction("indexError", ""), Unreachable>>, <<>> >> \in Seq(Seq(Instructions))
<1>1. Instruction("indexError", "") \in Instructions
  BY PlainInstructions DEF Plain
<1>2. Unreachable \in Instructions
  <2>1. <<>> \in Seq(Nat)
    BY EmptySeq
  <2> QED
    BY <2>1, Zenon DEF Unreachable, Instruction, Instructions
<1>3. <<>> \in Seq(Instructions)
  BY EmptySeq
<1>4. <<Instruction("indexError", ""), Unreachable>> \in Seq(Instructions)
  BY <1>1, <1>2, PairFacts, Zenon
<1> QED
  BY <1>3, <1>4, PairFacts, Zenon

LEMMA CheckIndexFacts ==
  ASSUME Working, CheckIndex
  PROVE  /\ code' \in Seq(Seq(Instructions))
         /\ Len(code') = Len(code) + 2
         /\ \A b \in Blocks : b # cursor => code'[b] = code[b]
         /\ code'[cursor] =
              Append(code[cursor], CondBr("index", Len(code) + 1, Len(code) + 2))
         /\ code'[Len(code) + 1] = <<Instruction("indexError", ""), Unreachable>>
         /\ code'[Len(code) + 2] = <<>>
<1> DEFINE x == << <<Instruction("indexError", ""), Unreachable>>, <<>> >>
           i == CondBr("index", Len(code) + 1, Len(code) + 2)
<1>1. code' = [code EXCEPT ![cursor] = Append(@, i)] \o x
  BY DEF CheckIndex, NewBlock
<1>2. x \in Seq(Seq(Instructions))
  BY FailBlocks
<1>3. Len(x) = 2 /\ x[1] = <<Instruction("indexError", ""), Unreachable>> /\ x[2] = <<>>
  OBVIOUS
<1>4. Len(code) + 1 \in Nat /\ Len(code) + 2 \in Nat
  BY CodeFacts
<1>5. i \in Instructions
  BY <1>4, BranchInstructions
<1> HIDE DEF x, i
<1>6. /\ code' \in Seq(Seq(Instructions))
      /\ Len(code') = Len(code) + Len(x)
      /\ \A b \in Blocks : b # cursor => code'[b] = code[b]
      /\ code'[cursor] = Append(code[cursor], i)
      /\ \A k \in 1..Len(x) : code'[Len(code) + k] = x[k]
  BY <1>1, <1>2, <1>5, ExtendFacts, Zenon
<1>7. 1 \in 1..2 /\ 2 \in 1..2
  OBVIOUS
<1> QED
  BY <1>3, <1>6, <1>7, Zenon DEF i

LEMMA CheckIndexType ==
  ASSUME Working, CheckIndex
  PROVE  Working'
<1>1. /\ stack # <<>>
      /\ Top.at = "expr"
      /\ stack' = Resume(Advanced)
      /\ attached' = attached \union {Len(code) + 1, Len(code) + 2}
      /\ cursor' = Len(code) + 2
      /\ UNCHANGED implicit
  BY DEF CheckIndex, AtPart, At, NewBlock
<1>2. code' \in Seq(Seq(Instructions)) /\ Len(code') = Len(code) + 2
  BY CheckIndexFacts
<1>3. Len(code) \in Nat
  BY CodeFacts
<1>4. StackOK(stack', Len(code'))
  BY <1>1, <1>2, <1>3, AdvancedOK, StackSteps
<1>5. /\ attached' \subseteq Blocks'
      /\ cursor' \in Blocks'
      /\ implicit' \in Blocks' \union {0}
  <2>1. attached \subseteq Blocks /\ implicit \in Blocks \union {0}
    BY DEF Working
  <2>2. Blocks' = 1..(Len(code) + 2)
    BY <1>2 DEF Blocks
  <2>3. Blocks \subseteq Blocks' /\ {Len(code) + 1, Len(code) + 2} \subseteq Blocks'
    BY <1>3, <2>2 DEF Blocks
  <2> QED
    BY <1>1, <2>1, <2>3, Zenon
<1> QED
  BY <1>2, <1>4, <1>5 DEF Working

(* The statement an activation works on.                                   *)
LEMMA NodeFacts ==
  ASSUME Working, stack # <<>>, Top.at \notin {"expr", "function.end"}
  PROVE  /\ Top.node \in Stmt
         /\ Top.node.kind = StatementOf(Top.at)
         /\ StmtShape(Top.node)
<1>1. NodeOK(Top)
  BY TopFacts DEF FrameOK
<1> QED
  BY <1>1, SyntaxAssumption DEF NodeOK

(* An activation that goes on at another point of the same statement.      *)
LEMMA MovedOK ==
  ASSUME Working, stack # <<>>, Top.at \notin {"expr", "function.end"},
         NEW label \in Labels \ {"function", "function.end", "expr", "if.then"},
         StatementOf(label) = StatementOf(Top.at),
         label \in {"if.last", "while.cond", "while.body"} => Top.end \in 1..Len(code),
         label \in {"while.cond", "while.body"} => Top.other \in 1..Len(code),
         label = "while.cond" => Top.body \in 1..Len(code)
  PROVE  FrameOK([Top EXCEPT !.at = label], Len(code))
<1>1. Top \in Frame
  BY TopFacts
<1> DEFINE a == [Top EXCEPT !.at = label]
<1>2. a \in Frame
  BY <1>1 DEF Frame
<1>3. /\ a.at = label /\ a.node = Top.node
      /\ a.end = Top.end /\ a.other = Top.other /\ a.body = Top.body
  BY <1>1 DEF Frame
<1>4. NodeOK(a)
  BY <1>3, NodeFacts DEF NodeOK
<1>5. BlocksOK(a, Len(code))
  BY <1>3 DEF BlocksOK
<1> QED
  BY <1>2, <1>4, <1>5 DEF FrameOK

(* Writing the blocks of a statement into its activation.                  *)
LEMMA HoldingBlocks ==
  ASSUME NEW f \in Frame, NEW label \in Labels, NEW e \in Nat, NEW o \in Nat, NEW b \in Nat
  PROVE  /\ [f EXCEPT !.at = label, !.end = e, !.other = o] \in Frame
         /\ [f EXCEPT !.at = label, !.end = e, !.other = o, !.body = b] \in Frame
  BY DEF Frame

LEMMA EmitExprStmtType ==
  ASSUME Working, EmitExprStmt
  PROVE  Working'
<1>1. /\ stack # <<>>
      /\ Top.at = "exprstmt"
      /\ stack' = IF Top.node.expr = None THEN Return ELSE Resume(emitExpr(Top.node.expr))
      /\ UNCHANGED <<code, attached, cursor, implicit>>
  BY DEF EmitExprStmt, At
<1>2. CASE Top.node.expr = None
  BY <1>1, <1>2, ReturnType
<1>3. CASE Top.node.expr # None
  <2>1. Top.node.expr \in Expr
    <3>1. StmtShape(Top.node) /\ Top.node.kind = "exprstmt"
      BY <1>1, NodeFacts DEF StatementOf
    <3> QED
      BY <1>3, <3>1 DEF StmtShape
  <2>2. StackOK(stack', Len(code))
    BY <1>1, <1>3, <2>1, CodeFacts, NewExpression, StackSteps
  <2> QED
    BY <1>1, <2>2, SameCode
<1> QED
  BY <1>2, <1>3

LEMMA EmitCompoundType ==
  ASSUME Working, EmitCompound
  PROVE  Working'
<1>1. /\ stack # <<>>
      /\ Top.at = "compound"
      /\ Top.next <= Len(Top.node.stmts)
      /\ stack' = CallFrom(Advanced, emitStmt(Top.node.stmts[Top.next]))
      /\ UNCHANGED <<code, attached, cursor, implicit>>
  BY DEF EmitCompound, CompoundGoesOn, At
<1>2. Top.node.stmts \in Seq(Stmt)
  <2>1. StmtShape(Top.node) /\ Top.node.kind = "compound"
    BY <1>1, NodeFacts DEF StatementOf
  <2> QED
    BY <2>1 DEF StmtShape
<1>3. Top.next \in 1..Len(Top.node.stmts)
  <2>1. Top.next \in Nat \ {0}
    BY <1>1, TopFacts DEF Frame
  <2> QED
    BY <1>1, <1>2, <2>1, LenProperties
<1>4. Top.node.stmts[Top.next] \in Stmt
  BY <1>2, <1>3, ElementOfSeq
<1>5. StackOK(stack', Len(code))
  BY <1>1, <1>4, CodeFacts, AdvancedOK, NewStatement, StackSteps
<1> QED
  BY <1>1, <1>5, SameCode

LEMMA EmitIfType ==
  ASSUME Working, EmitIf
  PROVE  Working'
<1>1. /\ stack # <<>>
      /\ Top.at = "if"
      /\ stack' = CallFrom([Top EXCEPT !.at = "if.cond"], emitExpr(Top.node.cond))
      /\ UNCHANGED <<code, attached, cursor, implicit>>
  BY DEF EmitIf, At
<1>2. Top.node.cond \in Expr
  BY <1>1, NodeFacts DEF StatementOf, StmtShape
<1>3. FrameOK([Top EXCEPT !.at = "if.cond"], Len(code))
  BY <1>1, MovedOK DEF Labels, StatementOf
<1>4. StackOK(stack', Len(code))
  BY <1>1, <1>2, <1>3, CodeFacts, NewExpression, StackSteps
<1> QED
  BY <1>1, <1>4, SameCode

LEMMA EmitReturnValueType ==
  ASSUME Working, EmitReturnValue
  PROVE  Working'
<1>1. /\ stack # <<>>
      /\ Top.at = "return"
      /\ Top.node.value # None
      /\ stack' = CallFrom([Top EXCEPT !.at = "return.value"], emitExpr(Top.node.value))
      /\ UNCHANGED <<code, attached, cursor, implicit>>
  BY DEF EmitReturnValue, At
<1>2. Top.node.value \in Expr
  BY <1>1, NodeFacts DEF StatementOf, StmtShape
<1>3. FrameOK([Top EXCEPT !.at = "return.value"], Len(code))
  BY <1>1, MovedOK DEF Labels, StatementOf
<1>4. StackOK(stack', Len(code))
  BY <1>1, <1>2, <1>3, CodeFacts, NewExpression, StackSteps
<1> QED
  BY <1>1, <1>4, SameCode

LEMMA EmitReturnType ==
  ASSUME Working, EmitReturn
  PROVE  Working'
<1>1. /\ stack # <<>>
      /\ stack' = Return
      /\ \E v \in {"void", "value", "zero"} : Emit(Ret(v))
      /\ UNCHANGED <<attached, cursor, implicit>>
  BY DEF EmitReturn, At
<1>2. code' \in Seq(Seq(Instructions)) /\ Len(code') = Len(code)
  BY <1>1, RetInstructions, EmitFacts
<1>3. StackOK(stack', Len(code))
  BY <1>1, CodeFacts, StackSteps
<1>4. attached' \subseteq Blocks /\ cursor' \in Blocks
  BY <1>1 DEF Working
<1> QED
  BY <1>1, <1>2, <1>3, <1>4, SameBlocks

LEMMA EmitIfBranchFacts ==
  ASSUME Working, EmitIfBranch
  PROVE  LET hasElse == Top.node.else # None
             n == IF hasElse THEN 3 ELSE 2
             then == Len(code) + 1
             end == Len(code) + 2
             other == IF hasElse THEN Len(code) + 3 ELSE end
         IN /\ code' \in Seq(Seq(Instructions))
            /\ Len(code') = Len(code) + n
            /\ \A b \in Blocks : b # cursor => code'[b] = code[b]
            /\ code'[cursor] = Append(code[cursor], CondBr("cond", then, other))
            /\ \A k \in 1..n : code'[Len(code) + k] = <<>>
<1> DEFINE n == IF Top.node.else # None THEN 3 ELSE 2
           i == CondBr("cond", Len(code) + 1,
                       IF Top.node.else # None THEN Len(code) + 3 ELSE Len(code) + 2)
<1>1. EmitCreating(i, n)
  BY DEF EmitIfBranch, NewBlock
<1>2. Len(code) + 1 \in Nat /\ Len(code) + 2 \in Nat /\ Len(code) + 3 \in Nat
  BY CodeFacts
<1>3. i \in Instructions
  BY <1>2, BranchInstructions
<1>4. n \in Nat
  OBVIOUS
<1> HIDE DEF n, i
<1>5. /\ code' \in Seq(Seq(Instructions))
      /\ Len(code') = Len(code) + n
      /\ \A b \in Blocks : b # cursor => code'[b] = code[b]
      /\ code'[cursor] = Append(code[cursor], i)
      /\ \A k \in 1..n : code'[Len(code) + k] = <<>>
  BY <1>1, <1>3, <1>4, EmitCreatingFacts, Zenon
<1> QED
  BY <1>5, Zenon DEF n, i

(* A step that adds n blocks.                                              *)
LEMMA MoreCode ==
  ASSUME Working, UNCHANGED implicit, NEW n \in Nat,
         code' \in Seq(Seq(Instructions)), Len(code') = Len(code) + n,
         NEW new \in SUBSET ((Len(code) + 1)..(Len(code) + n)),
         attached' = attached \union new,
         cursor' \in 1..(Len(code) + n),
         StackOK(stack', Len(code) + n)
  PROVE  Working'
<1>1. attached \subseteq Blocks /\ implicit \in Blocks \union {0}
  BY DEF Working
<1>2. Blocks' = 1..(Len(code) + n)
  BY DEF Blocks
<1>3. Blocks \subseteq Blocks' /\ new \subseteq Blocks'
  BY <1>2, CodeFacts DEF Blocks
<1>4. attached' \subseteq Blocks' /\ implicit' \in Blocks' \union {0}
  BY <1>1, <1>3, Zenon
<1> QED
  BY <1>2, <1>4, Zenon DEF Working

LEMMA EmitIfBranchType ==
  ASSUME Working, EmitIfBranch
  PROVE  Working'
<1> DEFINE hasElse == Top.node.else # None
           n == IF hasElse THEN 3 ELSE 2
           new == {Len(code) + 1} \union (IF hasElse THEN {Len(code) + 3} ELSE {})
           label == IF hasElse THEN "if.then" ELSE "if.last"
           end == Len(code) + 2
           other == IF hasElse THEN Len(code) + 3 ELSE 0
           a == [Top EXCEPT !.at = label, !.end = end, !.other = other]
<1>1. /\ stack # <<>>
      /\ Top.at = "if.cond"
      /\ stack' = CallFrom(a, emitStmt(Top.node.then))
      /\ attached' = attached \union new
      /\ cursor' = Len(code) + 1
      /\ UNCHANGED implicit
  BY DEF EmitIfBranch, At, NewBlock
<1>2. code' \in Seq(Seq(Instructions)) /\ Len(code') = Len(code) + n
  BY EmitIfBranchFacts
<1>3. Len(code) \in Nat /\ n \in Nat /\ Len(code) + n \in Nat
  BY CodeFacts
<1>4. FrameOK(a, Len(code) + n)
  <2>1. Top \in Frame
    BY <1>1, TopFacts
  <2>2. a \in Frame
    <3>1. label \in Labels /\ end \in Nat /\ other \in Nat
      BY <1>3 DEF Labels
    <3> HIDE DEF label, end, other
    <3> QED
      BY <2>1, <3>1, HoldingBlocks, Zenon
  <2>3. /\ a.at = label /\ a.node = Top.node
        /\ a.end = end /\ a.other = other
    BY <2>1 DEF Frame
  <2>4. NodeOK(a)
    BY <1>1, <2>3, NodeFacts DEF NodeOK, StatementOf
  <2>5. BlocksOK(a, Len(code) + n)
    BY <1>3, <2>3 DEF BlocksOK
  <2> QED
    BY <2>2, <2>4, <2>5 DEF FrameOK
<1>5. Top.node.then \in Stmt
  BY <1>1, NodeFacts DEF StatementOf, StmtShape
<1>6. FrameOK(emitStmt(Top.node.then), Len(code) + n)
  BY <1>3, <1>5, NewStatement
<1>7. StackOK(stack', Len(code) + n)
  <2>1. Len(code) <= Len(code) + n
    BY <1>3
  <2> HIDE DEF a, n
  <2> QED
    BY <1>1, <1>3, <1>4, <1>6, <2>1, StackSteps
<1>8. new \in SUBSET ((Len(code) + 1)..(Len(code) + n)) /\ cursor' \in 1..(Len(code) + n)
  BY <1>1, <1>3
<1> HIDE DEF new, n, a
<1> QED
  BY <1>1, <1>2, <1>3, <1>7, <1>8, MoreCode

(* An arm that is still open is closed with a branch.                      *)
LEMMA CloseWithFacts ==
  ASSUME Working, NEW b \in Blocks, CloseWith(b)
  PROVE  code' \in Seq(Seq(Instructions)) /\ Len(code') = Len(code)
<1>1. b \in Nat
  BY CodeFacts DEF Blocks
<1>2. CASE blockOpen
  BY <1>1, <1>2, BranchInstructions, EmitFacts DEF CloseWith
<1>3. CASE ~blockOpen
  BY <1>3 DEF CloseWith, Working
<1> QED
  BY <1>2, <1>3

LEMMA EmitElseType ==
  ASSUME Working, EmitElse
  PROVE  Working'
<1>1. /\ stack # <<>>
      /\ Top.at = "if.then"
      /\ stack' = CallFrom([Top EXCEPT !.at = "if.last"], emitStmt(Top.node.else))
      /\ CloseWith(Top.end)
      /\ cursor' = Top.other
      /\ UNCHANGED <<attached, implicit>>
  BY DEF EmitElse, At
<1>2. Top.end \in Blocks /\ Top.other \in Blocks
  BY <1>1, TopFacts DEF FrameOK, BlocksOK, Blocks
<1>3. FrameOK([Top EXCEPT !.at = "if.last"], Len(code))
  BY <1>1, <1>2, MovedOK DEF Labels, StatementOf, Blocks
<1>4. Top.node.else \in Stmt
  <2>1. Top.node.else # None
    BY <1>1, TopFacts DEF FrameOK, NodeOK
  <2> QED
    BY <1>1, <2>1, NodeFacts DEF StatementOf, StmtShape
<1>5. StackOK(stack', Len(code))
  BY <1>1, <1>3, <1>4, CodeFacts, NewStatement, StackSteps
<1>6. code' \in Seq(Seq(Instructions)) /\ Len(code') = Len(code)
  BY <1>1, <1>2, CloseWithFacts
<1>7. attached' \subseteq Blocks /\ cursor' \in Blocks
  BY <1>1, <1>2 DEF Working
<1> QED
  BY <1>1, <1>5, <1>6, <1>7, SameBlocks

LEMMA EndIfType ==
  ASSUME Working, EndIf
  PROVE  Working'
<1>1. /\ stack # <<>>
      /\ Top.at = "if.last"
      /\ stack' = Return
      /\ CloseWith(Top.end)
      /\ attached' = attached \union {Top.end}
      /\ cursor' = Top.end
      /\ UNCHANGED implicit
  BY DEF EndIf, At
<1>2. Top.end \in Blocks
  BY <1>1, TopFacts DEF FrameOK, BlocksOK, Blocks
<1>3. StackOK(stack', Len(code))
  BY <1>1, CodeFacts, StackSteps
<1>4. code' \in Seq(Seq(Instructions)) /\ Len(code') = Len(code)
  BY <1>1, <1>2, CloseWithFacts
<1>5. attached' \subseteq Blocks /\ cursor' \in Blocks
  BY <1>1, <1>2 DEF Working
<1> QED
  BY <1>1, <1>3, <1>4, <1>5, SameBlocks

LEMMA EmitWhileFacts ==
  ASSUME Working, EmitWhile
  PROVE  /\ code' \in Seq(Seq(Instructions))
         /\ Len(code') = Len(code) + 3
         /\ \A b \in Blocks : b # cursor => code'[b] = code[b]
         /\ code'[cursor] = Append(code[cursor], Br(Len(code) + 1))
         /\ \A k \in 1..3 : code'[Len(code) + k] = <<>>
<1>1. EmitCreating(Br(Len(code) + 1), 3)
  BY DEF EmitWhile, NewBlock
<1>2. Br(Len(code) + 1) \in Instructions
  BY CodeFacts, BranchInstructions
<1>3. 3 \in Nat
  OBVIOUS
<1> QED
  BY <1>1, <1>2, <1>3, EmitCreatingFacts, Zenon

LEMMA EmitWhileType ==
  ASSUME Working, EmitWhile
  PROVE  Working'
<1> DEFINE new == {Len(code) + 1, Len(code) + 2, Len(code) + 3}
           a == [Top EXCEPT !.at = "while.cond", !.end = Len(code) + 3,
                            !.other = Len(code) + 1, !.body = Len(code) + 2]
<1>1. /\ stack # <<>>
      /\ Top.at = "while"
      /\ stack' = CallFrom(a, emitExpr(Top.node.cond))
      /\ attached' = attached \union new
      /\ cursor' = Len(code) + 1
      /\ UNCHANGED implicit
  BY DEF EmitWhile, At, NewBlock
<1>2. code' \in Seq(Seq(Instructions)) /\ Len(code') = Len(code) + 3
  BY EmitWhileFacts
<1>3. Len(code) \in Nat /\ 3 \in Nat /\ Len(code) + 3 \in Nat
  BY CodeFacts
<1>4. FrameOK(a, Len(code) + 3)
  <2>1. Top \in Frame
    BY <1>1, TopFacts
  <2>2. a \in Frame
    <3>1. /\ Len(code) + 3 \in Nat /\ Len(code) + 1 \in Nat /\ Len(code) + 2 \in Nat
          /\ "while.cond" \in Labels
      BY <1>3 DEF Labels
    <3> QED
      BY <2>1, <3>1, HoldingBlocks, Zenon
  <2>3. /\ a.at = "while.cond" /\ a.node = Top.node
        /\ a.end = Len(code) + 3 /\ a.other = Len(code) + 1 /\ a.body = Len(code) + 2
    BY <2>1 DEF Frame
  <2>4. NodeOK(a)
    BY <1>1, <2>3, NodeFacts DEF NodeOK, StatementOf
  <2>5. BlocksOK(a, Len(code) + 3)
    BY <1>3, <2>3 DEF BlocksOK
  <2> QED
    BY <2>2, <2>4, <2>5 DEF FrameOK
<1>5. Top.node.cond \in Expr
  BY <1>1, NodeFacts DEF StatementOf, StmtShape
<1>6. FrameOK(emitExpr(Top.node.cond), Len(code) + 3)
  BY <1>3, <1>5, NewExpression
<1>7. StackOK(stack', Len(code) + 3)
  <2>1. Len(code) <= Len(code) + 3
    BY <1>3
  <2> HIDE DEF a
  <2> QED
    BY <1>1, <1>3, <1>4, <1>6, <2>1, StackSteps
<1>8. new \in SUBSET ((Len(code) + 1)..(Len(code) + 3)) /\ cursor' \in 1..(Len(code) + 3)
  BY <1>1, <1>3
<1> HIDE DEF new, a
<1> QED
  BY <1>1, <1>2, <1>3, <1>7, <1>8, MoreCode

LEMMA EmitWhileBodyType ==
  ASSUME Working, EmitWhileBody
  PROVE  Working'
<1>1. /\ stack # <<>>
      /\ Top.at = "while.cond"
      /\ stack' = CallFrom([Top EXCEPT !.at = "while.body"], emitStmt(Top.node.body))
      /\ Emit(CondBr("cond", Top.body, Top.end))
      /\ cursor' = Top.body
      /\ UNCHANGED <<attached, implicit>>
  BY DEF EmitWhileBody, At
<1>2. Top.end \in Blocks /\ Top.other \in Blocks /\ Top.body \in Blocks
  BY <1>1, TopFacts DEF FrameOK, BlocksOK, Blocks
<1>3. FrameOK([Top EXCEPT !.at = "while.body"], Len(code))
  BY <1>1, <1>2, MovedOK DEF Labels, StatementOf, Blocks
<1>4. Top.node.body \in Stmt
  BY <1>1, NodeFacts DEF StatementOf, StmtShape
<1>5. StackOK(stack', Len(code))
  BY <1>1, <1>3, <1>4, CodeFacts, NewStatement, StackSteps
<1>6. CondBr("cond", Top.body, Top.end) \in Instructions
  BY <1>2, BranchInstructions, CodeFacts DEF Blocks
<1>7. code' \in Seq(Seq(Instructions)) /\ Len(code') = Len(code)
  BY <1>1, <1>6, EmitFacts
<1>8. attached' \subseteq Blocks /\ cursor' \in Blocks
  BY <1>1, <1>2 DEF Working
<1> QED
  BY <1>1, <1>5, <1>7, <1>8, SameBlocks

LEMMA EndWhileType ==
  ASSUME Working, EndWhile
  PROVE  Working'
<1>1. /\ stack # <<>>
      /\ Top.at = "while.body"
      /\ stack' = Return
      /\ CloseWith(Top.other)
      /\ cursor' = Top.end
      /\ UNCHANGED <<attached, implicit>>
  BY DEF EndWhile, At
<1>2. Top.end \in Blocks /\ Top.other \in Blocks
  BY <1>1, TopFacts DEF FrameOK, BlocksOK, Blocks
<1>3. StackOK(stack', Len(code))
  BY <1>1, CodeFacts, StackSteps
<1>4. code' \in Seq(Seq(Instructions)) /\ Len(code') = Len(code)
  BY <1>1, <1>2, CloseWithFacts
<1>5. attached' \subseteq Blocks /\ cursor' \in Blocks
  BY <1>1, <1>2 DEF Working
<1> QED
  BY <1>1, <1>3, <1>4, <1>5, SameBlocks

LEMMA EndFunctionType ==
  ASSUME Working, EndFunction
  PROVE  Working'
<1>1. /\ stack # <<>>
      /\ stack' = Return
      /\ IF blockOpen
         THEN (\E v \in {"void", "zero"} : Emit(Ret(v))) /\ implicit' = cursor
         ELSE UNCHANGED <<code, implicit>>
      /\ UNCHANGED <<attached, cursor>>
  BY DEF EndFunction, At
<1>2. StackOK(stack', Len(code))
  BY <1>1, CodeFacts, StackSteps
<1>3. code' \in Seq(Seq(Instructions)) /\ Len(code') = Len(code)
  <2>1. CASE blockOpen
    BY <1>1, <2>1, RetInstructions, EmitFacts
  <2>2. CASE ~blockOpen
    BY <1>1, <2>2 DEF Working
  <2> QED
    BY <2>1, <2>2
<1>4. implicit' \in Blocks \union {0}
  BY <1>1 DEF Working
<1>5. attached \subseteq Blocks /\ cursor \in Blocks
  BY DEF Working
<1> QED
  BY <1>1, <1>2, <1>3, <1>4, <1>5 DEF Working, Blocks

LEMMA EmitFunctionType ==
  ASSUME Fresh, function \in Function, EmitFunction
  PROVE  Working'
<1> DEFINE a == [Top EXCEPT !.at = "function.end"]
           entry == << <<Instruction("alloca", "")>> >>
<1>1. /\ code' = entry
      /\ attached' = {1}
      /\ cursor' = 1
      /\ implicit' = 0
      /\ stack' = CallFrom(a, emitStmt(function.body))
  BY DEF EmitFunction, Fresh
<1>2. stack = <<Activation("function", function)>>
  BY DEF Fresh
<1>3. Top = Activation("function", function)
  BY <1>2 DEF Top
<1>4. a \in Frame
  BY <1>3 DEF Activation, Frame, Labels
<1>5. FrameOK(a, 1)
  <2>1. a.at = "function.end"
    BY <1>3 DEF Activation
  <2> QED
    BY <1>4, <2>1 DEF FrameOK, NodeOK, BlocksOK
<1>6. function.body \in Stmt
  BY SyntaxAssumption DEF FunctionShape
<1>7. FrameOK(emitStmt(function.body), 1)
  BY <1>6, NewStatement
<1>8. StackOK(stack', 1)
  <2>1. Below = <<>>
    BY <1>2 DEF Below
  <2> HIDE DEF a
  <2>2. StackOK(<<>>, 1)
    BY EmptySeq DEF StackOK
  <2>3. StackOK(Append(<<>>, a), 1)
    BY <1>5, <2>2, PushOK
  <2>4. StackOK(Append(Append(<<>>, a), emitStmt(function.body)), 1)
    BY <1>7, <2>3, PushOK
  <2> QED
    BY <1>1, <2>1, <2>4 DEF CallFrom
<1>9. entry \in Seq(Seq(Instructions)) /\ Len(entry) = 1
  <2>1. Instruction("alloca", "") \in Instructions
    BY PlainInstructions DEF Plain
  <2>2. <<Instruction("alloca", "")>> \in Seq(Instructions)
    BY <2>1, PairFacts, Zenon
  <2>3. entry \in Seq(Seq(Instructions))
    BY <2>2, PairFacts, Zenon
  <2> QED
    BY <2>3
<1> HIDE DEF entry, a
<1> QED
  BY <1>1, <1>8, <1>9 DEF Working, Blocks

-----------------------------------------------------------------------------
(* The activation of emitFunction is there only before the first step.     *)
LEMMA FreshAt ==
  ASSUME Fresh
  PROVE  stack # <<>> /\ Top.at = "function"
<1>1. stack = <<Activation("function", function)>>
  BY DEF Fresh
<1> QED
  BY <1>1 DEF Top, Activation

LEMMA WorkingAt ==
  ASSUME Working, stack # <<>>
  PROVE  Top.at # "function"
  BY TopFacts DEF FrameOK, NodeOK

LEMMA TypeInvInit == Init => TypeInv
  BY DEF Init, TypeInv, Fresh

LEMMA TypeInvStep == TypeInv /\ [Next]_vars => TypeInv'
<1> SUFFICES ASSUME TypeInv, [Next]_vars
             PROVE  TypeInv'
  OBVIOUS
<1>1. CASE UNCHANGED vars
  BY <1>1 DEF vars, TypeInv, Fresh, Working, Blocks
<1>2. CASE Next
  <2>1. function' = function
    BY <1>2 DEF Next, EmitFunction, EndFunction, EmitCompound, EndCompound, EmitExprStmt,
                EmitIf, EmitIfBranch, EmitElse, EndIf, EmitWhile, EmitWhileBody, EndWhile,
                EmitReturnValue, EmitReturn, EmitSubexpr, EmitInstruction, SkipCheck,
                CheckIndex, EndExpr
  <2>2. CASE Fresh
    <3>1. EmitFunction
      BY <1>2, <2>2, FreshAt
         DEF Next, EndFunction, EmitCompound, EndCompound, EmitExprStmt,
             EmitIf, EmitIfBranch, EmitElse, EndIf, EmitWhile, EmitWhileBody, EndWhile,
             EmitReturnValue, EmitReturn, EmitSubexpr, EmitInstruction, SkipCheck,
             CheckIndex, EndExpr, At, AtPart
    <3> QED
      BY <2>1, <2>2, <3>1, EmitFunctionType DEF TypeInv
  <2>3. CASE Working
    <3>1. ~EmitFunction
      BY <2>3, WorkingAt DEF EmitFunction, At
    <3>2. EndExpr \/ EndCompound => Working'
      BY <2>3, ReturnType DEF EndExpr, EndCompound, At
    <3>3. Working'
      BY <1>2, <2>3, <3>1, <3>2, EndFunctionType, EmitCompoundType, EmitExprStmtType,
         EmitIfType, EmitIfBranchType, EmitElseType, EndIfType, EmitWhileType,
         EmitWhileBodyType, EndWhileType, EmitReturnValueType, EmitReturnType,
         EmitSubexprType, EmitInstructionType, SkipCheckType, CheckIndexType
         DEF Next
    <3> QED
      BY <2>1, <3>3 DEF TypeInv
  <2> QED
    BY <2>2, <2>3 DEF TypeInv
<1> QED
  BY <1>1, <1>2

LEMMA TypeInvTypeOK == TypeInv => TypeOK
<1>1. ASSUME Fresh, function \in Function
      PROVE  TypeOK
  <2>1. Activation("function", function) \in Frame
    BY <1>1 DEF Activation, Frame, Labels
  <2>2. stack \in Seq(Frame)
    BY <1>1, <2>1, PairFacts, Zenon DEF Fresh
  <2>3. <<>> \in Seq(Seq(Instructions))
    BY EmptySeq
  <2> QED
    BY <1>1, <2>2, <2>3 DEF Fresh, TypeOK, Blocks
<1>2. Working => TypeOK
  BY DEF Working, StackOK, TypeOK
<1> QED
  BY <1>1, <1>2 DEF TypeInv

(* The stack always holds activations that fit their node, every block is  *)
(* a sequence of instructions, and the builder is in a block from the      *)
(* entry block on, for every syntax tree.                                  *)
THEOREM TypeCorrect == Spec => []TypeOK
<1>1. Spec => []TypeInv
  BY TypeInvInit, TypeInvStep, PTL DEF Spec
<1> QED
  BY <1>1, TypeInvTypeOK, PTL

-----------------------------------------------------------------------------
(***************************************************************************)
(* The control flow IRGen generates is well-formed, whatever the function: *)
(* the module verifier accepts every block, and a block that has its       *)
(* terminator is never written again.                                      *)
(*                                                                         *)
(* Verified is not inductive: it speaks of the end only.  FlowInv says     *)
(* what holds on the way.  Its heart is a protocol between the emit        *)
(* functions: an activation either expects that what it called may have    *)
(* closed the block of the cursor (Expects), or it called emitExpr, which  *)
(* never closes one.                                                       *)
(***************************************************************************)

Expects(a) ==
  \/ a.at \in {"if.then", "if.last", "while.body", "function.end"}
  \/ a.at = "compound" /\ a.next > 1

CallsOK(s) ==
  \A k \in 1..Len(s) : k + 1 \in 1..Len(s) => s[k + 1].at = "expr" \/ Expects(s[k])

BottomOK(s) ==
  \A k \in 1..Len(s) : s[k].at = "function.end" <=> k = 1

(* Pending blocks are empty, elsewhere than the cursor, and claimed once;  *)
(* every other block but the cursor's is closed.                           *)
PendingOK(s, c, cur) ==
  /\ \A b \in 1..Len(c) : IsOpen(c[b]) => b = cur \/ \E k \in 1..Len(s) : b \in Pending(s[k])
  /\ \A k \in 1..Len(s) : \A b \in Pending(s[k]) : b # cur /\ c[b] = <<>>
  /\ \A j, k \in 1..Len(s) : j # k => Pending(s[j]) \cap Pending(s[k]) = {}

DistinctOK(s) ==
  \A k \in 1..Len(s) :
    /\ s[k].at = "if.then" => s[k].end # s[k].other
    /\ s[k].at = "while.cond" => s[k].end # s[k].body

(* if.end is inserted last.                                                *)
Detached(a) == IF a.at \in {"if.then", "if.last"} THEN {a.end} ELSE {}

AttachedOK(s, c, att) ==
  \A b \in 1..Len(c) : b \in att \/ \E k \in 1..Len(s) : b \in Detached(s[k])

(* No terminator but at the end, no branch but to one of the n blocks.     *)
BlockOK(instructions, n) ==
  \A i \in 1..Len(instructions) :
    /\ IsTerminator(instructions[i]) => i = Len(instructions)
    /\ \A t \in 1..Len(instructions[i].to) : instructions[i].to[t] \in 1..n

CodeOK(c) == \A b \in 1..Len(c) : BlockOK(c[b], Len(c))

CursorOK ==
  IF stack = <<>> THEN ~blockOpen ELSE ~Expects(Top) => blockOpen

Flow ==
  /\ CallsOK(stack) /\ BottomOK(stack) /\ DistinctOK(stack)
  /\ PendingOK(stack, code, cursor)
  /\ AttachedOK(stack, code, attached)
  /\ CodeOK(code)
  /\ CursorOK

FlowInv == TypeInv /\ (Working => Flow)

-----------------------------------------------------------------------------
(* A step replaces the innermost activation, at q, by one that claims the  *)
(* blocks N, and perhaps calls another one, or pops it.                    *)

Replaces(s, t, q, N) ==
  /\ q \in Nat \ {0} /\ q = Len(s) /\ Len(t) \in Nat
  /\ \A k \in 1..(q - 1) : k \in 1..Len(t) /\ t[k] = s[k]
  /\ \A k \in 1..Len(t) : k \in 1..(q - 1) \/ k = q \/ Pending(t[k]) = {}
  /\ IF q \in 1..Len(t) THEN Pending(t[q]) = N ELSE N = {}

LEMMA PendingStep ==
  ASSUME NEW s, NEW t, NEW c, NEW d, NEW cur, NEW new, NEW q, NEW N,
         Replaces(s, t, q, N),
         PendingOK(s, c, cur),
         Len(c) \in Nat, Len(d) \in Nat, Len(c) <= Len(d), cur \in 1..Len(c),
         \A k \in 1..Len(s) : Pending(s[k]) \subseteq 1..Len(c),
         \A b \in 1..Len(c) : b # cur => d[b] = c[b],
         new = cur \/ ~IsOpen(d[cur]),
         new = cur \/ new \in Pending(s[q]) \/ new \in (Len(c) + 1)..Len(d),
         new \notin N,
         N \subseteq Pending(s[q]) \union ((Len(c) + 1)..Len(d)),
         \A b \in Pending(s[q]) : b \in N \/ b = new,
         \A b \in (Len(c) + 1)..Len(d) : IsOpen(d[b]) => b = new \/ b \in N,
         \A b \in N : b \in (Len(c) + 1)..Len(d) => d[b] = <<>>
  PROVE  PendingOK(t, d, new)
<1>1. /\ q \in 1..Len(s)
      /\ \A k \in 1..Len(s) : k = q \/ k \in 1..(q - 1)
      /\ \A k \in 1..(q - 1) : k # q /\ k \in 1..Len(s)
  BY DEF Replaces
<1>2. /\ \A b \in 1..Len(d) : b \in 1..Len(c) \/ b \in (Len(c) + 1)..Len(d)
      /\ \A b \in 1..Len(c) : b \notin (Len(c) + 1)..Len(d)
  OBVIOUS
<1>3. ASSUME NEW b \in 1..Len(d), IsOpen(d[b])
      PROVE  b = new \/ \E k \in 1..Len(t) : b \in Pending(t[k])
  <2>1. b \in N => q \in 1..Len(t) /\ b \in Pending(t[q])
    BY DEF Replaces
  <2>2. CASE b \in (Len(c) + 1)..Len(d)
    BY <1>3, <2>1, <2>2
  <2>3. CASE b \in 1..Len(c) /\ b = cur
    BY <1>3, <2>3
  <2>4. CASE b \in 1..Len(c) /\ b # cur
    <3>1. PICK k \in 1..Len(s) : b \in Pending(s[k])
      <4>1. IsOpen(c[b])
        BY <1>3, <2>4
      <4> QED
        BY <2>4, <4>1 DEF PendingOK
    <3>2. CASE k = q
      BY <2>1, <3>1, <3>2
    <3>3. CASE k \in 1..(q - 1)
      <4>1. k \in 1..Len(t) /\ t[k] = s[k]
        BY <3>3 DEF Replaces
      <4> QED
        BY <3>1, <4>1
    <3> QED
      BY <1>1, <3>2, <3>3
  <2> QED
    BY <1>2, <2>2, <2>3, <2>4
<1>4. ASSUME NEW k \in 1..Len(t), NEW b \in Pending(t[k])
      PROVE  b # new /\ d[b] = <<>>
  <2>1. ASSUME NEW j \in 1..Len(s), b \in Pending(s[j])
        PROVE  b \in 1..Len(c) /\ b # cur /\ d[b] = <<>>
    BY <2>1 DEF PendingOK
  <2>2. CASE k \in 1..(q - 1)
    <3>1. k \in 1..Len(s) /\ k # q /\ b \in Pending(s[k])
      BY <1>1, <2>2 DEF Replaces
    <3>2. b \notin Pending(s[q])
      BY <1>1, <3>1 DEF PendingOK
    <3> QED
      BY <1>2, <2>1, <3>1, <3>2
  <2>3. CASE k = q
    <3>1. b \in N
      BY <2>3 DEF Replaces
    <3> QED
      BY <1>1, <2>1, <3>1
  <2> QED
    BY <2>2, <2>3 DEF Replaces
<1>5. ASSUME NEW j \in 1..Len(t), NEW k \in 1..Len(t), j # k
      PROVE  Pending(t[j]) \cap Pending(t[k]) = {}
  <2>1. ASSUME NEW i \in 1..(q - 1)
        PROVE  /\ Pending(t[i]) \cap N = {}
               /\ Pending(t[i]) = Pending(s[i])
               /\ i \in 1..Len(s)
    <3>1. i \in 1..Len(s) /\ i # q /\ Pending(t[i]) = Pending(s[i])
      BY <1>1 DEF Replaces
    <3>2. Pending(s[i]) \cap Pending(s[q]) = {}
      BY <1>1, <3>1 DEF PendingOK
    <3>3. Pending(s[i]) \subseteq 1..Len(c)
      BY <3>1
    <3>4. \A b \in Pending(s[i]) : b \notin (Len(c) + 1)..Len(d)
      BY <1>2, <3>3
    <3> QED
      BY <3>1, <3>2, <3>4, Zenon
  <2>2. CASE j \in 1..(q - 1) /\ k \in 1..(q - 1)
    <3>1. Pending(s[j]) \cap Pending(s[k]) = {}
      BY <1>1, <1>5, <2>2 DEF PendingOK
    <3> QED
      BY <2>1, <2>2, <3>1
  <2>3. CASE j = q \/ k = q
    <3>1. Pending(t[q]) = N
      BY <2>3 DEF Replaces
    <3>2. \A i \in 1..Len(t) : i # q => Pending(t[i]) \cap N = {}
      <4>1. \A i \in 1..Len(t) : i \in 1..(q - 1) \/ i = q \/ Pending(t[i]) = {}
        BY DEF Replaces
      <4> QED
        BY <2>1, <4>1
    <3> QED
      BY <1>5, <2>3, <3>1, <3>2
  <2>4. CASE Pending(t[j]) = {} \/ Pending(t[k]) = {}
    BY <2>4
  <2> QED
    BY <2>2, <2>3, <2>4 DEF Replaces
<1> QED
  BY <1>3, <1>4, <1>5 DEF PendingOK

LEMMA AttachedStep ==
  ASSUME NEW s, NEW t, NEW c, NEW d, NEW att, NEW more, NEW q, NEW N,
         Replaces(s, t, q, N),
         AttachedOK(s, c, att),
         Len(c) \in Nat, Len(d) \in Nat, Len(c) <= Len(d),
         att \subseteq more,
         \A b \in Detached(s[q]) : b \in more \/ (q \in 1..Len(t) /\ b \in Detached(t[q])),
         \A b \in (Len(c) + 1)..Len(d) :
           b \in more \/ (q \in 1..Len(t) /\ b \in Detached(t[q]))
  PROVE  AttachedOK(t, d, more)
<1> SUFFICES ASSUME NEW b \in 1..Len(d), b \notin more
             PROVE  \E k \in 1..Len(t) : b \in Detached(t[k])
  BY DEF AttachedOK
<1>1. CASE b \in (Len(c) + 1)..Len(d)
  BY <1>1
<1>2. CASE b \in 1..Len(c)
  <2>1. PICK k \in 1..Len(s) : b \in Detached(s[k])
    BY <1>2 DEF AttachedOK
  <2>2. CASE k = q
    BY <2>1, <2>2
  <2>3. CASE k # q
    <3>1. k \in 1..Len(t) /\ t[k] = s[k]
      BY <2>3 DEF Replaces
    <3> QED
      BY <2>1, <3>1
  <2> QED
    BY <2>2, <2>3
<1> QED
  BY <1>1, <1>2

-----------------------------------------------------------------------------
(* What a call, a return and a resumption do to the stack.                 *)

FrameDistinct(a) ==
  /\ a.at = "if.then" => a.end # a.other
  /\ a.at = "while.cond" => a.end # a.body

LEMMA StackFacts ==
  ASSUME Working, stack # <<>>
  PROVE  /\ stack \in Seq(Frame)
         /\ Len(stack) \in Nat \ {0}
         /\ Len(stack) - 1 \in Nat
         /\ \A k \in 1..Len(stack) : k = Len(stack) \/ k \in 1..(Len(stack) - 1)
         /\ \A k \in 1..(Len(stack) - 1) : k \in 1..Len(stack) /\ k # Len(stack)
         /\ Len(stack) \in 1..Len(stack)
<1>1. stack \in Seq(Frame)
  BY DEF Working, StackOK
<1>2. Len(stack) \in Nat \ {0}
  BY <1>1, EmptySeq
<1> QED
  BY <1>1, <1>2

LEMMA ResumeFacts ==
  ASSUME NEW s \in Seq(Frame), s # <<>>, NEW a \in Frame
  PROVE  /\ Append(SubSeq(s, 1, Len(s) - 1), a) \in Seq(Frame)
         /\ Len(Append(SubSeq(s, 1, Len(s) - 1), a)) = Len(s)
         /\ \A k \in 1..(Len(s) - 1) : Append(SubSeq(s, 1, Len(s) - 1), a)[k] = s[k]
         /\ Append(SubSeq(s, 1, Len(s) - 1), a)[Len(s)] = a
  BY ReplaceFacts, Zenon

LEMMA ReturnShape ==
  ASSUME Working, stack # <<>>, Flow, stack' = Return
  PROVE  /\ Replaces(stack, stack', Len(stack), {})
         /\ CallsOK(stack') /\ BottomOK(stack') /\ DistinctOK(stack')
         /\ Len(stack) \notin 1..Len(stack')
         /\ Top.at = "function.end" <=> stack' = <<>>
         /\ Top.at \notin {"expr", "function.end"} => Expects(stack'[Len(stack')])
<1>1. /\ stack' \in Seq(Frame)
      /\ Len(stack') = Len(stack) - 1
      /\ \A k \in 1..(Len(stack) - 1) : stack'[k] = stack[k]
  BY StackFacts, PopFacts, Zenon DEF Return, Below
<1>2. CallsOK(stack) /\ BottomOK(stack) /\ DistinctOK(stack)
  BY DEF Flow
<1>3. Replaces(stack, stack', Len(stack), {})
  BY <1>1, StackFacts DEF Replaces
<1>4. CallsOK(stack')
  <2> SUFFICES ASSUME NEW k \in 1..Len(stack'), k + 1 \in 1..Len(stack')
               PROVE  stack'[k + 1].at = "expr" \/ Expects(stack'[k])
    BY DEF CallsOK
  <2>1. stack'[k] = stack[k] /\ stack'[k + 1] = stack[k + 1]
    BY <1>1
  <2>2. k \in 1..Len(stack) /\ k + 1 \in 1..Len(stack)
    BY <1>1, StackFacts
  <2> QED
    BY <1>2, <2>1, <2>2 DEF CallsOK
<1>5. BottomOK(stack') /\ DistinctOK(stack')
  <2>1. \A k \in 1..Len(stack') : k \in 1..Len(stack) /\ stack'[k] = stack[k]
    BY <1>1, StackFacts
  <2>2. BottomOK(stack')
    BY <1>2, <2>1, Zenon DEF BottomOK
  <2>3. DistinctOK(stack')
    BY <1>2, <2>1, Zenon DEF DistinctOK
  <2> QED
    BY <2>2, <2>3
<1>6. Len(stack) \notin 1..Len(stack')
  BY <1>1, StackFacts
<1>7. stack' = <<>> <=> Len(stack) = 1
  BY <1>1, StackFacts, EmptySeq
<1>8. Top.at = "function.end" <=> Len(stack) = 1
  <2>1. Len(stack) \in 1..Len(stack)
    BY StackFacts
  <2> QED
    BY <1>2, <2>1, Zenon DEF BottomOK, Top
<1>9. ASSUME Top.at \notin {"expr", "function.end"}
      PROVE  Expects(stack'[Len(stack')])
  <2>1. /\ Len(stack) - 1 \in 1..(Len(stack) - 1)
        /\ Len(stack) - 1 + 1 = Len(stack)
        /\ Len(stack) - 1 \in 1..Len(stack)
        /\ Len(stack) \in 1..Len(stack)
    <3>1. Len(stack) \in Nat \ {0} /\ Len(stack) # 1
      BY <1>8, <1>9, StackFacts
    <3>2. \A n \in Nat \ {0} :
            n # 1 => n - 1 \in 1..(n - 1) /\ n - 1 + 1 = n /\ n - 1 \in 1..n /\ n \in 1..n
      OBVIOUS
    <3> QED
      BY <3>1, <3>2, Zenon
  <2>2. Expects(stack[Len(stack) - 1])
    BY <1>2, <1>9, <2>1 DEF CallsOK, Top
  <2> QED
    BY <1>1, <2>1, <2>2
<1> QED
  BY <1>3, <1>4, <1>5, <1>6, <1>7, <1>8, <1>9

LEMMA ResumeShape ==
  ASSUME Working, stack # <<>>, Flow, NEW a \in Frame, stack' = Resume(a),
         Top.at = "expr" => a.at = "expr",
         Top.at = "function.end" <=> a.at = "function.end",
         FrameDistinct(a)
  PROVE  /\ Replaces(stack, stack', Len(stack), Pending(a))
         /\ CallsOK(stack') /\ BottomOK(stack') /\ DistinctOK(stack')
         /\ stack' \in Seq(Frame)
         /\ Len(stack') = Len(stack)
         /\ stack'[Len(stack)] = a
<1>1. /\ stack' \in Seq(Frame)
      /\ Len(stack') = Len(stack)
      /\ \A k \in 1..(Len(stack) - 1) : stack'[k] = stack[k]
      /\ stack'[Len(stack)] = a
  BY StackFacts, ResumeFacts, Zenon DEF Resume, Below
<1>2. CallsOK(stack) /\ BottomOK(stack) /\ DistinctOK(stack)
  BY DEF Flow
<1>3. Replaces(stack, stack', Len(stack), Pending(a))
  BY <1>1, StackFacts DEF Replaces
<1>4. CallsOK(stack')
  <2> SUFFICES ASSUME NEW k \in 1..Len(stack'), k + 1 \in 1..Len(stack')
               PROVE  stack'[k + 1].at = "expr" \/ Expects(stack'[k])
    BY DEF CallsOK
  <2>1. /\ k \in 1..(Len(stack) - 1)
        /\ k \in 1..Len(stack) /\ k + 1 \in 1..Len(stack)
    BY <1>1, StackFacts
  <2>2. stack'[k] = stack[k]
    BY <1>1, <2>1
  <2>3. stack[k + 1].at = "expr" \/ Expects(stack[k])
    BY <1>2, <2>1 DEF CallsOK
  <2>4. CASE k + 1 = Len(stack)
    BY <1>1, <2>2, <2>3, <2>4 DEF Top
  <2>5. CASE k + 1 # Len(stack)
    <3>1. k + 1 \in 1..(Len(stack) - 1)
      BY <2>1, <2>5, StackFacts
    <3> QED
      BY <1>1, <2>2, <2>3, <3>1
  <2> QED
    BY <2>4, <2>5
<1>5. BottomOK(stack')
  BY <1>1, <1>2, StackFacts DEF BottomOK, Top
<1>6. DistinctOK(stack')
  BY <1>1, <1>2, StackFacts DEF DistinctOK, FrameDistinct
<1> QED
  BY <1>1, <1>3, <1>4, <1>5, <1>6


LEMMA CallShape ==
  ASSUME Working, stack # <<>>, Flow, NEW a \in Frame, NEW b \in Frame,
         stack' = CallFrom(a, b),
         Top.at = "expr" => a.at = "expr",
         Top.at = "function.end" <=> a.at = "function.end",
         FrameDistinct(a), FrameDistinct(b),
         b.at # "function.end", Pending(b) = {},
         b.at = "expr" \/ Expects(a)
  PROVE  /\ Replaces(stack, stack', Len(stack), Pending(a))
         /\ CallsOK(stack') /\ BottomOK(stack') /\ DistinctOK(stack')
         /\ stack' # <<>> /\ stack'[Len(stack')] = b
         /\ Len(stack) \in 1..Len(stack') /\ stack'[Len(stack)] = a
<1> DEFINE n == Len(stack)
           s == Append(Below, a)
<1>1. n \in Nat \ {0} /\ stack \in Seq(Frame)
  BY StackFacts
<1>2. /\ s \in Seq(Frame)
      /\ Len(s) = n
      /\ \A k \in 1..(n - 1) : s[k] = stack[k]
      /\ s[n] = a
  BY StackFacts, ResumeFacts, Zenon DEF Below
<1>3. stack' = Append(s, b)
  BY DEF CallFrom
<1> HIDE DEF s
<1>4. /\ stack' \in Seq(Frame)
      /\ Len(stack') = n + 1
      /\ \A k \in 1..n : stack'[k] = s[k]
      /\ stack'[n + 1] = b
  BY <1>1, <1>2, <1>3, AppendProperties
<1> HIDE DEF n
<1>5. /\ \A k \in 1..(n - 1) : stack'[k] = stack[k]
      /\ stack'[n] = a
  BY <1>1, <1>2, <1>4
<1>6. CallsOK(stack) /\ BottomOK(stack) /\ DistinctOK(stack) /\ n = Len(stack)
  BY DEF Flow, n
<1>7. /\ \A k \in 1..(n + 1) : k \in 1..(n - 1) \/ k = n \/ k = n + 1
      /\ \A k \in 1..(n - 1) : k \in 1..n /\ k + 1 \in 1..n
      /\ n \in 1..(n + 1) /\ n \in 1..n /\ n + 1 # 1
      /\ \A k \in 1..n : k \in 1..(n + 1)
  BY <1>1
<1>8. Replaces(stack, stack', n, Pending(a))
  BY <1>1, <1>4, <1>5, <1>6, <1>7 DEF Replaces
<1>9. CallsOK(stack')
  <2> SUFFICES ASSUME NEW k \in 1..Len(stack'), k + 1 \in 1..Len(stack')
               PROVE  stack'[k + 1].at = "expr" \/ Expects(stack'[k])
    BY DEF CallsOK
  <2>1. CASE k \in 1..(n - 1)
    <3>1. stack[k + 1].at = "expr" \/ Expects(stack[k])
      BY <1>6, <1>7, <2>1, Zenon DEF CallsOK
    <3>2. CASE k + 1 = n
      BY <1>5, <1>6, <2>1, <3>1, <3>2 DEF Top
    <3>3. CASE k + 1 \in 1..(n - 1)
      BY <1>5, <2>1, <3>1, <3>3
    <3> QED
      BY <1>1, <2>1, <3>2, <3>3
  <2>2. CASE k = n
    BY <1>4, <1>5, <2>2
  <2> QED
    BY <1>1, <1>4, <2>1, <2>2
<1>10. BottomOK(stack')
  <2> SUFFICES ASSUME NEW k \in 1..(n + 1)
               PROVE  stack'[k].at = "function.end" <=> k = 1
    BY <1>4 DEF BottomOK
  <2>1. \A j \in 1..n : stack[j].at = "function.end" <=> j = 1
    BY <1>6 DEF BottomOK
  <2>2. CASE k \in 1..(n - 1)
    BY <1>5, <1>7, <2>1, <2>2, Zenon
  <2>3. CASE k = n
    BY <1>5, <1>6, <1>7, <2>1, <2>3, Zenon DEF Top
  <2>4. CASE k = n + 1
    BY <1>4, <1>7, <2>4, Zenon
  <2> QED
    BY <1>7, <2>2, <2>3, <2>4, Zenon
<1>11. DistinctOK(stack')
  <2> SUFFICES ASSUME NEW k \in 1..(n + 1)
               PROVE  FrameDistinct(stack'[k])
    BY <1>4 DEF DistinctOK, FrameDistinct
  <2>1. \A j \in 1..n : FrameDistinct(stack[j])
    BY <1>6 DEF DistinctOK, FrameDistinct
  <2> QED
    BY <1>4, <1>5, <1>7, <2>1, Zenon
<1>12. stack' # <<>>
  BY <1>1, <1>4
<1> QED
  BY <1>4, <1>5, <1>6, <1>7, <1>8, <1>9, <1>10, <1>11, <1>12, Zenon

-----------------------------------------------------------------------------
(* Blocks.                                                                 *)

(* No block that is closed is written (the step form of ClosedStays).      *)
Keeps ==
  \A b \in Blocks : ~IsOpen(code[b]) => b \in 1..Len(code') /\ code'[b] = code[b]

LEMMA AppendBlock ==
  ASSUME NEW s \in Seq(Instructions), NEW i \in Instructions,
         NEW m \in Nat, NEW n \in Nat, m <= n,
         BlockOK(s, m), IsOpen(s), \A t \in 1..Len(i.to) : i.to[t] \in 1..n
  PROVE  BlockOK(Append(s, i), n) /\ (IsOpen(Append(s, i)) <=> ~IsTerminator(i))
<1>1. PICK k \in Nat : k = Len(s)
  BY LenProperties
<1> DEFINE u == Append(s, i)
<1>2. /\ Len(u) = k + 1
      /\ \A j \in 1..k : u[j] = s[j]
      /\ u[k + 1] = i
      /\ u \in Seq(Instructions)
  BY <1>1, AppendProperties
<1>3. u # <<>>
  BY <1>1, <1>2
<1> HIDE DEF u
<1>4. \A j \in 1..k : ~IsTerminator(s[j])
  <2> SUFFICES ASSUME NEW j \in 1..k, IsTerminator(s[j])
               PROVE  FALSE
    OBVIOUS
  <2>1. j = k
    BY <1>1 DEF BlockOK
  <2>2. s # <<>>
    BY <1>1, <2>1
  <2> QED
    BY <1>1, <2>1, <2>2 DEF IsOpen
<1>5. \A j \in 1..(k + 1) : j \in 1..k \/ j = k + 1
  BY <1>1
<1>6. 1..m \subseteq 1..n
  OBVIOUS
<1>7. BlockOK(u, n)
  <2> SUFFICES ASSUME NEW j \in 1..(k + 1)
               PROVE  /\ IsTerminator(u[j]) => j = k + 1
                      /\ \A t \in 1..Len(u[j].to) : u[j].to[t] \in 1..n
    BY <1>2 DEF BlockOK
  <2>1. CASE j \in 1..k
    <3>1. \A t \in 1..Len(s[j].to) : s[j].to[t] \in 1..m
      BY <1>1, <2>1 DEF BlockOK
    <3> QED
      BY <1>2, <1>4, <1>6, <2>1, <3>1, Zenon
  <2>2. CASE j = k + 1
    BY <1>2, <2>2, Zenon
  <2> QED
    BY <1>5, <2>1, <2>2
<1>8. IsOpen(u) <=> ~IsTerminator(i)
  BY <1>2, <1>3, Zenon DEF IsOpen
<1> QED
  BY <1>7, <1>8 DEF u

(* The cursor's block gets an instruction while it is open, other blocks   *)
(* of before stay, and those that are new are in order.                    *)
LEMMA CodeStep ==
  ASSUME Working, Flow, blockOpen, NEW i \in Instructions,
         Len(code') \in Nat, Len(code) <= Len(code'),
         \A b \in Blocks : b # cursor => code'[b] = code[b],
         code'[cursor] = Append(code[cursor], i),
         \A t \in 1..Len(i.to) : i.to[t] \in 1..Len(code'),
         \A b \in (Len(code) + 1)..Len(code') : BlockOK(code'[b], Len(code'))
  PROVE  /\ CodeOK(code')
         /\ IsOpen(code'[cursor]) <=> ~IsTerminator(i)
         /\ Keeps
<1>1. Len(code) \in Nat /\ cursor \in 1..Len(code) /\ code[cursor] \in Seq(Instructions)
  BY CodeFacts DEF Blocks
<1>2. \A b \in 1..Len(code) : BlockOK(code[b], Len(code))
  BY DEF Flow, CodeOK
<1>3. 1..Len(code) \subseteq 1..Len(code')
  BY <1>1
<1>4. \A b \in 1..Len(code) : BlockOK(code[b], Len(code'))
  BY <1>2, <1>3, Zenon DEF BlockOK
<1>5. /\ BlockOK(code'[cursor], Len(code'))
      /\ IsOpen(code'[cursor]) <=> ~IsTerminator(i)
  <2>1. BlockOK(code[cursor], Len(code)) /\ IsOpen(code[cursor])
    BY <1>1, <1>2 DEF blockOpen
  <2> QED
    BY <1>1, <2>1, AppendBlock
<1>6. \A b \in 1..Len(code') : b \in 1..Len(code) \/ b \in (Len(code) + 1)..Len(code')
  BY <1>1
<1>7. CodeOK(code')
  BY <1>4, <1>5, <1>6, Zenon DEF CodeOK, Blocks
<1>8. Keeps
  BY <1>3, Zenon DEF Keeps, Blocks, blockOpen
<1> QED
  BY <1>5, <1>7, <1>8

LEMMA PendingBlocks ==
  ASSUME Working, NEW k \in 1..Len(stack)
  PROVE  Pending(stack[k]) \subseteq 1..Len(code)
<1>1. BlocksOK(stack[k], Len(code))
  BY DEF Working, StackOK, FrameOK
<1> QED
  BY <1>1 DEF BlocksOK, Pending

-----------------------------------------------------------------------------
(* Steps that leave the blocks and the cursor alone.                       *)

LEMMA QuietStep ==
  ASSUME Working, stack # <<>>, Flow, UNCHANGED <<code, attached, cursor>>,
         Replaces(stack, stack', Len(stack), {}),
         Pending(Top) = {}, Detached(Top) = {},
         CallsOK(stack'), BottomOK(stack'), DistinctOK(stack'),
         IF stack' = <<>> THEN ~blockOpen
         ELSE ~Expects(stack'[Len(stack')]) => blockOpen
  PROVE  Flow' /\ Keeps
<1>1. Len(code) \in Nat /\ cursor \in 1..Len(code)
  BY CodeFacts
<1>2. PendingOK(stack, code, cursor) /\ AttachedOK(stack, code, attached) /\ CodeOK(code)
  BY DEF Flow
<1>3. (Len(code) + 1)..Len(code) = {}
  BY <1>1
<1>4. PendingOK(stack', code, cursor)
  <2>1. cursor \notin {} /\ {} \subseteq Pending(stack[Len(stack)]) \union {}
    OBVIOUS
  <2>2. Pending(stack[Len(stack)]) = {}
    BY DEF Top
  <2>3. Len(code) <= Len(code)
    BY <1>1
  <2> QED
    BY <1>1, <1>2, <1>3, <2>1, <2>2, <2>3, PendingBlocks, PendingStep
<1>5. AttachedOK(stack', code, attached)
  BY <1>1, <1>2, <1>3, AttachedStep DEF Top
<1>6. CursorOK'
  BY DEF CursorOK, Top, blockOpen
<1>7. Keeps
  BY DEF Keeps, Blocks
<1> QED
  BY <1>2, <1>4, <1>5, <1>6, <1>7 DEF Flow

(* A new activation claims nothing and expects nothing.                    *)
NewFrame(b) ==
  /\ b \in Frame /\ FrameDistinct(b)
  /\ Pending(b) = {} /\ Detached(b) = {}
  /\ b.at \notin {"function", "function.end"}
  /\ ~Expects(b)

LEMMA NewStmtFrame ==
  ASSUME NEW stmt \in Stmt
  PROVE  NewFrame(emitStmt(stmt))
<1>1. stmt.kind \in {"compound", "exprstmt", "if", "while", "return"}
  BY SyntaxAssumption DEF StmtShape
<1>2. emitStmt(stmt) \in Frame
  BY <1>1 DEF emitStmt, Activation, Frame, Labels
<1> QED
  BY <1>1, <1>2 DEF emitStmt, Activation, NewFrame, FrameDistinct, Pending, Detached, Expects

LEMMA NewExprFrame ==
  ASSUME NEW expr \in Expr
  PROVE  NewFrame(emitExpr(expr)) /\ emitExpr(expr).at = "expr"
<1>1. emitExpr(expr) \in Frame
  BY DEF emitExpr, Activation, Frame, Labels
<1> QED
  BY <1>1 DEF emitExpr, Activation, NewFrame, FrameDistinct, Pending, Detached, Expects

LEMMA QuietCall ==
  ASSUME Working, stack # <<>>, Flow, UNCHANGED <<code, attached, cursor>>,
         NEW a \in Frame, NEW b, NewFrame(b), stack' = CallFrom(a, b),
         Pending(Top) = {}, Detached(Top) = {}, Pending(a) = {}, FrameDistinct(a),
         Top.at = "expr" => a.at = "expr",
         Top.at # "function.end", a.at # "function.end",
         b.at = "expr" \/ Expects(a),
         blockOpen
  PROVE  Flow' /\ Keeps
<1>1. /\ b \in Frame /\ FrameDistinct(b)
      /\ b.at # "function.end" /\ Pending(b) = {}
  BY DEF NewFrame
<1>2. /\ Replaces(stack, stack', Len(stack), {})
      /\ CallsOK(stack') /\ BottomOK(stack') /\ DistinctOK(stack')
      /\ stack' # <<>>
  BY <1>1, CallShape
<1> QED
  BY <1>2, QuietStep

LEMMA QuietReturn ==
  ASSUME Working, stack # <<>>, Flow, UNCHANGED <<code, attached, cursor>>,
         stack' = Return, Pending(Top) = {}, Detached(Top) = {},
         Top.at # "function.end",
         Top.at = "expr" => blockOpen
  PROVE  Flow' /\ Keeps
<1>1. /\ Replaces(stack, stack', Len(stack), {})
      /\ CallsOK(stack') /\ BottomOK(stack') /\ DistinctOK(stack')
      /\ stack' # <<>>
      /\ Top.at # "expr" => Expects(stack'[Len(stack')])
  BY ReturnShape
<1> QED
  BY <1>1, QuietStep

LEMMA AdvancedFacts ==
  ASSUME Working, stack # <<>>
  PROVE  /\ Advanced \in Frame
         /\ Advanced.at = Top.at /\ Advanced.node = Top.node
         /\ Advanced.next = Top.next + 1 /\ Advanced.next > 1
<1>1. Top \in Frame
  BY TopFacts
<1> QED
  BY <1>1 DEF Advanced, Frame

(* What holds of an activation at a point where nothing is claimed.        *)
LEMMA IdleAt ==
  ASSUME NEW a \in Frame,
         a.at \in {"expr", "exprstmt", "compound", "if", "if.cond", "while", "return",
                   "return.value", "function", "function.end"}
  PROVE  Pending(a) = {} /\ Detached(a) = {} /\ FrameDistinct(a)
  BY DEF Pending, Detached, FrameDistinct

LEMMA ExprOpen ==
  ASSUME Flow, stack # <<>>, ~Expects(Top)
  PROVE  blockOpen
  BY DEF Flow, CursorOK

LEMMA EmitSubexprFlow ==
  ASSUME Working, Flow, EmitSubexpr
  PROVE  Flow' /\ Keeps
<1>1. /\ stack # <<>> /\ Top.at = "expr"
      /\ stack' = CallFrom(Advanced, emitExpr(Part.of))
      /\ UNCHANGED <<code, attached, cursor>>
  BY DEF EmitSubexpr, AtPart, At
<1>2. Part.of \in Expr
  BY PartFacts DEF EmitSubexpr, AtPart
<1>3. Advanced \in Frame /\ Advanced.at = "expr" /\ Top \in Frame
  BY <1>1, AdvancedFacts, TopFacts
<1>4. blockOpen
  BY <1>1, ExprOpen DEF Expects
<1>5. /\ Pending(Top) = {} /\ Detached(Top) = {}
      /\ Pending(Advanced) = {} /\ FrameDistinct(Advanced)
  BY <1>1, <1>3, IdleAt
<1>6. NewFrame(emitExpr(Part.of)) /\ emitExpr(Part.of).at = "expr"
  BY <1>2, NewExprFrame
<1> QED
  BY <1>1, <1>3, <1>4, <1>5, <1>6, QuietCall

LEMMA SkipCheckFlow ==
  ASSUME Working, Flow, SkipCheck
  PROVE  Flow' /\ Keeps
<1>1. /\ stack # <<>> /\ Top.at = "expr"
      /\ stack' = Resume(Advanced)
      /\ UNCHANGED <<code, attached, cursor>>
  BY DEF SkipCheck, AtPart, At
<1>2. Advanced \in Frame /\ Advanced.at = "expr" /\ Top \in Frame
  BY <1>1, AdvancedFacts, TopFacts
<1>3. blockOpen
  BY <1>1, ExprOpen DEF Expects
<1>4. /\ Pending(Top) = {} /\ Detached(Top) = {}
      /\ Pending(Advanced) = {} /\ FrameDistinct(Advanced)
  BY <1>1, <1>2, IdleAt
<1>5. /\ Replaces(stack, stack', Len(stack), {})
      /\ CallsOK(stack') /\ BottomOK(stack') /\ DistinctOK(stack')
      /\ Len(stack') = Len(stack)
  BY <1>1, <1>2, <1>4, ResumeShape
<1>6. stack' # <<>>
  BY <1>5, StackFacts, <1>1
<1> QED
  BY <1>1, <1>3, <1>4, <1>5, <1>6, QuietStep

LEMMA EndExprFlow ==
  ASSUME Working, Flow, EndExpr
  PROVE  Flow' /\ Keeps
<1>1. /\ stack # <<>> /\ Top.at = "expr" /\ stack' = Return
      /\ UNCHANGED <<code, attached, cursor>>
  BY DEF EndExpr, At
<1>2. blockOpen
  BY <1>1, ExprOpen DEF Expects
<1>3. Pending(Top) = {} /\ Detached(Top) = {}
  BY <1>1, TopFacts, IdleAt
<1> QED
  BY <1>1, <1>2, <1>3, QuietReturn

LEMMA EndCompoundFlow ==
  ASSUME Working, Flow, EndCompound
  PROVE  Flow' /\ Keeps
<1>1. /\ stack # <<>> /\ Top.at = "compound" /\ stack' = Return
      /\ UNCHANGED <<code, attached, cursor>>
  BY DEF EndCompound, At
<1>2. Pending(Top) = {} /\ Detached(Top) = {}
  BY <1>1, TopFacts, IdleAt
<1> QED
  BY <1>1, <1>2, QuietReturn

LEMMA EmitExprStmtFlow ==
  ASSUME Working, Flow, EmitExprStmt
  PROVE  Flow' /\ Keeps
<1>1. /\ stack # <<>> /\ Top.at = "exprstmt" /\ Top \in Frame
      /\ stack' = IF Top.node.expr = None THEN Return ELSE Resume(emitExpr(Top.node.expr))
      /\ UNCHANGED <<code, attached, cursor>>
  BY TopFacts DEF EmitExprStmt, At
<1>2. Pending(Top) = {} /\ Detached(Top) = {}
  BY <1>1, IdleAt
<1>3. CASE Top.node.expr = None
  BY <1>1, <1>2, <1>3, QuietReturn
<1>4. CASE Top.node.expr # None
  <2>1. Top.node.expr \in Expr
    <3>1. StmtShape(Top.node) /\ Top.node.kind = "exprstmt"
      BY <1>1, NodeFacts DEF StatementOf
    <3> QED
      BY <1>4, <3>1 DEF StmtShape
  <2> DEFINE a == emitExpr(Top.node.expr)
  <2>2. NewFrame(a) /\ a.at = "expr"
    BY <2>1, NewExprFrame
  <2>3. stack' = Resume(a)
    BY <1>1, <1>4
  <2>4. a \in Frame /\ Pending(a) = {} /\ FrameDistinct(a)
    BY <2>2 DEF NewFrame
  <2> HIDE DEF a
  <2>5. /\ Replaces(stack, stack', Len(stack), {})
        /\ CallsOK(stack') /\ BottomOK(stack') /\ DistinctOK(stack')
        /\ Len(stack') = Len(stack)
    BY <1>1, <2>2, <2>3, <2>4, ResumeShape
  <2>6. stack' # <<>>
    BY <2>5, StackFacts, <1>1
  <2>7. blockOpen
    BY <1>1, ExprOpen DEF Expects
  <2> QED
    BY <1>1, <1>2, <2>5, <2>6, <2>7, QuietStep
<1> QED
  BY <1>3, <1>4

LEMMA EmitCompoundFlow ==
  ASSUME Working, Flow, EmitCompound
  PROVE  Flow' /\ Keeps
<1>1. /\ stack # <<>> /\ Top.at = "compound" /\ Top \in Frame
      /\ Top.next <= Len(Top.node.stmts)
      /\ Top.next > 1 => blockOpen
      /\ stack' = CallFrom(Advanced, emitStmt(Top.node.stmts[Top.next]))
      /\ UNCHANGED <<code, attached, cursor>>
  BY TopFacts DEF EmitCompound, CompoundGoesOn, At
<1>2. Top.node.stmts[Top.next] \in Stmt
  <2>1. StmtShape(Top.node) /\ Top.node.kind = "compound"
    BY <1>1, NodeFacts DEF StatementOf
  <2>2. Top.node.stmts \in Seq(Stmt)
    BY <2>1 DEF StmtShape
  <2>3. Top.next \in 1..Len(Top.node.stmts)
    BY <1>1, <2>2, LenProperties DEF Frame
  <2> QED
    BY <2>2, <2>3, ElementOfSeq
<1>3. Advanced \in Frame /\ Advanced.at = "compound" /\ Expects(Advanced)
  BY <1>1, AdvancedFacts DEF Expects
<1>4. /\ Pending(Top) = {} /\ Detached(Top) = {}
      /\ Pending(Advanced) = {} /\ FrameDistinct(Advanced)
  BY <1>1, <1>3, IdleAt
<1>5. blockOpen
  BY <1>1, ExprOpen DEF Expects
<1>6. NewFrame(emitStmt(Top.node.stmts[Top.next]))
  BY <1>2, NewStmtFrame
<1> QED
  BY <1>1, <1>3, <1>4, <1>5, <1>6, QuietCall

LEMMA EmitCondFlow ==
  ASSUME Working, Flow, stack # <<>>, Top.at \in {"if", "return"},
         UNCHANGED <<code, attached, cursor>>,
         NEW label \in {"if.cond", "return.value"}, NEW e \in Expr,
         stack' = CallFrom([Top EXCEPT !.at = label], emitExpr(e))
  PROVE  Flow' /\ Keeps
<1>1. Top \in Frame
  BY TopFacts
<1> DEFINE a == [Top EXCEPT !.at = label]
<1>2. a \in Frame /\ a.at = label
  BY <1>1 DEF Frame, Labels
<1> HIDE DEF a
<1>3. /\ Pending(Top) = {} /\ Detached(Top) = {}
      /\ Pending(a) = {} /\ FrameDistinct(a)
  BY <1>1, <1>2, IdleAt
<1>4. blockOpen
  BY ExprOpen DEF Expects
<1>5. NewFrame(emitExpr(e)) /\ emitExpr(e).at = "expr"
  BY NewExprFrame
<1>6. stack' = CallFrom(a, emitExpr(e))
  BY DEF a
<1> QED
  BY <1>2, <1>3, <1>4, <1>5, <1>6, QuietCall

LEMMA EmitIfFlow ==
  ASSUME Working, Flow, EmitIf
  PROVE  Flow' /\ Keeps
<1>1. /\ stack # <<>> /\ Top.at = "if"
      /\ stack' = CallFrom([Top EXCEPT !.at = "if.cond"], emitExpr(Top.node.cond))
      /\ UNCHANGED <<code, attached, cursor>>
  BY DEF EmitIf, At
<1>2. Top.node.cond \in Expr
  BY <1>1, NodeFacts DEF StatementOf, StmtShape
<1> QED
  BY <1>1, <1>2, EmitCondFlow

LEMMA EmitReturnValueFlow ==
  ASSUME Working, Flow, EmitReturnValue
  PROVE  Flow' /\ Keeps
<1>1. /\ stack # <<>> /\ Top.at = "return" /\ Top.node.value # None
      /\ stack' = CallFrom([Top EXCEPT !.at = "return.value"], emitExpr(Top.node.value))
      /\ UNCHANGED <<code, attached, cursor>>
  BY DEF EmitReturnValue, At
<1>2. Top.node.value \in Expr
  BY <1>1, NodeFacts DEF StatementOf, StmtShape
<1> QED
  BY <1>1, <1>2, EmitCondFlow

-----------------------------------------------------------------------------
(* Steps that write in the cursor's block and leave the cursor there.      *)

LEMMA WriteStep ==
  ASSUME Working, stack # <<>>, Flow, blockOpen, NEW i \in Instructions, Emit(i),
         \A t \in 1..Len(i.to) : i.to[t] \in Blocks,
         UNCHANGED <<attached, cursor>>,
         Replaces(stack, stack', Len(stack), {}),
         Pending(Top) = {}, Detached(Top) = {},
         CallsOK(stack'), BottomOK(stack'), DistinctOK(stack'),
         IF stack' = <<>> THEN IsTerminator(i)
         ELSE ~Expects(stack'[Len(stack')]) => ~IsTerminator(i)
  PROVE  Flow' /\ Keeps
<1>1. Len(code) \in Nat /\ cursor \in 1..Len(code)
  BY CodeFacts
<1>2. /\ Len(code') = Len(code)
      /\ \A b \in Blocks : b # cursor => code'[b] = code[b]
      /\ code'[cursor] = Append(code[cursor], i)
  BY EmitFacts
<1>3. (Len(code) + 1)..Len(code') = {} /\ Len(code') \in Nat /\ Len(code) <= Len(code')
  BY <1>1, <1>2
<1>4. /\ CodeOK(code')
      /\ IsOpen(code'[cursor]) <=> ~IsTerminator(i)
      /\ Keeps
  BY <1>2, <1>3, CodeStep DEF Blocks
<1>5. PendingOK(stack, code, cursor) /\ AttachedOK(stack, code, attached)
  BY DEF Flow
<1>6. PendingOK(stack', code', cursor)
  <2>1. Pending(stack[Len(stack)]) = {}
    BY DEF Top
  <2>2. cursor \notin {} /\ {} \subseteq Pending(stack[Len(stack)]) \union {}
    OBVIOUS
  <2> QED
    BY <1>1, <1>2, <1>3, <1>5, <2>1, <2>2, PendingBlocks, PendingStep DEF Blocks
<1>7. AttachedOK(stack', code', attached)
  BY <1>1, <1>3, <1>5, AttachedStep DEF Top
<1>8. CursorOK'
  <2>1. blockOpen' <=> IsOpen(code'[cursor])
    BY DEF blockOpen
  <2> QED
    BY <1>4, <2>1 DEF CursorOK, Top
<1> QED
  BY <1>4, <1>6, <1>7, <1>8 DEF Flow

LEMMA EmitInstructionFlow ==
  ASSUME Working, Flow, EmitInstruction
  PROVE  Flow' /\ Keeps
<1>1. /\ stack # <<>> /\ Top.at = "expr"
      /\ stack' = Resume(Advanced)
      /\ Emit(Part.of)
      /\ UNCHANGED <<attached, cursor>>
  BY DEF EmitInstruction, AtPart, At
<1>2. Part.of \in Plain
  BY PartFacts DEF EmitInstruction, AtPart
<1>3. /\ Part.of \in Instructions /\ ~IsTerminator(Part.of)
      /\ \A t \in 1..Len(Part.of.to) : Part.of.to[t] \in Blocks
  BY <1>2 DEF Plain
<1>4. Advanced \in Frame /\ Advanced.at = "expr" /\ Top \in Frame
  BY <1>1, AdvancedFacts, TopFacts
<1>5. blockOpen
  BY <1>1, ExprOpen DEF Expects
<1>6. /\ Pending(Top) = {} /\ Detached(Top) = {}
      /\ Pending(Advanced) = {} /\ FrameDistinct(Advanced)
  BY <1>1, <1>4, IdleAt
<1>7. /\ Replaces(stack, stack', Len(stack), {})
      /\ CallsOK(stack') /\ BottomOK(stack') /\ DistinctOK(stack')
      /\ Len(stack') = Len(stack)
  BY <1>1, <1>4, <1>6, ResumeShape
<1>8. stack' # <<>>
  BY <1>7, StackFacts, <1>1
<1> QED
  BY <1>1, <1>3, <1>5, <1>6, <1>7, <1>8, WriteStep

LEMMA RetFacts ==
  ASSUME NEW v \in {"void", "value", "zero"}
  PROVE  /\ Ret(v) \in Instructions /\ IsTerminator(Ret(v))
         /\ \A t \in 1..Len(Ret(v).to) : Ret(v).to[t] \in Blocks
<1>1. Ret(v) \in Instructions
  BY RetInstructions
<1>2. IsTerminator(Ret(v)) /\ Ret(v).to = <<>>
  BY DEF Ret, Instruction, IsTerminator
<1> QED
  BY <1>1, <1>2

LEMMA EmitReturnFlow ==
  ASSUME Working, Flow, EmitReturn
  PROVE  Flow' /\ Keeps
<1>1. /\ stack # <<>> /\ Top.at \in {"return", "return.value"} /\ Top \in Frame
      /\ stack' = Return
      /\ UNCHANGED <<attached, cursor>>
  BY TopFacts DEF EmitReturn, At
<1>2. PICK v \in {"void", "value", "zero"} : Emit(Ret(v))
  BY DEF EmitReturn
<1>3. blockOpen
  BY <1>1, ExprOpen DEF Expects
<1>4. Pending(Top) = {} /\ Detached(Top) = {}
  BY <1>1, IdleAt
<1>5. /\ Replaces(stack, stack', Len(stack), {})
      /\ CallsOK(stack') /\ BottomOK(stack') /\ DistinctOK(stack')
      /\ stack' # <<>>
      /\ Expects(stack'[Len(stack')])
  BY <1>1, ReturnShape
<1> QED
  BY <1>1, <1>2, <1>3, <1>4, <1>5, RetFacts, WriteStep

LEMMA EndFunctionFlow ==
  ASSUME Working, Flow, EndFunction
  PROVE  Flow' /\ Keeps
<1>1. /\ stack # <<>> /\ Top.at = "function.end" /\ Top \in Frame
      /\ stack' = Return
      /\ UNCHANGED <<attached, cursor>>
  BY TopFacts DEF EndFunction, At
<1>2. Pending(Top) = {} /\ Detached(Top) = {}
  BY <1>1, IdleAt
<1>3. /\ Replaces(stack, stack', Len(stack), {})
      /\ CallsOK(stack') /\ BottomOK(stack') /\ DistinctOK(stack')
      /\ stack' = <<>>
  BY <1>1, ReturnShape
<1>4. CASE blockOpen
  <2>1. PICK v \in {"void", "value", "zero"} : Emit(Ret(v))
    BY <1>4 DEF EndFunction
  <2> QED
    BY <1>1, <1>2, <1>3, <1>4, <2>1, RetFacts, WriteStep
<1>5. CASE ~blockOpen
  <2>1. UNCHANGED code
    BY <1>5 DEF EndFunction
  <2> QED
    BY <1>1, <1>2, <1>3, <1>5, <2>1, QuietStep
<1> QED
  BY <1>4, <1>5

-----------------------------------------------------------------------------
(* Steps that close the cursor's block and go on in a pending one.         *)

LEMMA TakeStep ==
  ASSUME Working, stack # <<>>, Flow,
         Len(code') = Len(code), CodeOK(code'), ~IsOpen(code'[cursor]), Keeps,
         \A b \in Blocks : b # cursor => code'[b] = code[b],
         cursor' \in Pending(Top),
         Replaces(stack, stack', Len(stack), Pending(Top) \ {cursor'}),
         CallsOK(stack'), BottomOK(stack'), DistinctOK(stack'), stack' # <<>>,
         attached \subseteq attached',
         \A b \in Detached(Top) :
           b \in attached' \/ (Len(stack) \in 1..Len(stack') /\ b \in Detached(stack'[Len(stack)]))
  PROVE  Flow' /\ Keeps
<1>1. Len(code) \in Nat /\ cursor \in 1..Len(code)
  BY CodeFacts
<1>2. (Len(code) + 1)..Len(code') = {} /\ Len(code') \in Nat /\ Len(code) <= Len(code')
  BY <1>1
<1>3. PendingOK(stack, code, cursor) /\ AttachedOK(stack, code, attached)
  BY DEF Flow
<1>4. PendingOK(stack', code', cursor')
  <2> DEFINE N == Pending(Top) \ {cursor'}
  <2>1. /\ cursor' \notin N
        /\ N \subseteq Pending(stack[Len(stack)]) \union ((Len(code) + 1)..Len(code'))
        /\ \A b \in Pending(stack[Len(stack)]) : b \in N \/ b = cursor'
        /\ cursor' \in Pending(stack[Len(stack)])
    BY DEF Top
  <2>2. Replaces(stack, stack', Len(stack), N)
    OBVIOUS
  <2> HIDE DEF N
  <2> QED
    BY <1>1, <1>2, <1>3, <2>1, <2>2, PendingBlocks, PendingStep DEF Blocks
<1>5. AttachedOK(stack', code', attached')
  BY <1>1, <1>2, <1>3, AttachedStep DEF Top
<1>6. CursorOK'
  <2>1. Len(stack) \in 1..Len(stack)
    BY StackFacts
  <2>2. cursor' # cursor /\ code[cursor'] = <<>>
    BY <1>3, <2>1 DEF PendingOK, Top
  <2>3. cursor' \in Blocks
    BY <2>1, PendingBlocks DEF Top, Blocks
  <2>4. code'[cursor'] = <<>>
    BY <2>2, <2>3
  <2> QED
    BY <2>4 DEF CursorOK, blockOpen, IsOpen
<1> QED
  BY <1>4, <1>5, <1>6 DEF Flow

(* A branch written in the open block of the cursor closes it.             *)
LEMMA BranchStep ==
  ASSUME Working, Flow, blockOpen, NEW i \in Instructions, IsTerminator(i), Emit(i),
         \A t \in 1..Len(i.to) : i.to[t] \in Blocks
  PROVE  /\ Len(code') = Len(code) /\ CodeOK(code') /\ ~IsOpen(code'[cursor]) /\ Keeps
         /\ \A b \in Blocks : b # cursor => code'[b] = code[b]
<1>1. Len(code) \in Nat
  BY CodeFacts
<1>2. /\ Len(code') = Len(code)
      /\ \A b \in Blocks : b # cursor => code'[b] = code[b]
      /\ code'[cursor] = Append(code[cursor], i)
  BY EmitFacts
<1>3. (Len(code) + 1)..Len(code') = {} /\ Len(code') \in Nat /\ Len(code) <= Len(code')
  BY <1>1, <1>2
<1> QED
  BY <1>2, <1>3, CodeStep DEF Blocks

LEMMA BrFacts ==
  ASSUME Working, NEW a \in Blocks, NEW b \in Blocks
  PROVE  /\ Br(a) \in Instructions /\ IsTerminator(Br(a))
         /\ \A t \in 1..Len(Br(a).to) : Br(a).to[t] \in Blocks
         /\ CondBr("cond", a, b) \in Instructions /\ IsTerminator(CondBr("cond", a, b))
         /\ \A t \in 1..Len(CondBr("cond", a, b).to) : CondBr("cond", a, b).to[t] \in Blocks
<1>1. a \in Nat /\ b \in Nat
  BY CodeFacts DEF Blocks
<1>2. Br(a) \in Instructions /\ CondBr("cond", a, b) \in Instructions
  BY <1>1, BranchInstructions
<1>3. IsTerminator(Br(a)) /\ IsTerminator(CondBr("cond", a, b))
  BY DEF Br, CondBr, IsTerminator
<1>4. Br(a).to = <<a>> /\ CondBr("cond", a, b).to = <<a, b>>
  BY DEF Br, CondBr
<1>5. \A t \in 1..Len(<<a>>) : <<a>>[t] \in Blocks
  OBVIOUS
<1>6. \A t \in 1..Len(<<a, b>>) : <<a, b>>[t] \in Blocks
  OBVIOUS
<1> QED
  BY <1>2, <1>3, <1>4, <1>5, <1>6

LEMMA CloseStep ==
  ASSUME Working, Flow, NEW b \in Blocks, CloseWith(b)
  PROVE  /\ Len(code') = Len(code) /\ CodeOK(code') /\ ~IsOpen(code'[cursor]) /\ Keeps
         /\ \A c \in Blocks : c # cursor => code'[c] = code[c]
<1>1. CASE blockOpen
  BY <1>1, BrFacts, BranchStep DEF CloseWith
<1>2. CASE ~blockOpen
  <2>1. code' = code
    BY <1>2 DEF CloseWith
  <2>2. CodeOK(code) /\ ~IsOpen(code[cursor])
    BY <1>2 DEF Flow, blockOpen
  <2>3. Keeps
    BY <2>1 DEF Keeps, Blocks
  <2> QED
    BY <2>1, <2>2, <2>3
<1> QED
  BY <1>1, <1>2

LEMMA TopBlocks ==
  ASSUME Working, stack # <<>>
  PROVE  /\ Top.at \in {"if.then", "if.last", "while.cond", "while.body"} => Top.end \in Blocks
         /\ Top.at \in {"if.then", "while.cond", "while.body"} => Top.other \in Blocks
         /\ Top.at = "while.cond" => Top.body \in Blocks
  BY TopFacts DEF FrameOK, BlocksOK, Blocks

LEMMA TopDistinct ==
  ASSUME Working, stack # <<>>, Flow
  PROVE  FrameDistinct(Top)
  BY StackFacts DEF Flow, DistinctOK, FrameDistinct, Top

LEMMA EmitElseFlow ==
  ASSUME Working, Flow, EmitElse
  PROVE  Flow' /\ Keeps
<1> DEFINE a == [Top EXCEPT !.at = "if.last"]
<1>1. /\ stack # <<>> /\ Top.at = "if.then" /\ Top \in Frame
      /\ stack' = CallFrom(a, emitStmt(Top.node.else))
      /\ CloseWith(Top.end)
      /\ cursor' = Top.other
      /\ UNCHANGED attached
  BY TopFacts DEF EmitElse, At
<1>2. Top.node.else \in Stmt
  <2>1. Top.node.else # None
    BY <1>1, TopFacts DEF FrameOK, NodeOK
  <2> QED
    BY <1>1, <2>1, NodeFacts DEF StatementOf, StmtShape
<1>3. a \in Frame /\ a.at = "if.last" /\ a.end = Top.end
  BY <1>1 DEF Frame, Labels
<1>4. /\ Pending(a) = {Top.end} /\ Detached(a) = {Top.end}
      /\ FrameDistinct(a) /\ Expects(a)
  BY <1>3 DEF Pending, Detached, FrameDistinct, Expects
<1>5. Pending(Top) = {Top.end, Top.other} /\ Detached(Top) = {Top.end}
  BY <1>1 DEF Pending, Detached
<1>6. Top.end # Top.other
  BY <1>1, TopDistinct DEF FrameDistinct
<1>7. NewFrame(emitStmt(Top.node.else))
  BY <1>2, NewStmtFrame
<1> HIDE DEF a
<1>8. /\ Replaces(stack, stack', Len(stack), Pending(a))
      /\ CallsOK(stack') /\ BottomOK(stack') /\ DistinctOK(stack')
      /\ stack' # <<>>
      /\ Len(stack) \in 1..Len(stack') /\ stack'[Len(stack)] = a
  BY <1>1, <1>3, <1>4, <1>7, CallShape DEF NewFrame
<1>9. Pending(a) = Pending(Top) \ {cursor'}
  BY <1>1, <1>4, <1>5, <1>6
<1>10. Top.end \in Blocks
  BY <1>1, TopBlocks
<1>11. /\ Len(code') = Len(code) /\ CodeOK(code') /\ ~IsOpen(code'[cursor]) /\ Keeps
       /\ \A b \in Blocks : b # cursor => code'[b] = code[b]
  BY <1>1, <1>10, CloseStep
<1> QED
  BY <1>1, <1>4, <1>5, <1>8, <1>9, <1>11, TakeStep

LEMMA EndIfFlow ==
  ASSUME Working, Flow, EndIf
  PROVE  Flow' /\ Keeps
<1>1. /\ stack # <<>> /\ Top.at = "if.last"
      /\ stack' = Return
      /\ CloseWith(Top.end)
      /\ cursor' = Top.end
      /\ attached' = attached \union {Top.end}
  BY DEF EndIf, At
<1>2. Pending(Top) = {Top.end} /\ Detached(Top) = {Top.end}
  BY <1>1 DEF Pending, Detached
<1>3. /\ Replaces(stack, stack', Len(stack), {})
      /\ CallsOK(stack') /\ BottomOK(stack') /\ DistinctOK(stack')
      /\ stack' # <<>>
  BY <1>1, ReturnShape
<1>4. Pending(Top) \ {cursor'} = {} /\ cursor' \in Pending(Top)
  BY <1>1, <1>2
<1>5. Top.end \in Blocks
  BY <1>1, TopBlocks
<1>6. /\ Len(code') = Len(code) /\ CodeOK(code') /\ ~IsOpen(code'[cursor]) /\ Keeps
      /\ \A b \in Blocks : b # cursor => code'[b] = code[b]
  BY <1>1, <1>5, CloseStep
<1>7. /\ attached \subseteq attached'
      /\ \A b \in Detached(Top) :
           b \in attached' \/ (Len(stack) \in 1..Len(stack') /\ b \in Detached(stack'[Len(stack)]))
  BY <1>1, <1>2
<1>8. Replaces(stack, stack', Len(stack), Pending(Top) \ {cursor'})
  BY <1>3, <1>4
<1> QED
  <2>1. stack # <<>>
    BY <1>1
  <2> QED
    BY <1>3, <1>4, <1>6, <1>7, <1>8, <2>1, TakeStep, Zenon

LEMMA EmitWhileBodyFlow ==
  ASSUME Working, Flow, EmitWhileBody
  PROVE  Flow' /\ Keeps
<1> DEFINE a == [Top EXCEPT !.at = "while.body"]
<1>1. /\ stack # <<>> /\ Top.at = "while.cond" /\ Top \in Frame
      /\ stack' = CallFrom(a, emitStmt(Top.node.body))
      /\ Emit(CondBr("cond", Top.body, Top.end))
      /\ cursor' = Top.body
      /\ UNCHANGED attached
  BY TopFacts DEF EmitWhileBody, At
<1>2. Top.node.body \in Stmt
  BY <1>1, NodeFacts DEF StatementOf, StmtShape
<1>3. a \in Frame /\ a.at = "while.body" /\ a.end = Top.end
  BY <1>1 DEF Frame, Labels
<1>4. Pending(a) = {Top.end} /\ FrameDistinct(a) /\ Expects(a)
  BY <1>3 DEF Pending, FrameDistinct, Expects
<1>5. Pending(Top) = {Top.end, Top.body} /\ Detached(Top) = {}
  BY <1>1 DEF Pending, Detached
<1>6. Top.end # Top.body
  BY <1>1, TopDistinct DEF FrameDistinct
<1>7. NewFrame(emitStmt(Top.node.body))
  BY <1>2, NewStmtFrame
<1> HIDE DEF a
<1>8. /\ Replaces(stack, stack', Len(stack), Pending(a))
      /\ CallsOK(stack') /\ BottomOK(stack') /\ DistinctOK(stack')
      /\ stack' # <<>>
  BY <1>1, <1>3, <1>4, <1>7, CallShape DEF NewFrame
<1>9. Pending(a) = Pending(Top) \ {cursor'}
  BY <1>1, <1>4, <1>5, <1>6
<1>10. Top.body \in Blocks /\ Top.end \in Blocks
  BY <1>1, TopBlocks
<1>11. blockOpen
  BY <1>1, ExprOpen DEF Expects
<1>12. /\ Len(code') = Len(code) /\ CodeOK(code') /\ ~IsOpen(code'[cursor]) /\ Keeps
       /\ \A b \in Blocks : b # cursor => code'[b] = code[b]
  BY <1>1, <1>10, <1>11, BrFacts, BranchStep
<1> QED
  BY <1>1, <1>5, <1>8, <1>9, <1>12, TakeStep

LEMMA EndWhileFlow ==
  ASSUME Working, Flow, EndWhile
  PROVE  Flow' /\ Keeps
<1>1. /\ stack # <<>> /\ Top.at = "while.body"
      /\ stack' = Return
      /\ CloseWith(Top.other)
      /\ cursor' = Top.end
      /\ UNCHANGED attached
  BY DEF EndWhile, At
<1>2. Pending(Top) = {Top.end} /\ Detached(Top) = {}
  BY <1>1 DEF Pending, Detached
<1>3. /\ Replaces(stack, stack', Len(stack), {})
      /\ CallsOK(stack') /\ BottomOK(stack') /\ DistinctOK(stack')
      /\ stack' # <<>>
  BY <1>1, ReturnShape
<1>4. Pending(Top) \ {cursor'} = {} /\ cursor' \in Pending(Top)
  BY <1>1, <1>2
<1>5. Top.other \in Blocks
  BY <1>1, TopBlocks
<1>6. /\ Len(code') = Len(code) /\ CodeOK(code') /\ ~IsOpen(code'[cursor]) /\ Keeps
      /\ \A b \in Blocks : b # cursor => code'[b] = code[b]
  BY <1>1, <1>5, CloseStep
<1> QED
  BY <1>1, <1>2, <1>3, <1>4, <1>6, TakeStep

-----------------------------------------------------------------------------
(* Steps that make new blocks, close the cursor's and go on in a new one.  *)

LEMMA OpenStep ==
  ASSUME Working, stack # <<>>, Flow, blockOpen,
         NEW i \in Instructions, IsTerminator(i), NEW N,
         Len(code') \in Nat, Len(code) <= Len(code'),
         \A b \in Blocks : b # cursor => code'[b] = code[b],
         code'[cursor] = Append(code[cursor], i),
         \A t \in 1..Len(i.to) : i.to[t] \in 1..Len(code'),
         \A b \in (Len(code) + 1)..Len(code') : BlockOK(code'[b], Len(code')),
         cursor' \in (Len(code) + 1)..Len(code'), code'[cursor'] = <<>>,
         N \subseteq (Len(code) + 1)..Len(code'), cursor' \notin N,
         \A b \in N : code'[b] = <<>>,
         \A b \in (Len(code) + 1)..Len(code') : IsOpen(code'[b]) => b = cursor' \/ b \in N,
         Replaces(stack, stack', Len(stack), N),
         Pending(Top) = {}, Detached(Top) = {},
         CallsOK(stack'), BottomOK(stack'), DistinctOK(stack'), stack' # <<>>,
         attached \subseteq attached',
         \A b \in (Len(code) + 1)..Len(code') :
           b \in attached' \/ (Len(stack) \in 1..Len(stack') /\ b \in Detached(stack'[Len(stack)]))
  PROVE  Flow' /\ Keeps
<1>1. Len(code) \in Nat /\ cursor \in 1..Len(code)
  BY CodeFacts
<1>2. /\ CodeOK(code')
      /\ IsOpen(code'[cursor]) <=> ~IsTerminator(i)
      /\ Keeps
  BY CodeStep
<1>3. PendingOK(stack, code, cursor) /\ AttachedOK(stack, code, attached)
  BY DEF Flow
<1>4. PendingOK(stack', code', cursor')
  <2>1. Pending(stack[Len(stack)]) = {}
    BY DEF Top
  <2>2. N \subseteq Pending(stack[Len(stack)]) \union ((Len(code) + 1)..Len(code'))
    BY <2>1
  <2> QED
    BY <1>1, <1>2, <1>3, <2>1, <2>2, PendingBlocks, PendingStep DEF Blocks
<1>5. AttachedOK(stack', code', attached')
  BY <1>1, <1>3, AttachedStep DEF Top
<1>6. CursorOK'
  BY DEF CursorOK, blockOpen, IsOpen
<1> QED
  BY <1>2, <1>4, <1>5, <1>6 DEF Flow

LEMMA EmptyBlock ==
  ASSUME NEW n
  PROVE  BlockOK(<<>>, n) /\ IsOpen(<<>>)
  BY DEF BlockOK, IsOpen

LEMMA FailBlock ==
  ASSUME NEW n
  PROVE  /\ BlockOK(<<Instruction("indexError", ""), Unreachable>>, n)
         /\ ~IsOpen(<<Instruction("indexError", ""), Unreachable>>)
<1> DEFINE call == Instruction("indexError", "")
           stop == Unreachable
           s == <<call, stop>>
<1>1. /\ ~IsTerminator(call) /\ call.to = <<>>
      /\ IsTerminator(stop) /\ stop.to = <<>>
  BY DEF Instruction, Unreachable, IsTerminator
<1> HIDE DEF call, stop
<1>2. Len(s) = 2 /\ s[1] = call /\ s[2] = stop /\ s # <<>>
  OBVIOUS
<1> HIDE DEF s
<1>3. \A j \in 1..2 : j = 1 \/ j = 2
  OBVIOUS
<1>4. BlockOK(s, n)
  <2> SUFFICES ASSUME NEW j \in 1..2
               PROVE  /\ IsTerminator(s[j]) => j = 2
                      /\ \A t \in 1..Len(s[j].to) : s[j].to[t] \in 1..n
    BY <1>2 DEF BlockOK
  <2>1. s[j].to = <<>>
    BY <1>1, <1>2, <1>3
  <2> QED
    BY <1>1, <1>2, <1>3, <2>1
<1>5. ~IsOpen(s)
  BY <1>1, <1>2 DEF IsOpen
<1> QED
  BY <1>4, <1>5 DEF s, call, stop

LEMMA CheckIndexFlow ==
  ASSUME Working, Flow, CheckIndex
  PROVE  Flow' /\ Keeps
<1> DEFINE n == Len(code)
           i == CondBr("index", n + 1, n + 2)
<1>1. /\ stack # <<>> /\ Top.at = "expr"
      /\ stack' = Resume(Advanced)
      /\ attached' = attached \union {n + 1, n + 2}
      /\ cursor' = n + 2
  BY DEF CheckIndex, AtPart, At, NewBlock
<1>2. n \in Nat /\ n + 1 \in Nat /\ n + 2 \in Nat
  BY CodeFacts
<1>3. /\ Len(code') = n + 2
      /\ \A b \in Blocks : b # cursor => code'[b] = code[b]
      /\ code'[cursor] = Append(code[cursor], i)
      /\ code'[n + 1] = <<Instruction("indexError", ""), Unreachable>>
      /\ code'[n + 2] = <<>>
  BY CheckIndexFacts
<1>4. /\ i \in Instructions /\ IsTerminator(i)
      /\ i.to = <<n + 1, n + 2>>
  BY <1>2, BranchInstructions DEF CondBr, IsTerminator
<1>5. \A b \in (n + 1)..(n + 2) : b = n + 1 \/ b = n + 2
  BY <1>2
<1>6. /\ n + 1 \in 1..(n + 2) /\ n + 2 \in 1..(n + 2) /\ n <= n + 2
      /\ n + 2 \in (n + 1)..(n + 2)
  BY <1>2
<1>7. \A t \in 1..Len(i.to) : i.to[t] \in 1..(n + 2)
  <2>1. \A x, y \in 1..(n + 2) : \A t \in 1..Len(<<x, y>>) : <<x, y>>[t] \in 1..(n + 2)
    OBVIOUS
  <2> QED
    BY <1>4, <1>6, <2>1, Zenon
<1> HIDE DEF i
<1>8. \A b \in (n + 1)..(n + 2) :
        /\ BlockOK(code'[b], n + 2)
        /\ IsOpen(code'[b]) => b = cursor'
        /\ b \in attached'
  BY <1>1, <1>3, <1>5, EmptyBlock, FailBlock, Zenon
<1>9. Advanced \in Frame /\ Advanced.at = "expr" /\ Top \in Frame
  BY <1>1, AdvancedFacts, TopFacts
<1>10. blockOpen
  BY <1>1, ExprOpen DEF Expects
<1>11. /\ Pending(Top) = {} /\ Detached(Top) = {}
       /\ Pending(Advanced) = {} /\ FrameDistinct(Advanced)
  BY <1>1, <1>9, IdleAt
<1>12. /\ Replaces(stack, stack', Len(stack), {})
       /\ CallsOK(stack') /\ BottomOK(stack') /\ DistinctOK(stack')
       /\ Len(stack') = Len(stack)
  BY <1>1, <1>9, <1>11, ResumeShape
<1>13. stack' # <<>>
  BY <1>12, StackFacts, <1>1
<1>14. attached \subseteq attached' /\ Len(code') \in Nat
  BY <1>1, <1>2, <1>3
<1>15. /\ stack # <<>>
       /\ n <= Len(code')
       /\ cursor' \in (n + 1)..Len(code') /\ code'[cursor'] = <<>>
       /\ \A t \in 1..Len(i.to) : i.to[t] \in 1..Len(code')
       /\ \A b \in (n + 1)..Len(code') :
            /\ BlockOK(code'[b], Len(code'))
            /\ IsOpen(code'[b]) => b = cursor'
            /\ b \in attached'
  BY <1>1, <1>3, <1>6, <1>7, <1>8, Zenon
<1>16. /\ \A b \in Blocks : b # cursor => code'[b] = code[b]
       /\ code'[cursor] = Append(code[cursor], i)
  BY <1>3
<1>17. i \in Instructions /\ IsTerminator(i)
  BY <1>4
<1>18. {} \subseteq (n + 1)..Len(code') /\ cursor' \notin {}
  OBVIOUS
<1>19. \A b \in (n + 1)..Len(code') :
         b \in attached' \/ (Len(stack) \in 1..Len(stack') /\ b \in Detached(stack'[Len(stack)]))
  BY <1>15, Zenon
<1>20. \A b \in (n + 1)..Len(code') : IsOpen(code'[b]) => b = cursor' \/ b \in {}
  BY <1>15, Zenon
<1> QED
  BY <1>10, <1>11, <1>12, <1>13, <1>14, <1>15, <1>16, <1>17, <1>18, <1>19, <1>20, OpenStep

(* The new blocks are empty: what is left to check is who claims them.     *)
LEMMA EmptyOpenStep ==
  ASSUME Working, stack # <<>>, Flow, blockOpen,
         NEW i \in Instructions, IsTerminator(i), NEW m \in Nat,
         NEW a \in Frame, FrameDistinct(a),
         NEW b, NewFrame(b), b.at = "expr" \/ Expects(a),
         stack' = CallFrom(a, b),
         Top.at \notin {"expr", "function.end"}, a.at # "function.end",
         Pending(Top) = {}, Detached(Top) = {},
         Len(code') = Len(code) + m,
         \A c \in Blocks : c # cursor => code'[c] = code[c],
         code'[cursor] = Append(code[cursor], i),
         \A t \in 1..Len(i.to) : i.to[t] \in 1..(Len(code) + m),
         \A k \in 1..m : code'[Len(code) + k] = <<>>,
         cursor' \in (Len(code) + 1)..(Len(code) + m),
         Pending(a) \union {cursor'} = (Len(code) + 1)..(Len(code) + m),
         cursor' \notin Pending(a),
         attached \subseteq attached',
         \A c \in (Len(code) + 1)..(Len(code) + m) : c \in attached' \/ c \in Detached(a)
  PROVE  Flow' /\ Keeps
<1>1. Len(code) \in Nat
  BY CodeFacts
<1>2. /\ b \in Frame /\ FrameDistinct(b)
      /\ b.at # "function.end" /\ Pending(b) = {}
  BY DEF NewFrame
<1>3. /\ Replaces(stack, stack', Len(stack), Pending(a))
      /\ CallsOK(stack') /\ BottomOK(stack') /\ DistinctOK(stack')
      /\ stack' # <<>>
      /\ Len(stack) \in 1..Len(stack') /\ stack'[Len(stack)] = a
  BY <1>2, CallShape
<1>4. Len(code') \in Nat /\ Len(code) <= Len(code')
  BY <1>1
<1>5. \A c \in (Len(code) + 1)..(Len(code) + m) : code'[c] = <<>>
  <2> SUFFICES ASSUME NEW c \in (Len(code) + 1)..(Len(code) + m)
               PROVE  code'[c] = <<>>
    OBVIOUS
  <2>1. c - Len(code) \in 1..m /\ Len(code) + (c - Len(code)) = c
    BY <1>1
  <2> QED
    BY <2>1
<1>6. /\ \A c \in (Len(code) + 1)..Len(code') :
           /\ code'[c] = <<>>
           /\ BlockOK(code'[c], Len(code'))
           /\ c = cursor' \/ c \in Pending(a)
           /\ c \in attached' \/ c \in Detached(a)
      /\ Pending(a) \subseteq (Len(code) + 1)..Len(code')
      /\ cursor' \in (Len(code) + 1)..Len(code')
  BY <1>5, EmptyBlock
<1>7. \A c \in (Len(code) + 1)..Len(code') :
        c \in attached' \/ (Len(stack) \in 1..Len(stack') /\ c \in Detached(stack'[Len(stack)]))
  BY <1>3, <1>6
<1>8. /\ \A t \in 1..Len(i.to) : i.to[t] \in 1..Len(code')
      /\ \A c \in Pending(a) : code'[c] = <<>>
      /\ code'[cursor'] = <<>>
      /\ \A c \in (Len(code) + 1)..Len(code') : IsOpen(code'[c]) => c = cursor' \/ c \in Pending(a)
  BY <1>6
<1>9. PICK N : N = Pending(a)
  OBVIOUS
<1> QED
  BY <1>3, <1>4, <1>6, <1>7, <1>8, <1>9, OpenStep

LEMMA EmitIfBranchFlow ==
  ASSUME Working, Flow, EmitIfBranch
  PROVE  Flow' /\ Keeps
<1> DEFINE n == Len(code)
           hasElse == Top.node.else # None
           m == IF hasElse THEN 3 ELSE 2
           label == IF hasElse THEN "if.then" ELSE "if.last"
           other == IF hasElse THEN n + 3 ELSE 0
           a == [Top EXCEPT !.at = label, !.end = n + 2, !.other = other]
           target == IF hasElse THEN n + 3 ELSE n + 2
           i == CondBr("cond", n + 1, target)
           b == emitStmt(Top.node.then)
<1>1. /\ stack # <<>> /\ Top.at = "if.cond" /\ Top \in Frame
      /\ stack' = CallFrom(a, b)
      /\ attached' = attached \union {n + 1} \union (IF hasElse THEN {n + 3} ELSE {})
      /\ cursor' = n + 1
  BY TopFacts DEF EmitIfBranch, At, NewBlock
<1>2. /\ Len(code') = n + m
      /\ \A c \in Blocks : c # cursor => code'[c] = code[c]
      /\ code'[cursor] = Append(code[cursor], i)
      /\ \A k \in 1..m : code'[n + k] = <<>>
  BY EmitIfBranchFacts
<1>3. /\ n \in Nat /\ n + 1 \in Nat /\ n + 2 \in Nat /\ n + 3 \in Nat
      /\ m \in Nat /\ other \in Nat /\ target \in Nat
  BY CodeFacts
<1>4. label \in Labels
  BY DEF Labels
<1>5. a \in Frame /\ a.at = label /\ a.end = n + 2 /\ a.other = other
  <2> HIDE DEF label, other
  <2>1. a \in Frame
    BY <1>1, <1>3, <1>4, HoldingBlocks, Zenon
  <2> QED
    BY <1>1, <2>1 DEF Frame
<1>6. /\ Pending(a) = IF hasElse THEN {n + 2, n + 3} ELSE {n + 2}
      /\ Detached(a) = {n + 2}
      /\ FrameDistinct(a) /\ Expects(a) /\ a.at # "function.end"
  <2> HIDE DEF a, n
  <2>1. CASE hasElse
    <3>1. a.at = "if.then" /\ a.end = n + 2 /\ a.other = n + 3
      BY <1>5, <2>1
    <3> QED
      BY <1>3, <2>1, <3>1 DEF Pending, Detached, FrameDistinct, Expects
  <2>2. CASE ~hasElse
    <3>1. a.at = "if.last" /\ a.end = n + 2
      BY <1>5, <2>2
    <3> QED
      BY <1>3, <2>2, <3>1 DEF Pending, Detached, FrameDistinct, Expects
  <2> QED
    BY <2>1, <2>2
<1>7. i \in Instructions /\ IsTerminator(i) /\ i.to = <<n + 1, target>>
  BY <1>3, BranchInstructions DEF CondBr, IsTerminator
<1>8. \A t \in 1..Len(i.to) : i.to[t] \in 1..(n + m)
  <2>1. \A x, y \in 1..(n + m) : \A t \in 1..Len(<<x, y>>) : <<x, y>>[t] \in 1..(n + m)
    OBVIOUS
  <2>2. n + 1 \in 1..(n + m) /\ target \in 1..(n + m)
    BY <1>3
  <2> HIDE DEF target, m
  <2> QED
    BY <1>7, <2>1, <2>2, Zenon
<1>9. Top.node.then \in Stmt
  BY <1>1, NodeFacts DEF StatementOf, StmtShape
<1>10. NewFrame(b)
  BY <1>9, NewStmtFrame
<1>11. Pending(Top) = {} /\ Detached(Top) = {}
  BY <1>1, IdleAt
<1>12. blockOpen
  BY <1>1, ExprOpen DEF Expects
<1>13. /\ cursor' \in (n + 1)..(n + m)
       /\ Pending(a) \union {cursor'} = (n + 1)..(n + m)
       /\ cursor' \notin Pending(a)
       /\ attached \subseteq attached'
       /\ \A c \in (n + 1)..(n + m) : c \in attached' \/ c \in Detached(a)
  <2>1. CASE hasElse
    BY <1>1, <1>3, <1>6, <2>1
  <2>2. CASE ~hasElse
    BY <1>1, <1>3, <1>6, <2>2
  <2> QED
    BY <2>1, <2>2
<1>14. Top.at \notin {"expr", "function.end"}
  BY <1>1
<1> HIDE DEF a, i, m, b
<1> QED
  BY <1>1, <1>2, <1>3, <1>5, <1>6, <1>7, <1>8, <1>10, <1>11, <1>12, <1>13, <1>14, EmptyOpenStep

LEMMA EmitWhileFlow ==
  ASSUME Working, Flow, EmitWhile
  PROVE  Flow' /\ Keeps
<1> DEFINE n == Len(code)
           a == [Top EXCEPT !.at = "while.cond", !.end = n + 3, !.other = n + 1,
                            !.body = n + 2]
           i == Br(n + 1)
           b == emitExpr(Top.node.cond)
<1>1. /\ stack # <<>> /\ Top.at = "while" /\ Top \in Frame
      /\ stack' = CallFrom(a, b)
      /\ attached' = attached \union {n + 1, n + 2, n + 3}
      /\ cursor' = n + 1
  BY TopFacts DEF EmitWhile, At, NewBlock
<1>2. /\ Len(code') = n + 3
      /\ \A c \in Blocks : c # cursor => code'[c] = code[c]
      /\ code'[cursor] = Append(code[cursor], i)
      /\ \A k \in 1..3 : code'[n + k] = <<>>
  BY EmitWhileFacts
<1>3. n \in Nat /\ n + 1 \in Nat /\ n + 2 \in Nat /\ n + 3 \in Nat /\ 3 \in Nat
  BY CodeFacts
<1>4. a \in Frame /\ a.at = "while.cond" /\ a.end = n + 3 /\ a.body = n + 2
  <2>1. "while.cond" \in Labels
    BY DEF Labels
  <2>2. a \in Frame
    BY <1>1, <1>3, <2>1, HoldingBlocks, Zenon
  <2> QED
    BY <1>1, <2>2 DEF Frame
<1>5. /\ Pending(a) = {n + 2, n + 3}
      /\ FrameDistinct(a) /\ a.at # "function.end"
  BY <1>3, <1>4 DEF Pending, FrameDistinct
<1>6. i \in Instructions /\ IsTerminator(i) /\ i.to = <<n + 1>>
  BY <1>3, BranchInstructions DEF Br, IsTerminator
<1>7. \A t \in 1..Len(i.to) : i.to[t] \in 1..(n + 3)
  <2>1. \A x \in 1..(n + 3) : \A t \in 1..Len(<<x>>) : <<x>>[t] \in 1..(n + 3)
    OBVIOUS
  <2>2. n + 1 \in 1..(n + 3)
    BY <1>3
  <2> QED
    BY <1>6, <2>1, <2>2, Zenon
<1>8. Top.node.cond \in Expr
  BY <1>1, NodeFacts DEF StatementOf, StmtShape
<1>9. NewFrame(b) /\ b.at = "expr"
  BY <1>8, NewExprFrame
<1>10. Pending(Top) = {} /\ Detached(Top) = {}
  BY <1>1, IdleAt
<1>11. blockOpen
  BY <1>1, ExprOpen DEF Expects
<1>12. /\ cursor' \in (n + 1)..(n + 3)
       /\ Pending(a) \union {cursor'} = (n + 1)..(n + 3)
       /\ cursor' \notin Pending(a)
       /\ attached \subseteq attached'
       /\ \A c \in (n + 1)..(n + 3) : c \in attached' \/ c \in Detached(a)
  BY <1>1, <1>3, <1>5
<1>13. Top.at \notin {"expr", "function.end"}
  BY <1>1
<1> HIDE DEF a, i, b
<1> QED
  BY <1>1, <1>2, <1>3, <1>4, <1>5, <1>6, <1>7, <1>9, <1>10, <1>11, <1>12, <1>13, EmptyOpenStep

-----------------------------------------------------------------------------
(* The first step.                                                         *)

LEMMA EmitFunctionFlow ==
  ASSUME Fresh, function \in Function, EmitFunction
  PROVE  Flow' /\ Keeps
<1> DEFINE a == [Top EXCEPT !.at = "function.end"]
           b == emitStmt(function.body)
           alloca == Instruction("alloca", "")
<1>1. /\ code' = << <<alloca>> >>
      /\ attached' = {1}
      /\ cursor' = 1
      /\ stack' = Append(Append(Below, a), b)
  BY DEF EmitFunction, CallFrom
<1>2. Below = <<>> /\ Top = Activation("function", function)
  BY DEF Fresh, Below, Top
<1>3. a.at = "function.end"
  BY <1>2 DEF Activation
<1>4. function.body \in Stmt
  BY SyntaxAssumption DEF FunctionShape
<1>5. NewFrame(b)
  BY <1>4, NewStmtFrame
<1>6. Pending(a) = {} /\ FrameDistinct(a) /\ Expects(a)
  BY <1>3 DEF Pending, FrameDistinct, Expects
<1> HIDE DEF a, b
<1>7. /\ Len(stack') = 2 /\ stack'[1] = a /\ stack'[2] = b /\ stack' # <<>>
  <2>1. \A x, y : LET s == Append(Append(<<>>, x), y)
                IN Len(s) = 2 /\ s[1] = x /\ s[2] = y /\ s # <<>>
    OBVIOUS
  <2> QED
    BY <1>1, <1>2, <2>1, Zenon
<1>8. \A k \in 1..2 : k = 1 \/ k = 2
  OBVIOUS
<1>9. CallsOK(stack')
  BY <1>6, <1>7 DEF CallsOK
<1>10. BottomOK(stack')
  BY <1>3, <1>5, <1>7, <1>8 DEF BottomOK, NewFrame
<1>11. DistinctOK(stack')
  BY <1>5, <1>6, <1>7, <1>8 DEF DistinctOK, FrameDistinct, NewFrame
<1>12. ~IsTerminator(alloca) /\ alloca.to = <<>>
  BY DEF Instruction, IsTerminator
<1> HIDE DEF alloca
<1>13. Len(code') = 1 /\ code'[1] = <<alloca>> /\ \A c \in 1..1 : c = 1
  BY <1>1
<1>14. IsOpen(<<alloca>>) /\ BlockOK(<<alloca>>, 1)
  BY <1>12 DEF IsOpen, BlockOK
<1>15. CodeOK(code') /\ AttachedOK(stack', code', attached')
  BY <1>1, <1>13, <1>14 DEF CodeOK, AttachedOK
<1>16. PendingOK(stack', code', cursor')
  <2>1. \A k \in 1..2 : Pending(stack'[k]) = {}
    BY <1>5, <1>6, <1>7, <1>8 DEF NewFrame
  <2> QED
    BY <1>1, <1>7, <1>13, <2>1 DEF PendingOK
<1>17. CursorOK'
  <2>1. blockOpen'
    BY <1>1, <1>13, <1>14 DEF blockOpen
  <2> QED
    BY <1>7, <2>1 DEF CursorOK
<1>18. Keeps
  BY DEF Keeps, Blocks, Fresh
<1> QED
  BY <1>9, <1>10, <1>11, <1>15, <1>16, <1>17, <1>18 DEF Flow

-----------------------------------------------------------------------------
LEMMA FlowInvInit == Init => FlowInv
<1> SUFFICES ASSUME Init
             PROVE  TypeInv /\ ~Working
  BY DEF FlowInv
<1>1. TypeInv
  BY TypeInvInit
<1>2. cursor = 0 /\ code = <<>>
  BY DEF Init
<1> QED
  BY <1>1, <1>2 DEF Working, Blocks

LEMMA FlowStep ==
  ASSUME FlowInv, Next
  PROVE  Flow' /\ Keeps
<1>1. TypeInv /\ (Working => Flow)
  BY DEF FlowInv
<1>2. CASE Fresh
  <2>1. EmitFunction
    BY <1>2, FreshAt
       DEF Next, EndFunction, EmitCompound, EndCompound, EmitExprStmt,
           EmitIf, EmitIfBranch, EmitElse, EndIf, EmitWhile, EmitWhileBody, EndWhile,
           EmitReturnValue, EmitReturn, EmitSubexpr, EmitInstruction, SkipCheck,
           CheckIndex, EndExpr, At, AtPart
  <2> QED
    BY <1>1, <1>2, <2>1, EmitFunctionFlow DEF TypeInv
<1>3. CASE Working
  <2>1. ~EmitFunction
    BY <1>3, WorkingAt DEF EmitFunction, At
  <2> QED
    BY <1>1, <1>3, <2>1, EndFunctionFlow, EmitCompoundFlow, EndCompoundFlow,
       EmitExprStmtFlow, EmitIfFlow, EmitIfBranchFlow, EmitElseFlow, EndIfFlow,
       EmitWhileFlow, EmitWhileBodyFlow, EndWhileFlow, EmitReturnValueFlow,
       EmitReturnFlow, EmitSubexprFlow, EmitInstructionFlow, SkipCheckFlow,
       CheckIndexFlow, EndExprFlow
       DEF Next
<1> QED
  BY <1>1, <1>2, <1>3 DEF TypeInv

LEMMA FlowInvStep == FlowInv /\ [Next]_vars => FlowInv'
<1> SUFFICES ASSUME FlowInv, [Next]_vars
             PROVE  FlowInv'
  OBVIOUS
<1>1. TypeInv'
  BY TypeInvStep DEF FlowInv
<1>2. CASE UNCHANGED vars
  BY <1>2 DEF vars, FlowInv, TypeInv, Fresh, Working, Flow, CursorOK, blockOpen, Top, Blocks
<1>3. CASE Next
  BY <1>1, <1>3, FlowStep DEF FlowInv
<1> QED
  BY <1>2, <1>3

LEMMA FlowInvariant == Spec => []FlowInv
  BY FlowInvInit, FlowInvStep, PTL DEF Spec

LEMMA FlowInvPending == FlowInv => OnlyPendingOpen
<1> SUFFICES ASSUME FlowInv
             PROVE  OnlyPendingOpen
  OBVIOUS
<1>1. CASE Fresh
  <2>1. Len(code) = 0 /\ Len(stack) = 1 /\ \A k \in 1..1 : stack[k].at = "function"
    BY <1>1 DEF Fresh, Activation
  <2>2. \A k \in 1..Len(stack) : Pending(stack[k]) = {}
    BY <2>1 DEF Pending
  <2>3. AllPending = {}
    BY <2>2 DEF AllPending
  <2> QED
    BY <2>1, <2>2, <2>3 DEF OnlyPendingOpen, Blocks
<1>2. CASE Working
  BY <1>2 DEF FlowInv, Flow, PendingOK, OnlyPendingOpen, AllPending, Blocks
<1> QED
  BY <1>1, <1>2 DEF FlowInv, TypeInv

LEMMA FlowInvVerified == FlowInv => Verified
<1> SUFFICES ASSUME FlowInv, Done, NEW b \in Blocks
             PROVE  WellFormed(b)
  BY DEF Verified
<1>1. stack = <<>> /\ Len(stack) = 0
  BY DEF Done
<1>2. Working
  <2>1. ~Fresh
    BY <1>1 DEF Fresh
  <2> QED
    BY <2>1 DEF FlowInv, TypeInv
<1>3. Flow
  BY <1>2 DEF FlowInv
<1>4. b \in attached
  BY <1>1, <1>3 DEF Flow, AttachedOK, Blocks
<1>5. ~IsOpen(code[b])
  BY <1>1, <1>3 DEF Flow, PendingOK, CursorOK, blockOpen, Blocks
<1>6. BlockOK(code[b], Len(code))
  BY <1>3 DEF Flow, CodeOK, Blocks
<1>7. code[b] # <<>> /\ IsTerminator(code[b][Len(code[b])])
  BY <1>5 DEF IsOpen
<1> QED
  BY <1>4, <1>5, <1>6, <1>7 DEF WellFormed, BlockOK, InstructionOK, Blocks

(* No block is left open behind an if or a while, and no block is written  *)
(* by two statements, for every function.                                  *)
THEOREM PendingCorrect == Spec => []OnlyPendingOpen
  BY FlowInvariant, FlowInvPending, PTL

(* What the module verifier demands of the control flow holds of every     *)
(* function that was generated: run() never fails on it.                   *)
THEOREM VerifiedCorrect == Spec => []Verified
  BY FlowInvariant, FlowInvVerified, PTL

(* A block that has its terminator is never written again.                 *)
THEOREM ClosedCorrect == Spec => ClosedStays
<1>1. FlowInv /\ [Next]_vars =>
        [\A b \in Blocks : ~IsOpen(code[b]) => b \in 1..Len(code') /\ code'[b] = code[b]]_vars
  BY FlowStep DEF Keeps
<1> QED
  BY <1>1, FlowInvariant, PTL DEF Spec, ClosedStays

-----------------------------------------------------------------------------
(***************************************************************************)
(* The warning of semantic analysis is exact, whatever the function: the   *)
(* return that IRGen adds at the end of a function can be reached exactly  *)
(* when alwaysReturns does not hold of its body.                           *)
(*                                                                         *)
(* Two walks of one tree are compared, so the invariant speaks of a tree   *)
(* half walked.  An activation is entered alive when the block of the      *)
(* cursor could be reached at that moment, which is decided by the         *)
(* compound statements around it: none of them has passed a statement that *)
(* always returns.                                                         *)
(***************************************************************************)

(* The blocks that can be reached from the entry block in code half        *)
(* generated: every set that holds the entry block and follows the         *)
(* branches holds them.                                                    *)

Succ(instructions) ==
  IF instructions = <<>> THEN {}
  ELSE LET last == instructions[Len(instructions)] IN {last.to[t] : t \in 1..Len(last.to)}

Follows(c, S) == 1 \in S /\ \A b \in S : Succ(c[b]) \subseteq S

Reach(c) == {b \in 1..Len(c) : \A S \in SUBSET (1..Len(c)) : Follows(c, S) => b \in S}

Live == blockOpen /\ cursor \in Reach(code)

-----------------------------------------------------------------------------
(* An activation entered alive was alive when it called what it waits for. *)
Alive(a) ==
  a.at = "compound" =>
    \A j \in 1..Len(a.node.stmts) : j < a.next - 1 => ~ alwaysReturns[a.node.stmts[j]]

Entered(s, k) == \A m \in 1..(k - 1) : Alive(s[m])

(* An activation entered alive is alive where it resumes.                  *)
Out(a) ==
  /\ a.at = "compound" =>
       \A j \in 1..Len(a.node.stmts) : j < a.next => ~ alwaysReturns[a.node.stmts[j]]
  /\ a.at = "if.then" => ~ alwaysReturns[a.node.then]
  /\ a.at = "if.last" =>
       ~ alwaysReturns[IF a.node.else = None THEN a.node.then ELSE a.node.else]
  /\ a.at = "while.body" => ~ alwaysReturns[a.node.body]
  /\ a.at = "function.end" => ~ alwaysReturns[function.body]

(* An activation that will not let the cursor out alive.                   *)
Stops(a) == a.at # "expr" /\ alwaysReturns[a.node]

CallsLive(s) ==
  \A k \in 1..(Len(s) - 1) : Out(s[k]) <=> Alive(s[k]) /\ ~ Stops(s[k + 1])

(* The blocks that an activation entered alive has branched to.            *)
BranchOK(a, entered, reach) ==
  /\ a.at \in {"if.then", "while.cond", "while.body"} => (a.other \in reach <=> entered)
  /\ a.at \in {"if.then", "while.cond"} => a.end \notin reach
  /\ a.at = "while.cond" => a.body \notin reach
  /\ a.at = "while.body" => (a.end \in reach <=> entered)
  /\ a.at = "if.last" =>
       (a.end \in reach <=>
          entered /\ (a.node.else # None => ~ alwaysReturns[a.node.then]))

BranchesLive(s, reach) == \A k \in 1..Len(s) : BranchOK(s[k], Entered(s, k), reach)

(* A block that is open has no branch yet.                                 *)
NoBranch == \A b \in Blocks : IsOpen(code[b]) => Succ(code[b]) = {}

Walk ==
  /\ NoBranch
  /\ CallsLive(stack)
  /\ BranchesLive(stack, Reach(code))
  /\ stack # <<>> => (Live <=> Entered(stack, Len(stack)) /\ Out(Top)) /\ implicit = 0
  /\ stack = <<>> => (alwaysReturns[function.body] <=> implicit \notin Reach(code))

WarningInv == FlowInv /\ (Working => Walk)

-----------------------------------------------------------------------------
(* Reaching.                                                               *)

(* No branch leaves the code.                                              *)
Inside(c) ==
  /\ Len(c) \in Nat \ {0}
  /\ \A b \in 1..Len(c) : Succ(c[b]) \subseteq 1..Len(c)

(* What can be reached is the least set that follows the branches.         *)
LEMMA ReachLeast ==
  ASSUME NEW c, Inside(c)
  PROVE  /\ Reach(c) \subseteq 1..Len(c)
         /\ Follows(c, Reach(c))
         /\ \A S \in SUBSET (1..Len(c)) : Follows(c, S) => Reach(c) \subseteq S
<1>1. Reach(c) \subseteq 1..Len(c)
  BY DEF Reach
<1>2. \A S \in SUBSET (1..Len(c)) : Follows(c, S) => Reach(c) \subseteq S
  BY DEF Reach
<1>3. 1 \in Reach(c)
  BY DEF Inside, Reach, Follows
<1>4. ASSUME NEW b \in Reach(c), NEW x \in Succ(c[b])
      PROVE  x \in Reach(c)
  <2>1. x \in 1..Len(c)
    BY <1>1 DEF Inside
  <2>2. ASSUME NEW S \in SUBSET (1..Len(c)), Follows(c, S)
        PROVE  x \in S
    BY <1>2, <2>2 DEF Follows
  <2> QED
    BY <2>1, <2>2 DEF Reach
<1>5. Follows(c, Reach(c))
  BY <1>3, <1>4 DEF Follows
<1> QED
  BY <1>1, <1>2, <1>5

(* When one block gets its branches, to blocks that had been reached or    *)
(* lead nowhere yet, those are what can be reached besides.                *)
LEMMA ReachGrows ==
  ASSUME NEW c, NEW d, Inside(c), Inside(d), Len(c) <= Len(d),
         NEW p \in 1..Len(c), Succ(c[p]) = {},
         \A b \in 1..Len(c) : b # p => Succ(d[b]) = Succ(c[b]),
         p \in Reach(c) => \A t \in Succ(d[p]) : t \in Reach(c) \/ Succ(d[t]) = {}
  PROVE  Reach(d) = Reach(c) \union (IF p \in Reach(c) THEN Succ(d[p]) ELSE {})
<1> DEFINE R == Reach(c) \union (IF p \in Reach(c) THEN Succ(d[p]) ELSE {})
<1>1. 1..Len(c) \subseteq 1..Len(d)
  BY DEF Inside
<1>2. /\ Reach(c) \subseteq 1..Len(c) /\ Follows(c, Reach(c))
      /\ \A S \in SUBSET (1..Len(c)) : Follows(c, S) => Reach(c) \subseteq S
  BY ReachLeast
<1>3. /\ Reach(d) \subseteq 1..Len(d) /\ Follows(d, Reach(d))
      /\ \A S \in SUBSET (1..Len(d)) : Follows(d, S) => Reach(d) \subseteq S
  BY ReachLeast
<1>4. Reach(c) \subseteq Reach(d)
  <2> DEFINE S == Reach(d) \intersect (1..Len(c))
  <2>1. 1 \in S
    BY <1>3 DEF Inside, Follows
  <2>2. ASSUME NEW b \in S
        PROVE  Succ(c[b]) \subseteq S
    <3>1. CASE b = p
      BY <3>1
    <3>2. CASE b # p
      <4>1. Succ(c[b]) = Succ(d[b])
        BY <3>2
      <4>2. Succ(d[b]) \subseteq Reach(d)
        BY <1>3 DEF Follows
      <4>3. Succ(c[b]) \subseteq 1..Len(c)
        BY DEF Inside
      <4> QED
        BY <4>1, <4>2, <4>3
    <3> QED
      BY <3>1, <3>2
  <2>3. Follows(c, S)
    BY <2>1, <2>2 DEF Follows
  <2> HIDE DEF S
  <2>4. Reach(c) \subseteq S
    BY <1>2, <2>3 DEF S
  <2> QED
    BY <2>4 DEF S
<1>5. R \subseteq Reach(d)
  BY <1>3, <1>4 DEF Follows
<1>6. Reach(d) \subseteq R
  <2>1. R \in SUBSET (1..Len(d))
    BY <1>1, <1>2 DEF Inside
  <2>2. 1 \in R
    BY <1>2 DEF Follows
  <2>3. ASSUME NEW b \in R
        PROVE  Succ(d[b]) \subseteq R
    <3>1. CASE b \in Reach(c) /\ b # p
      BY <1>2, <3>1 DEF Follows
    <3>2. CASE b \in Reach(c) /\ b = p
      BY <3>2
    <3>3. CASE b \notin Reach(c)
      <4>1. b \in Succ(d[p]) /\ p \in Reach(c)
        BY <3>3
      <4> QED
        BY <3>3, <4>1
    <3> QED
      BY <3>1, <3>2, <3>3
  <2>4. Follows(d, R)
    BY <2>2, <2>3 DEF Follows
  <2> HIDE DEF R
  <2> QED
    BY <1>3, <2>1, <2>4
<1> QED
  BY <1>5, <1>6

-----------------------------------------------------------------------------
(* alwaysReturns.                                                          *)

(* What alwaysReturns says of a statement when A are those it holds of.    *)
Holds(A, stmt) ==
  CASE stmt.kind = "return" -> TRUE
    [] stmt.kind = "compound" -> \E i \in DOMAIN stmt.stmts : stmt.stmts[i] \in A
    [] stmt.kind = "if" -> stmt.else # None /\ stmt.then \in A /\ stmt.else \in A
    [] OTHER -> FALSE

(* There is such a set: what holds of fewer statements holds of more.      *)
LEMMA AlwaysReturnsExists ==
  \E A \in SUBSET Stmt : \A stmt \in Stmt : stmt \in A <=> Holds(A, stmt)
<1> DEFINE Closed(S) == \A stmt \in Stmt : Holds(S, stmt) => stmt \in S
           A == {stmt \in Stmt : \A S \in SUBSET Stmt : Closed(S) => stmt \in S}
<1>1. \A S \in SUBSET Stmt : Closed(S) => A \subseteq S
  OBVIOUS
<1>2. ASSUME NEW S, NEW T, S \subseteq T, NEW stmt \in Stmt, Holds(S, stmt)
      PROVE  Holds(T, stmt)
  BY <1>2, Zenon DEF Holds
<1>3. Closed(A)
  <2>1. SUFFICES ASSUME NEW stmt \in Stmt, Holds(A, stmt),
                        NEW S \in SUBSET Stmt, Closed(S)
                 PROVE  stmt \in S
    OBVIOUS
  <2> HIDE DEF A
  <2>2. A \subseteq S
    BY <1>1, <2>1
  <2>3. Holds(S, stmt)
    BY <1>2, <2>1, <2>2
  <2> QED
    BY <2>1, <2>3
<1>4. ASSUME NEW stmt \in A
      PROVE  Holds(A, stmt)
  <2> DEFINE B == {s \in A : Holds(A, s)}
  <2>1. B \subseteq A /\ B \in SUBSET Stmt
    OBVIOUS
  <2>2. Closed(B)
    <3>1. SUFFICES ASSUME NEW s \in Stmt, Holds(B, s)
                   PROVE  s \in B
      OBVIOUS
    <3>2. Holds(A, s)
      <4> HIDE DEF A, B
      <4> QED
        BY <1>2, <2>1, <3>1
    <3>3. s \in A
      <4> HIDE DEF A
      <4> QED
        BY <1>3, <3>2
    <3> HIDE DEF A
    <3> QED
      BY <3>2, <3>3
  <2>3. A \subseteq B
    <3> HIDE DEF A, B
    <3> QED
      BY <1>1, <2>1, <2>2
  <2> HIDE DEF A
  <2> QED
    BY <2>3
<1>5. A \in SUBSET Stmt
  OBVIOUS
<1> HIDE DEF A
<1> QED
  BY <1>3, <1>4, <1>5

(* alwaysReturns satisfies its definition.                                 *)
LEMMA AlwaysReturnsEquation ==
  alwaysReturns =
    [stmt \in Stmt |->
       CASE stmt.kind = "return" -> TRUE
         [] stmt.kind = "compound" -> \E i \in DOMAIN stmt.stmts : alwaysReturns[stmt.stmts[i]]
         [] stmt.kind = "if" ->
              /\ stmt.else # None
              /\ alwaysReturns[stmt.then]
              /\ alwaysReturns[stmt.else]
         [] OTHER -> FALSE]
<1> DEFINE Body(f, stmt) ==
      CASE stmt.kind = "return" -> TRUE
        [] stmt.kind = "compound" -> \E i \in DOMAIN stmt.stmts : f[stmt.stmts[i]]
        [] stmt.kind = "if" -> stmt.else # None /\ f[stmt.then] /\ f[stmt.else]
        [] OTHER -> FALSE
    Equation(f) ==
      f = [stmt \in Stmt |->
            CASE stmt.kind = "return" -> TRUE
              [] stmt.kind = "compound" -> \E i \in DOMAIN stmt.stmts : f[stmt.stmts[i]]
              [] stmt.kind = "if" ->
                   /\ stmt.else # None
                   /\ f[stmt.then]
                   /\ f[stmt.else]
              [] OTHER -> FALSE]
<1>1. PICK A \in SUBSET Stmt : \A stmt \in Stmt : stmt \in A <=> Holds(A, stmt)
  BY AlwaysReturnsExists
<1> DEFINE g == [stmt \in Stmt |-> IF stmt \in A THEN TRUE ELSE FALSE]
<1>2. ASSUME NEW stmt \in Stmt
      PROVE  (IF stmt \in A THEN TRUE ELSE FALSE) = Body(g, stmt)
  <2>1. StmtShape(stmt)
    BY SyntaxAssumption
  <2>2. \A s \in Stmt : g[s] <=> s \in A
    OBVIOUS
  <2> HIDE DEF g
  <2>3. CASE stmt.kind = "compound"
    <3>1. stmt.stmts \in Seq(Stmt)
      BY <2>1, <2>3 DEF StmtShape
    <3>2. \A i \in DOMAIN stmt.stmts : stmt.stmts[i] \in Stmt
      BY <3>1
    <3>3. (\E i \in DOMAIN stmt.stmts : g[stmt.stmts[i]]) <=> \E i \in DOMAIN stmt.stmts : stmt.stmts[i] \in A
      BY <2>2, <3>2, Zenon
    <3>4. Body(g, stmt) = \E i \in DOMAIN stmt.stmts : g[stmt.stmts[i]]
      BY <2>3, Zenon
    <3>5. Holds(A, stmt) = \E i \in DOMAIN stmt.stmts : stmt.stmts[i] \in A
      BY <2>3, Zenon DEF Holds
    <3>6. stmt \in A <=> \E i \in DOMAIN stmt.stmts : g[stmt.stmts[i]]
      BY <1>1, <3>3, <3>5, Zenon
    <3> HIDE DEF Body
    <3> QED
      BY <3>4, <3>6, Zenon
  <2>4. CASE stmt.kind = "if"
    <3>1. stmt.then \in Stmt /\ (stmt.else # None => stmt.else \in Stmt)
      BY <2>1, <2>4 DEF StmtShape
    <3>2. Body(g, stmt) = (stmt.else # None /\ g[stmt.then] /\ g[stmt.else])
      BY <2>4, Zenon
    <3>3. Holds(A, stmt) = (stmt.else # None /\ stmt.then \in A /\ stmt.else \in A)
      BY <2>4, Zenon DEF Holds
    <3>4. stmt \in A <=> stmt.else # None /\ g[stmt.then] /\ g[stmt.else]
      BY <1>1, <2>2, <3>1, <3>3, Zenon
    <3> HIDE DEF Body
    <3> QED
      BY <3>2, <3>4, Zenon
  <2>5. CASE stmt.kind = "return"
    <3>1. Body(g, stmt) = TRUE /\ Holds(A, stmt) = TRUE
      BY <2>5, Zenon DEF Holds
    <3> HIDE DEF Body
    <3> QED
      BY <1>1, <3>1, Zenon
  <2>6. CASE stmt.kind \notin {"compound", "if", "return"}
    <3>1. Body(g, stmt) = FALSE /\ Holds(A, stmt) = FALSE
      BY <2>6, Zenon DEF Holds
    <3> HIDE DEF Body
    <3> QED
      BY <1>1, <3>1, Zenon
  <2> QED
    BY <2>3, <2>4, <2>5, <2>6
<1>3. Equation(g)
  <2>1. g = [stmt \in Stmt |-> Body(g, stmt)]
    <3> HIDE DEF Body
    <3> QED
      BY <1>2, Zenon
  <2> HIDE DEF g
  <2> QED
    BY <2>1
<1> HIDE DEF g
<1> QED
  BY <1>3, SMT DEF alwaysReturns

(* What it says of each kind of statement.                                 *)
LEMMA AlwaysReturnsCases ==
  ASSUME NEW stmt \in Stmt
  PROVE  /\ stmt.kind = "return" => alwaysReturns[stmt]
         /\ stmt.kind = "compound" =>
              (alwaysReturns[stmt] <=> \E i \in 1..Len(stmt.stmts) : alwaysReturns[stmt.stmts[i]])
         /\ stmt.kind = "if" =>
              (alwaysReturns[stmt] <=>
                 stmt.else # None /\ alwaysReturns[stmt.then] /\ alwaysReturns[stmt.else])
         /\ stmt.kind \in {"exprstmt", "while"} => ~ alwaysReturns[stmt]
<1>1. alwaysReturns[stmt] =
        CASE stmt.kind = "return" -> TRUE
          [] stmt.kind = "compound" -> \E i \in DOMAIN stmt.stmts : alwaysReturns[stmt.stmts[i]]
          [] stmt.kind = "if" ->
               /\ stmt.else # None
               /\ alwaysReturns[stmt.then]
               /\ alwaysReturns[stmt.else]
          [] OTHER -> FALSE
  BY AlwaysReturnsEquation, Zenon
<1>2. stmt.kind = "compound" => DOMAIN stmt.stmts = 1..Len(stmt.stmts)
  <2>1. stmt.kind = "compound" => stmt.stmts \in Seq(Stmt)
    BY SyntaxAssumption DEF StmtShape
  <2> QED
    BY <2>1
<1>3. CASE stmt.kind = "return"
  BY <1>1, <1>3
<1>4. CASE stmt.kind = "compound"
  BY <1>1, <1>2, <1>4, Zenon
<1>5. CASE stmt.kind = "if"
  BY <1>1, <1>5, Zenon
<1>6. CASE stmt.kind \notin {"return", "compound", "if"}
  BY <1>1, <1>6
<1> QED
  BY <1>3, <1>4, <1>5, <1>6

-----------------------------------------------------------------------------
(* The stack.                                                              *)

LEMMA EnteredSame ==
  ASSUME NEW s, NEW t, NEW k, \A m \in 1..(k - 1) : t[m] = s[m]
  PROVE  Entered(t, k) <=> Entered(s, k)
  BY DEF Entered

LEMMA EnteredNext ==
  ASSUME NEW s, NEW k \in Nat \ {0}
  PROVE  Entered(s, k + 1) <=> Entered(s, k) /\ Alive(s[k])
<1>1. 1..(k + 1 - 1) = (1..(k - 1)) \union {k}
  OBVIOUS
<1>2. \A m : m \in 1..(k + 1 - 1) <=> m \in 1..(k - 1) \/ m = k
  BY <1>1
<1>3. Entered(s, k + 1) <=> \A m \in 1..(k + 1 - 1) : Alive(s[m])
  BY DEF Entered
<1>4. Entered(s, k) <=> \A m \in 1..(k - 1) : Alive(s[m])
  BY DEF Entered
<1> QED
  BY <1>2, <1>3, <1>4, Zenon

(* Returning: what was called has stopped the cursor, or not.              *)
LEMMA ReturnLive ==
  ASSUME Working, stack # <<>>, CallsLive(stack), stack' = Return, stack' # <<>>
  PROVE  /\ CallsLive(stack')
         /\ Len(stack') = Len(stack) - 1 /\ Len(stack') \in Nat \ {0}
         /\ \A k \in 1..(Len(stack) - 1) : stack'[k] = stack[k]
         /\ \A k \in 1..(Len(stack) - 1) : Entered(stack', k) <=> Entered(stack, k)
         /\ Entered(stack', Len(stack')) /\ Out(stack'[Len(stack')])
              <=> Entered(stack, Len(stack)) /\ ~ Stops(Top)
<1> DEFINE n == Len(stack)
<1>1. /\ stack' \in Seq(Frame) /\ Len(stack') = n - 1
      /\ \A k \in 1..(n - 1) : stack'[k] = stack[k]
      /\ n \in Nat \ {0}
  BY PopFacts, StackFacts DEF Return, Below
<1>2. n - 1 \in Nat \ {0}
  BY <1>1, EmptySeq
<1>3. ASSUME NEW k \in 1..(n - 1)
      PROVE  Entered(stack', k) <=> Entered(stack, k)
  <2>1. \A m \in 1..(k - 1) : stack'[m] = stack[m]
    BY <1>1
  <2> QED
    BY <2>1, EnteredSame
<1>4. CallsLive(stack')
  <2>1. ASSUME NEW k \in 1..(Len(stack') - 1)
        PROVE  Out(stack'[k]) <=> Alive(stack'[k]) /\ ~ Stops(stack'[k + 1])
    <3>1. k \in 1..(n - 1) /\ k + 1 \in 1..(n - 1)
      BY <1>1
    <3>2. stack'[k] = stack[k] /\ stack'[k + 1] = stack[k + 1]
      BY <1>1, <3>1
    <3> QED
      BY <3>1, <3>2 DEF CallsLive
  <2> QED
    BY <2>1 DEF CallsLive
<1>5. Out(stack[n - 1]) <=> Alive(stack[n - 1]) /\ ~ Stops(Top)
  <2>1. n - 1 \in 1..(n - 1) /\ n - 1 + 1 = n
    BY <1>1, <1>2
  <2>2. Out(stack[n - 1]) <=> Alive(stack[n - 1]) /\ ~ Stops(stack[n - 1 + 1])
    BY <2>1 DEF CallsLive
  <2> QED
    BY <2>1, <2>2 DEF Top
<1>6. Entered(stack, n) <=> Entered(stack, n - 1) /\ Alive(stack[n - 1])
  <2>1. n - 1 + 1 = n
    BY <1>1
  <2>2. Entered(stack, n - 1 + 1) <=> Entered(stack, n - 1) /\ Alive(stack[n - 1])
    BY <1>2, EnteredNext
  <2> QED
    BY <2>1, <2>2
<1>7. n - 1 \in 1..(n - 1)
  BY <1>1, <1>2
<1>8. stack'[Len(stack')] = stack[n - 1]
  BY <1>1, <1>7
<1>9. Entered(stack', Len(stack')) <=> Entered(stack, n - 1)
  BY <1>1, <1>3, <1>7
<1> QED
  BY <1>1, <1>2, <1>3, <1>4, <1>5, <1>6, <1>8, <1>9

(* Going on in the innermost activation.                                   *)
LEMMA ResumeLive ==
  ASSUME Working, stack # <<>>, CallsLive(stack), NEW a \in Frame, stack' = Resume(a),
         Stops(a) <=> Stops(Top)
  PROVE  /\ CallsLive(stack') /\ stack' # <<>>
         /\ Len(stack') = Len(stack) /\ Len(stack') \in Nat \ {0}
         /\ stack'[Len(stack)] = a
         /\ \A k \in 1..(Len(stack) - 1) : stack'[k] = stack[k]
         /\ \A k \in 1..Len(stack) : Entered(stack', k) <=> Entered(stack, k)
<1> DEFINE n == Len(stack)
<1>1. /\ stack' \in Seq(Frame) /\ Len(stack') = n
      /\ \A k \in 1..(n - 1) : stack'[k] = stack[k]
      /\ stack'[n] = a /\ n \in Nat \ {0}
  BY ReplaceFacts, StackFacts DEF Resume, Below
<1>2. ASSUME NEW k \in 1..n
      PROVE  Entered(stack', k) <=> Entered(stack, k)
  <2>1. \A m \in 1..(k - 1) : stack'[m] = stack[m]
    BY <1>1
  <2> QED
    BY <2>1, EnteredSame
<1>3. CallsLive(stack')
  <2>1. ASSUME NEW k \in 1..(Len(stack') - 1)
        PROVE  Out(stack'[k]) <=> Alive(stack'[k]) /\ ~ Stops(stack'[k + 1])
    <3>1. k \in 1..(n - 1) /\ (k + 1 \in 1..(n - 1) \/ k + 1 = n)
      BY <1>1
    <3>2. Out(stack[k]) <=> Alive(stack[k]) /\ ~ Stops(stack[k + 1])
      BY <3>1 DEF CallsLive
    <3>3. Stops(stack'[k + 1]) <=> Stops(stack[k + 1])
      BY <1>1, <3>1 DEF Top
    <3> QED
      BY <1>1, <3>1, <3>2, <3>3
  <2> QED
    BY <2>1 DEF CallsLive
<1>4. stack' # <<>>
  BY <1>1, EmptySeq
<1> QED
  BY <1>1, <1>2, <1>3, <1>4

(* Calling: what is called may stop the cursor.                            *)
LEMMA CallLive ==
  ASSUME Working, stack # <<>>, CallsLive(stack), NEW a \in Frame, NEW b \in Frame,
         stack' = CallFrom(a, b),
         Stops(a) <=> Stops(Top),
         Out(a) <=> Alive(a) /\ ~ Stops(b)
  PROVE  /\ CallsLive(stack') /\ stack' # <<>>
         /\ Len(stack') = Len(stack) + 1 /\ Len(stack') \in Nat \ {0}
         /\ stack'[Len(stack)] = a /\ stack'[Len(stack')] = b
         /\ \A k \in 1..(Len(stack) - 1) : stack'[k] = stack[k]
         /\ \A k \in 1..Len(stack) : Entered(stack', k) <=> Entered(stack, k)
         /\ Entered(stack', Len(stack')) <=> Entered(stack, Len(stack)) /\ Alive(a)
<1> DEFINE n == Len(stack)
<1>1. /\ stack' \in Seq(Frame) /\ Len(stack') = n + 1
      /\ \A k \in 1..(n - 1) : stack'[k] = stack[k]
      /\ stack'[n] = a /\ stack'[n + 1] = b /\ n \in Nat \ {0}
  <2> DEFINE s == Append(Below, a)
  <2>1. /\ s \in Seq(Frame)
        /\ Len(s) = n
        /\ \A k \in 1..(n - 1) : s[k] = stack[k]
        /\ s[n] = a
    BY StackFacts, ResumeFacts, Zenon DEF Below
  <2>2. stack' = Append(s, b) /\ n \in Nat \ {0}
    BY StackFacts DEF CallFrom
  <2> HIDE DEF s
  <2>3. /\ stack' \in Seq(Frame)
        /\ Len(stack') = n + 1
        /\ \A k \in 1..n : stack'[k] = s[k]
        /\ stack'[n + 1] = b
    BY <2>1, <2>2, AppendProperties
  <2> HIDE DEF n
  <2> QED
    BY <2>1, <2>2, <2>3
<1>2. ASSUME NEW k \in 1..n
      PROVE  Entered(stack', k) <=> Entered(stack, k)
  <2>1. \A m \in 1..(k - 1) : stack'[m] = stack[m]
    BY <1>1
  <2> QED
    BY <2>1, EnteredSame
<1>3. CallsLive(stack')
  <2>1. ASSUME NEW k \in 1..(Len(stack') - 1)
        PROVE  Out(stack'[k]) <=> Alive(stack'[k]) /\ ~ Stops(stack'[k + 1])
    <3>1. CASE k = n
      BY <1>1, <3>1
    <3>2. CASE k # n
      <4>1. k \in 1..(n - 1) /\ (k + 1 \in 1..(n - 1) \/ k + 1 = n)
        BY <1>1, <3>2
      <4>2. Out(stack[k]) <=> Alive(stack[k]) /\ ~ Stops(stack[k + 1])
        BY <4>1 DEF CallsLive
      <4>3. Stops(stack'[k + 1]) <=> Stops(stack[k + 1])
        BY <1>1, <4>1 DEF Top
      <4> QED
        BY <1>1, <4>1, <4>2, <4>3
    <3> QED
      BY <3>1, <3>2
  <2> QED
    BY <2>1 DEF CallsLive
<1>4. Entered(stack', n + 1) <=> Entered(stack, n) /\ Alive(a)
  <2>1. Entered(stack', n + 1) <=> Entered(stack', n) /\ Alive(stack'[n])
    BY <1>1, EnteredNext
  <2>2. n \in 1..n
    BY <1>1
  <2> QED
    BY <1>1, <1>2, <2>1, <2>2
<1>5. stack' # <<>>
  BY <1>1, EmptySeq
<1> QED
  BY <1>1, <1>2, <1>3, <1>4, <1>5

-----------------------------------------------------------------------------
(* A step of the walk.                                                     *)

(* What an activation waits for is undisturbed by blocks it did not claim, *)
(* which are reached only when it was entered alive.                       *)
LEMMA KeepBranch ==
  ASSUME NEW a, NEW entered, NEW reach, NEW more,
         BranchOK(a, entered, reach), more # {} => entered, more \intersect Pending(a) = {}
  PROVE  BranchOK(a, entered, reach \union more)
<1>1. CASE a.at \in {"if.then", "if.last"}
  BY <1>1 DEF BranchOK, Pending
<1>2. CASE a.at \in {"while.cond", "while.body"}
  BY <1>2 DEF BranchOK, Pending
<1>3. CASE a.at \notin {"if.then", "if.last", "while.cond", "while.body"}
  BY <1>3 DEF BranchOK
<1> QED
  BY <1>1, <1>2, <1>3

LEMMA WalkStep ==
  ASSUME Working, Walk, stack # <<>>, UNCHANGED <<function, implicit>>,
         stack' # <<>>, Len(stack') \in Nat \ {0}, CallsLive(stack'), NoBranch',
         \A k \in 1..(Len(stack) - 1) : stack'[k] = stack[k],
         \A k \in 1..(Len(stack) - 1) : Entered(stack', k) <=> Entered(stack, k),
         NEW more, Reach(code') = Reach(code) \union more, more # {} => Live,
         \A k \in 1..(Len(stack) - 1) : more \intersect Pending(stack[k]) = {},
         \A k \in 1..Len(stack') :
           k \in 1..(Len(stack) - 1) \/ BranchOK(stack'[k], Entered(stack', k), Reach(code')),
         Live' <=> Entered(stack', Len(stack')) /\ Out(stack'[Len(stack')])
  PROVE  Walk'
<1>1. CallsLive(stack)'
  BY DEF CallsLive, Out, Alive, Stops
<1>2. BranchesLive(stack', Reach(code'))
  <2>1. ASSUME NEW k \in 1..(Len(stack) - 1)
        PROVE  BranchOK(stack'[k], Entered(stack', k), Reach(code'))
    <3>1. k \in 1..Len(stack)
      BY StackFacts
    <3>2. BranchOK(stack[k], Entered(stack, k), Reach(code))
      BY <3>1 DEF Walk, BranchesLive
    <3>3. Live => Entered(stack, k)
      <4>1. Live => Entered(stack, Len(stack))
        BY DEF Walk
      <4>2. \A m \in 1..(k - 1) : m \in 1..(Len(stack) - 1)
        BY StackFacts
      <4> QED
        BY <4>1, <4>2 DEF Entered
    <3>4. BranchOK(stack[k], Entered(stack, k), Reach(code'))
      <4>1. more # {} => Entered(stack, k)
        BY <3>3
      <4>2. more \intersect Pending(stack[k]) = {}
        OBVIOUS
      <4>3. BranchOK(stack[k], Entered(stack, k), Reach(code) \union more)
        BY <3>2, <4>1, <4>2, KeepBranch
      <4> QED
        BY <4>3, Zenon
    <3> QED
      BY <3>4, Zenon DEF BranchOK
  <2> QED
    BY <2>1 DEF BranchesLive
<1>3. BranchesLive(stack, Reach(code))'
  BY <1>2 DEF BranchesLive, BranchOK, Entered, Alive, Reach
<1>4. (Live <=> Entered(stack, Len(stack)) /\ Out(Top))'
  BY DEF Top, Entered, Alive, Out
<1>5. implicit' = 0
  BY DEF Walk
<1> QED
  BY <1>1, <1>3, <1>4, <1>5 DEF Walk

(* A call, a return and a resumption.                                      *)
NewAlive(b) ==
  b.at \in {"compound", "exprstmt", "if", "while", "return", "expr"} /\ b.next = 1

LEMMA CallWalk ==
  ASSUME Working, Walk, stack # <<>>, UNCHANGED <<function, implicit>>, NoBranch',
         NEW a \in Frame, NEW b \in Frame, NewAlive(b), stack' = CallFrom(a, b),
         Stops(a) <=> Stops(Top),
         Out(a) <=> Alive(a) /\ ~ Stops(b),
         NEW more, Reach(code') = Reach(code) \union more, more # {} => Live,
         \A k \in 1..(Len(stack) - 1) : more \intersect Pending(stack[k]) = {},
         BranchOK(a, Entered(stack, Len(stack)), Reach(code')),
         Live' <=> Entered(stack, Len(stack)) /\ Alive(a)
  PROVE  Walk'
<1>1. CallsLive(stack)
  BY DEF Walk
<1>2. /\ CallsLive(stack') /\ stack' # <<>>
      /\ Len(stack') = Len(stack) + 1 /\ Len(stack') \in Nat \ {0}
      /\ stack'[Len(stack)] = a /\ stack'[Len(stack')] = b
      /\ \A k \in 1..(Len(stack) - 1) : stack'[k] = stack[k]
      /\ \A k \in 1..Len(stack) : Entered(stack', k) <=> Entered(stack, k)
      /\ Entered(stack', Len(stack')) <=> Entered(stack, Len(stack)) /\ Alive(a)
  BY <1>1, CallLive
<1>3. Out(b)
  BY DEF Out, NewAlive
<1>4. ASSUME NEW r, NEW e
      PROVE  BranchOK(b, e, r)
  BY DEF BranchOK, NewAlive
<1>5. \A k \in 1..(Len(stack) - 1) : Entered(stack', k) <=> Entered(stack, k)
  BY <1>2, StackFacts
<1>6. ASSUME NEW k \in 1..Len(stack'), k \notin 1..(Len(stack) - 1)
      PROVE  BranchOK(stack'[k], Entered(stack', k), Reach(code'))
  <2>1. k = Len(stack) \/ k = Len(stack')
    BY <1>2, <1>6, StackFacts
  <2>2. CASE k = Len(stack)
    <3>1. Len(stack) \in 1..Len(stack)
      BY StackFacts
    <3>2. Entered(stack', k) <=> Entered(stack, Len(stack))
      BY <1>2, <2>2, <3>1
    <3>3. stack'[k] = a
      BY <1>2, <2>2
    <3> QED
      BY <3>2, <3>3, Zenon DEF BranchOK
  <2>3. CASE k = Len(stack')
    BY <1>2, <1>4, <2>3
  <2> QED
    BY <2>1, <2>2, <2>3
<1>7. Live' <=> Entered(stack', Len(stack')) /\ Out(stack'[Len(stack')])
  BY <1>2, <1>3
<1> QED
  BY <1>2, <1>5, <1>6, <1>7, WalkStep

LEMMA ReturnWalk ==
  ASSUME Working, Walk, stack # <<>>, UNCHANGED <<function, implicit>>, NoBranch',
         stack' = Return, stack' # <<>>,
         NEW more, Reach(code') = Reach(code) \union more, more # {} => Live,
         \A k \in 1..(Len(stack) - 1) : more \intersect Pending(stack[k]) = {},
         Live' <=> Entered(stack, Len(stack)) /\ ~ Stops(Top)
  PROVE  Walk'
<1>1. CallsLive(stack)
  BY DEF Walk
<1>2. /\ CallsLive(stack')
      /\ Len(stack') = Len(stack) - 1 /\ Len(stack') \in Nat \ {0}
      /\ \A k \in 1..(Len(stack) - 1) : stack'[k] = stack[k]
      /\ \A k \in 1..(Len(stack) - 1) : Entered(stack', k) <=> Entered(stack, k)
      /\ Entered(stack', Len(stack')) /\ Out(stack'[Len(stack')])
           <=> Entered(stack, Len(stack)) /\ ~ Stops(Top)
  BY <1>1, ReturnLive
<1>3. \A k \in 1..Len(stack') : k \in 1..(Len(stack) - 1)
  BY <1>2
<1> QED
  BY <1>2, <1>3, WalkStep

LEMMA ResumeWalk ==
  ASSUME Working, Walk, stack # <<>>, UNCHANGED <<function, implicit>>, NoBranch',
         NEW a \in Frame, stack' = Resume(a),
         Stops(a) <=> Stops(Top),
         NEW more, Reach(code') = Reach(code) \union more, more # {} => Live,
         \A k \in 1..(Len(stack) - 1) : more \intersect Pending(stack[k]) = {},
         BranchOK(a, Entered(stack, Len(stack)), Reach(code')),
         Live' <=> Entered(stack, Len(stack)) /\ Out(a)
  PROVE  Walk'
<1>1. CallsLive(stack)
  BY DEF Walk
<1>2. /\ CallsLive(stack') /\ stack' # <<>>
      /\ Len(stack') = Len(stack) /\ Len(stack') \in Nat \ {0}
      /\ stack'[Len(stack)] = a
      /\ \A k \in 1..(Len(stack) - 1) : stack'[k] = stack[k]
      /\ \A k \in 1..Len(stack) : Entered(stack', k) <=> Entered(stack, k)
  BY <1>1, ResumeLive
<1>3. \A k \in 1..(Len(stack) - 1) : Entered(stack', k) <=> Entered(stack, k)
  BY <1>2, StackFacts
<1>4. Len(stack) \in 1..Len(stack)
  BY StackFacts
<1>5. BranchOK(stack'[Len(stack)], Entered(stack', Len(stack)), Reach(code'))
  BY <1>2, <1>4, Zenon DEF BranchOK
<1>6. ASSUME NEW k \in 1..Len(stack'), k \notin 1..(Len(stack) - 1)
      PROVE  BranchOK(stack'[k], Entered(stack', k), Reach(code'))
  <2>1. k = Len(stack)
    BY <1>2, <1>6, StackFacts
  <2> QED
    BY <1>5, <2>1
<1>7. Live' <=> Entered(stack', Len(stack')) /\ Out(stack'[Len(stack')])
  BY <1>2, <1>4
<1> QED
  BY <1>2, <1>3, <1>6, <1>7, WalkStep

-----------------------------------------------------------------------------
(* What a step adds to the blocks that can be reached.                     *)

TargetsOf(i) == {i.to[t] : t \in 1..Len(i.to)}

LEMMA SuccAppend ==
  ASSUME NEW s \in Seq(Instructions), NEW i \in Instructions
  PROVE  Succ(Append(s, i)) = TargetsOf(i)
<1>1. Len(s) \in Nat
  BY LenProperties
<1> DEFINE u == Append(s, i)
<1>2. u \in Seq(Instructions) /\ Len(u) = Len(s) + 1 /\ u[Len(s) + 1] = i
  BY AppendProperties
<1>3. u # <<>>
  BY <1>1, <1>2
<1> HIDE DEF u
<1>4. u[Len(u)] = i
  BY <1>2
<1>5. Succ(u) = TargetsOf(i)
  BY <1>3, <1>4, Zenon DEF Succ, TargetsOf
<1> QED
  BY <1>5 DEF u

(* Code whose branches are in order has no branch out of it.               *)
LEMMA InsideCode ==
  ASSUME NEW c, Len(c) \in Nat \ {0}, CodeOK(c), \A b \in 1..Len(c) : c[b] \in Seq(Instructions)
  PROVE  Inside(c)
<1> SUFFICES ASSUME NEW b \in 1..Len(c), NEW x \in Succ(c[b])
             PROVE  x \in 1..Len(c)
  BY DEF Inside
<1>1. c[b] # <<>>
  BY DEF Succ
<1>2. Len(c[b]) \in 1..Len(c[b])
  <2>1. Len(c[b]) \in Nat \ {0}
    BY <1>1, EmptySeq, LenProperties
  <2> QED
    BY <2>1
<1>3. BlockOK(c[b], Len(c))
  BY DEF CodeOK
<1>4. PICK last : last = c[b][Len(c[b])]
  OBVIOUS
<1>5. \A t \in 1..Len(last.to) : last.to[t] \in 1..Len(c)
  BY <1>2, <1>3, <1>4, Zenon DEF BlockOK
<1>6. Succ(c[b]) = {last.to[t] : t \in 1..Len(last.to)}
  BY <1>1, <1>4, Zenon DEF Succ
<1>7. PICK t \in 1..Len(last.to) : x = last.to[t]
  BY <1>6
<1> QED
  BY <1>5, <1>7

LEMMA InsideFacts ==
  ASSUME Working, Flow
  PROVE  Inside(code)
<1>1. Len(code) \in Nat \ {0}
  BY CodeFacts
<1> QED
  BY <1>1, CodeFacts, InsideCode DEF Flow, Blocks

(* The block of the cursor gets an instruction; a branch leads to blocks   *)
(* that had been reached or are not filled yet.                            *)
LEMMA ReachStep ==
  ASSUME Working, Flow, NoBranch, blockOpen, Working', Flow',
         NEW i \in Instructions,
         Len(code) <= Len(code'),
         \A b \in Blocks : b # cursor => code'[b] = code[b],
         code'[cursor] = Append(code[cursor], i),
         \A b \in (Len(code) + 1)..Len(code') : Succ(code'[b]) = {},
         Live => \A x \in TargetsOf(i) : x \in Reach(code) \/ Succ(code'[x]) = {},
         IsTerminator(i) \/ TargetsOf(i) = {}
  PROVE  /\ Reach(code') = Reach(code) \union (IF Live THEN TargetsOf(i) ELSE {})
         /\ NoBranch'
<1>1. Inside(code) /\ Inside(code')
  <2>1. Inside(code)
    BY InsideFacts
  <2>2. Len(code') \in Nat \ {0} /\ (\A b \in 1..Len(code') : code'[b] \in Seq(Instructions))
    <3>1. code' \in Seq(Seq(Instructions)) /\ Len(code') \in Nat \ {0}
      BY DEF Working, Blocks
    <3> QED
      BY <3>1, ElementOfSeq
  <2>3. CodeOK(code')
    BY DEF Flow
  <2> QED
    BY <2>1, <2>2, <2>3, InsideCode
<1>2. cursor \in 1..Len(code) /\ code[cursor] \in Seq(Instructions) /\ Len(code) \in Nat
  BY CodeFacts DEF Blocks
<1>3. Succ(code'[cursor]) = TargetsOf(i)
  BY <1>2, SuccAppend
<1>4. Succ(code[cursor]) = {}
  BY <1>2 DEF NoBranch, blockOpen, Blocks
<1>5. \A b \in 1..Len(code) : b # cursor => Succ(code'[b]) = Succ(code[b])
  BY DEF Blocks
<1>6. Live <=> cursor \in Reach(code)
  BY DEF Live
<1>7. cursor \in Reach(code) =>
        \A x \in Succ(code'[cursor]) : x \in Reach(code) \/ Succ(code'[x]) = {}
  BY <1>3, <1>6
<1>8. Reach(code') =
        Reach(code) \union (IF cursor \in Reach(code) THEN Succ(code'[cursor]) ELSE {})
  BY <1>1, <1>2, <1>4, <1>5, <1>7, ReachGrows
<1>9. NoBranch'
  <2> SUFFICES ASSUME NEW b \in 1..Len(code'), IsOpen(code'[b])
               PROVE  Succ(code'[b]) = {}
    BY DEF NoBranch, Blocks
  <2>1. CASE b = cursor
    <3>1. code'[cursor] # <<>> /\ code'[cursor][Len(code'[cursor])] = i
      <4>1. Len(code[cursor]) \in Nat
        BY <1>2, LenProperties
      <4>2. /\ code'[cursor] \in Seq(Instructions)
            /\ Len(code'[cursor]) = Len(code[cursor]) + 1
            /\ code'[cursor][Len(code[cursor]) + 1] = i
        BY <1>2, AppendProperties
      <4>3. code'[cursor] # <<>>
        BY <4>1, <4>2, EmptySeq
      <4> QED
        BY <4>2, <4>3
    <3>2. ~ IsTerminator(i)
      <4>1. IsOpen(code'[cursor])
        BY <2>1
      <4> QED
        BY <3>1, <4>1, Zenon DEF IsOpen
    <3> QED
      BY <1>3, <2>1, <3>2
  <2>2. CASE b # cursor /\ b \in 1..Len(code)
    BY <2>2 DEF NoBranch, Blocks
  <2>3. CASE b \notin 1..Len(code)
    <3>1. b \in (Len(code) + 1)..Len(code')
      BY <1>2, <2>3
    <3> QED
      BY <3>1
  <2> QED
    BY <2>1, <2>2, <2>3
<1> QED
  BY <1>3, <1>6, <1>8, <1>9

LEMMA BranchTargets ==
  ASSUME NEW x, NEW y
  PROVE  /\ TargetsOf(Br(x)) = {x}
         /\ TargetsOf(CondBr("cond", x, y)) = {x, y}
         /\ TargetsOf(CondBr("index", x, y)) = {x, y}
<1>1. Br(x).to = <<x>> /\ CondBr("cond", x, y).to = <<x, y>> /\ CondBr("index", x, y).to = <<x, y>>
  BY DEF Br, CondBr
<1>2. {<<x>>[t] : t \in 1..Len(<<x>>)} = {x}
  OBVIOUS
<1>3. {<<x, y>>[t] : t \in 1..Len(<<x, y>>)} = {x, y}
  <2>1. Len(<<x, y>>) = 2 /\ 1..2 = {1, 2}
    OBVIOUS
  <2>2. <<x, y>>[1] = x /\ <<x, y>>[2] = y
    OBVIOUS
  <2> QED
    BY <2>1, <2>2
<1> QED
  BY <1>1, <1>2, <1>3 DEF TargetsOf

LEMMA PlainTargets ==
  ASSUME NEW i, i.to = <<>>
  PROVE  TargetsOf(i) = {}
  BY DEF TargetsOf

(* Closing an arm.                                                         *)
LEMMA CloseReach ==
  ASSUME Working, Flow, NoBranch, Working', Flow',
         NEW b \in Blocks, CloseWith(b),
         Live => b \in Reach(code) \/ (code[b] = <<>> /\ b # cursor)
  PROVE  /\ Reach(code') = Reach(code) \union (IF Live THEN {b} ELSE {})
         /\ NoBranch'
<1>1. CASE ~ blockOpen
  <2>1. code' = code
    BY <1>1 DEF CloseWith
  <2>2. ~ Live
    BY <1>1 DEF Live
  <2> QED
    BY <2>1, <2>2 DEF NoBranch, Blocks
<1>2. CASE blockOpen
  <2>1. Emit(Br(b))
    BY <1>2 DEF CloseWith
  <2>2. Br(b) \in Instructions /\ IsTerminator(Br(b))
    BY BrFacts
  <2>3. /\ Len(code') = Len(code)
        /\ \A x \in Blocks : x # cursor => code'[x] = code[x]
        /\ code'[cursor] = Append(code[cursor], Br(b))
    BY <2>1, <2>2, EmitFacts
  <2>4. TargetsOf(Br(b)) = {b}
    BY BranchTargets
  <2>5. Live => \A x \in TargetsOf(Br(b)) : x \in Reach(code) \/ Succ(code'[x]) = {}
    BY <2>3, <2>4 DEF Succ
  <2>6. Len(code) \in Nat /\ Len(code) <= Len(code') /\ (Len(code) + 1)..Len(code') = {}
    BY <2>3, CodeFacts
  <2>7. \A x \in (Len(code) + 1)..Len(code') : Succ(code'[x]) = {}
    BY <2>6
  <2> QED
    BY <1>2, <2>2, <2>3, <2>4, <2>5, <2>6, <2>7, ReachStep
<1> QED
  BY <1>1, <1>2

-----------------------------------------------------------------------------
(* Each action keeps the walks together.  First those that leave the       *)
(* blocks alone.                                                           *)

(* The innermost activation, before a step.                                *)
LEMMA TopWalk ==
  ASSUME Working, Walk, stack # <<>>
  PROVE  /\ Live <=> Entered(stack, Len(stack)) /\ Out(Top)
         /\ BranchOK(Top, Entered(stack, Len(stack)), Reach(code))
  BY StackFacts, Zenon DEF Walk, BranchesLive, Top

LEMMA SameReach ==
  ASSUME Working, Walk, UNCHANGED <<code, cursor>>
  PROVE  /\ NoBranch' /\ Reach(code') = Reach(code) \union {} /\ Live' = Live
  BY DEF Walk, NoBranch, Blocks, Live, blockOpen

LEMMA NewStmtAlive ==
  ASSUME NEW stmt \in Stmt
  PROVE  NewAlive(emitStmt(stmt)) /\ emitStmt(stmt) \in Frame
         /\ (Stops(emitStmt(stmt)) <=> alwaysReturns[stmt])
<1>1. stmt.kind \in {"compound", "exprstmt", "if", "while", "return"}
  BY SyntaxAssumption DEF StmtShape
<1>2. emitStmt(stmt).at = stmt.kind /\ emitStmt(stmt).node = stmt /\ emitStmt(stmt).next = 1
  BY DEF emitStmt, Activation
<1> QED
  BY <1>1, <1>2, NewStmtFrame DEF NewAlive, NewFrame, Stops

LEMMA NewExprAlive ==
  ASSUME NEW expr \in Expr
  PROVE  NewAlive(emitExpr(expr)) /\ emitExpr(expr) \in Frame /\ ~ Stops(emitExpr(expr))
<1>1. emitExpr(expr).at = "expr" /\ emitExpr(expr).next = 1
  BY DEF emitExpr, Activation
<1> QED
  BY <1>1, NewExprFrame DEF NewAlive, NewFrame, Stops

(* An expression never stops the cursor.                                   *)
LEMMA ExprAlive ==
  ASSUME NEW a, a.at = "expr"
  PROVE  /\ Alive(a) /\ Out(a) /\ ~ Stops(a)
         /\ \A e, r : BranchOK(a, e, r)
  BY DEF Alive, Out, Stops, BranchOK

LEMMA EmitSubexprWalk ==
  ASSUME Working, Flow, Walk, EmitSubexpr
  PROVE  Walk'
<1>1. /\ stack # <<>> /\ Top.at = "expr"
      /\ stack' = CallFrom(Advanced, emitExpr(Part.of))
      /\ UNCHANGED <<function, implicit, code, cursor>>
  BY DEF EmitSubexpr, AtPart, At
<1>2. Part.of \in Expr
  BY PartFacts DEF EmitSubexpr, AtPart
<1>3. Advanced \in Frame /\ Advanced.at = "expr"
  BY <1>1, AdvancedFacts
<1>4. NewAlive(emitExpr(Part.of)) /\ emitExpr(Part.of) \in Frame /\ ~ Stops(emitExpr(Part.of))
  BY <1>2, NewExprAlive
<1>5. NoBranch' /\ Reach(code') = Reach(code) \union {} /\ Live' = Live
  BY <1>1, SameReach
<1>6. /\ Stops(Advanced) <=> Stops(Top)
      /\ Out(Advanced) <=> Alive(Advanced) /\ ~ Stops(emitExpr(Part.of))
      /\ BranchOK(Advanced, Entered(stack, Len(stack)), Reach(code'))
  BY <1>1, <1>3, <1>4, ExprAlive
<1>7. Live' <=> Entered(stack, Len(stack)) /\ Alive(Advanced)
  BY <1>1, <1>3, <1>5, ExprAlive, TopWalk
<1> QED
  BY <1>1, <1>3, <1>4, <1>5, <1>6, <1>7, CallWalk

LEMMA SkipCheckWalk ==
  ASSUME Working, Flow, Walk, SkipCheck
  PROVE  Walk'
<1>1. /\ stack # <<>> /\ Top.at = "expr"
      /\ stack' = Resume(Advanced)
      /\ UNCHANGED <<function, implicit, code, cursor>>
  BY DEF SkipCheck, AtPart, At
<1>2. Advanced \in Frame /\ Advanced.at = "expr"
  BY <1>1, AdvancedFacts
<1>3. NoBranch' /\ Reach(code') = Reach(code) \union {} /\ Live' = Live
  BY <1>1, SameReach
<1>4. /\ Stops(Advanced) <=> Stops(Top)
      /\ BranchOK(Advanced, Entered(stack, Len(stack)), Reach(code'))
      /\ Live' <=> Entered(stack, Len(stack)) /\ Out(Advanced)
  BY <1>1, <1>2, <1>3, ExprAlive, TopWalk
<1> QED
  BY <1>1, <1>2, <1>3, <1>4, ResumeWalk

(* Who returns without touching the blocks is under another activation.    *)
LEMMA QuietReturnWalk ==
  ASSUME Working, Flow, Walk, stack # <<>>, Top.at # "function.end",
         stack' = Return, UNCHANGED <<function, implicit, code, cursor>>,
         Live <=> Entered(stack, Len(stack)) /\ ~ Stops(Top)
  PROVE  Walk'
<1>1. stack' # <<>>
  BY ReturnShape
<1>2. NoBranch' /\ Reach(code') = Reach(code) \union {} /\ Live' = Live
  BY SameReach
<1> QED
  BY <1>1, <1>2, ReturnWalk

LEMMA EndExprWalk ==
  ASSUME Working, Flow, Walk, EndExpr
  PROVE  Walk'
<1>1. /\ stack # <<>> /\ Top.at = "expr" /\ stack' = Return
      /\ UNCHANGED <<function, implicit, code, cursor>>
  BY DEF EndExpr, At
<1>2. Live <=> Entered(stack, Len(stack)) /\ ~ Stops(Top)
  BY <1>1, ExprAlive, TopWalk
<1> QED
  BY <1>1, <1>2, QuietReturnWalk

LEMMA EmitExprStmtWalk ==
  ASSUME Working, Flow, Walk, EmitExprStmt
  PROVE  Walk'
<1>1. /\ stack # <<>> /\ Top.at = "exprstmt"
      /\ stack' = IF Top.node.expr = None THEN Return ELSE Resume(emitExpr(Top.node.expr))
      /\ UNCHANGED <<function, implicit, code, cursor>>
  BY DEF EmitExprStmt, At
<1>2. Top.node \in Stmt /\ Top.node.kind = "exprstmt" /\ StmtShape(Top.node)
  BY <1>1, NodeFacts DEF StatementOf
<1>3. ~ Stops(Top) /\ Out(Top)
  BY <1>1, <1>2, AlwaysReturnsCases DEF Stops, Out
<1>4. CASE Top.node.expr = None
  <2>1. Live <=> Entered(stack, Len(stack)) /\ ~ Stops(Top)
    BY <1>1, <1>3, TopWalk
  <2> QED
    BY <1>1, <1>4, <2>1, QuietReturnWalk
<1>5. CASE Top.node.expr # None
  <2> DEFINE a == emitExpr(Top.node.expr)
  <2>1. Top.node.expr \in Expr
    BY <1>2, <1>5 DEF StmtShape
  <2>2. a \in Frame /\ a.at = "expr"
    BY <2>1, NewExprFrame DEF NewFrame
  <2>3. stack' = Resume(a)
    BY <1>1, <1>5
  <2> HIDE DEF a
  <2>4. NoBranch' /\ Reach(code') = Reach(code) \union {} /\ Live' = Live
    BY <1>1, SameReach
  <2>5. /\ Stops(a) <=> Stops(Top)
        /\ BranchOK(a, Entered(stack, Len(stack)), Reach(code'))
        /\ Live' <=> Entered(stack, Len(stack)) /\ Out(a)
    BY <1>1, <1>3, <2>2, <2>4, ExprAlive, TopWalk
  <2> QED
    BY <1>1, <2>2, <2>3, <2>4, <2>5, ResumeWalk
<1> QED
  BY <1>4, <1>5

LEMMA CompoundAlive ==
  ASSUME NEW a, NEW stmts, NEW next,
         a.at = "compound", a.node.stmts = stmts, a.next = next
  PROVE  /\ Alive(a) <=> \A j \in 1..Len(stmts) : j < next - 1 => ~ alwaysReturns[stmts[j]]
         /\ Out(a) <=> \A j \in 1..Len(stmts) : j < next => ~ alwaysReturns[stmts[j]]
  BY DEF Alive, Out

(* A compound statement goes on while the block is open: it stops behind   *)
(* the first statement that always returns.                                *)
LEMMA EmitCompoundWalk ==
  ASSUME Working, Flow, Walk, EmitCompound
  PROVE  Walk'
<1> DEFINE stmts == Top.node.stmts
           b == emitStmt(stmts[Top.next])
<1>1. /\ stack # <<>> /\ Top.at = "compound"
      /\ Top.next <= Len(stmts)
      /\ stack' = CallFrom(Advanced, b)
      /\ UNCHANGED <<function, implicit, code, cursor>>
  BY DEF EmitCompound, CompoundGoesOn, At
<1>2. stmts \in Seq(Stmt) /\ Top.next \in Nat \ {0}
  BY <1>1, NodeFacts, TopFacts DEF StatementOf, StmtShape, Frame
<1>3. /\ Len(stmts) \in Nat /\ Top.next \in 1..Len(stmts)
      /\ stmts[Top.next] \in Stmt
  BY <1>1, <1>2, LenProperties, ElementOfSeq
<1>4. /\ Advanced \in Frame /\ Advanced.at = "compound" /\ Advanced.node = Top.node
      /\ Advanced.next = Top.next + 1
  BY <1>1, AdvancedFacts
<1>5. /\ NewAlive(b) /\ b \in Frame
      /\ Stops(b) <=> alwaysReturns[stmts[Top.next]]
  BY <1>3, NewStmtAlive
<1> HIDE DEF b
<1>6. Alive(Advanced) <=> Out(Top)
  BY <1>1, <1>2, <1>4 DEF Alive, Out
<1>7. Out(Advanced) <=> Alive(Advanced) /\ ~ Stops(b)
  <2>1. Out(Advanced) <=>
          \A j \in 1..Len(stmts) : j < Advanced.next => ~ alwaysReturns[stmts[j]]
    BY <1>4, CompoundAlive
  <2>2. Alive(Advanced) <=>
          \A j \in 1..Len(stmts) : j < Advanced.next - 1 => ~ alwaysReturns[stmts[j]]
    BY <1>4, CompoundAlive
  <2>3. \A j \in 1..Len(stmts) : j < Advanced.next <=> j < Advanced.next - 1 \/ j = Top.next
    BY <1>3, <1>4
  <2> HIDE DEF stmts
  <2> QED
    BY <1>3, <1>5, <2>1, <2>2, <2>3, Zenon
<1>8. NoBranch' /\ Reach(code') = Reach(code) \union {} /\ Live' = Live
  BY <1>1, SameReach
<1>9. /\ Stops(Advanced) <=> Stops(Top)
      /\ BranchOK(Advanced, Entered(stack, Len(stack)), Reach(code'))
  BY <1>1, <1>4 DEF Stops, BranchOK
<1>10. Live' <=> Entered(stack, Len(stack)) /\ Alive(Advanced)
  BY <1>1, <1>6, <1>8, TopWalk
<1> QED
  BY <1>1, <1>4, <1>5, <1>7, <1>8, <1>9, <1>10, CallWalk

LEMMA EndCompoundWalk ==
  ASSUME Working, Flow, Walk, EndCompound
  PROVE  Walk'
<1> DEFINE stmts == Top.node.stmts
<1>1. /\ stack # <<>> /\ Top.at = "compound" /\ stack' = Return
      /\ UNCHANGED <<function, implicit, code, cursor>>
      /\ ~ (Top.next <= Len(stmts) /\ (Top.next > 1 => blockOpen))
  BY DEF EndCompound, CompoundGoesOn, At
<1>2. Top.node \in Stmt /\ Top.node.kind = "compound" /\ stmts \in Seq(Stmt)
  BY <1>1, NodeFacts DEF StatementOf, StmtShape
<1>3. Len(stmts) \in Nat /\ Top.next \in Nat
  BY <1>1, <1>2, LenProperties, TopFacts DEF Frame
<1>4. Stops(Top) <=> \E j \in 1..Len(stmts) : alwaysReturns[stmts[j]]
  BY <1>1, <1>2, AlwaysReturnsCases, Zenon DEF Stops
<1>5. Out(Top) <=> \A j \in 1..Len(stmts) : j < Top.next => ~ alwaysReturns[stmts[j]]
  BY <1>1, Zenon DEF Out
<1>6. Live <=> Entered(stack, Len(stack)) /\ Out(Top)
  BY <1>1, TopWalk
<1>7. Live <=> Entered(stack, Len(stack)) /\ ~ Stops(Top)
  <2>1. CASE Top.next > Len(stmts)
    <3>1. \A j \in 1..Len(stmts) : j < Top.next
      BY <1>3, <2>1
    <3> QED
      BY <1>4, <1>5, <1>6, <3>1, Zenon
  <2>2. CASE ~ blockOpen
    <3>1. ~ Live
      BY <2>2 DEF Live
    <3> QED
      BY <1>4, <1>5, <1>6, <3>1, Zenon
  <2> QED
    BY <1>1, <1>3, <2>1, <2>2
<1> QED
  BY <1>1, <1>7, QuietReturnWalk

LEMMA EmitCondWalk ==
  ASSUME Working, Flow, Walk, stack # <<>>, Top.at \in {"if", "return"},
         UNCHANGED <<function, implicit, code, cursor>>,
         NEW label \in {"if.cond", "return.value"}, NEW e \in Expr,
         stack' = CallFrom([Top EXCEPT !.at = label], emitExpr(e))
  PROVE  Walk'
<1>1. Top \in Frame
  BY TopFacts
<1> DEFINE a == [Top EXCEPT !.at = label]
<1>2. a \in Frame /\ a.at = label /\ a.node = Top.node
  BY <1>1 DEF Frame, Labels
<1>3. stack' = CallFrom(a, emitExpr(e))
  OBVIOUS
<1> HIDE DEF a
<1>4. NewAlive(emitExpr(e)) /\ emitExpr(e) \in Frame /\ ~ Stops(emitExpr(e))
  BY NewExprAlive
<1>5. NoBranch' /\ Reach(code') = Reach(code) \union {} /\ Live' = Live
  BY SameReach
<1>6. /\ Stops(a) <=> Stops(Top)
      /\ Out(a) /\ Alive(a) /\ Out(Top)
      /\ BranchOK(a, Entered(stack, Len(stack)), Reach(code'))
  BY <1>2 DEF Stops, Out, Alive, BranchOK
<1>7. Live' <=> Entered(stack, Len(stack)) /\ Alive(a)
  BY <1>5, <1>6, TopWalk
<1>8. Out(a) <=> Alive(a) /\ ~ Stops(emitExpr(e))
  BY <1>4, <1>6
<1> QED
  BY <1>2, <1>3, <1>4, <1>5, <1>6, <1>7, <1>8, CallWalk

LEMMA EmitIfWalk ==
  ASSUME Working, Flow, Walk, EmitIf
  PROVE  Walk'
<1>1. /\ stack # <<>> /\ Top.at = "if"
      /\ stack' = CallFrom([Top EXCEPT !.at = "if.cond"], emitExpr(Top.node.cond))
      /\ UNCHANGED <<function, implicit, code, cursor>>
  BY DEF EmitIf, At
<1>2. Top.node.cond \in Expr
  BY <1>1, NodeFacts DEF StatementOf, StmtShape
<1> QED
  BY <1>1, <1>2, EmitCondWalk

LEMMA EmitReturnValueWalk ==
  ASSUME Working, Flow, Walk, EmitReturnValue
  PROVE  Walk'
<1>1. /\ stack # <<>> /\ Top.at = "return" /\ Top.node.value # None
      /\ stack' = CallFrom([Top EXCEPT !.at = "return.value"], emitExpr(Top.node.value))
      /\ UNCHANGED <<function, implicit, code, cursor>>
  BY DEF EmitReturnValue, At
<1>2. Top.node.value \in Expr
  BY <1>1, NodeFacts DEF StatementOf, StmtShape
<1> QED
  BY <1>1, <1>2, EmitCondWalk

-----------------------------------------------------------------------------
(* Those that write in the cursor's block and leave the cursor there.      *)

LEMMA WriteReach ==
  ASSUME Working, Flow, Walk, blockOpen, Working', Flow',
         NEW i \in Instructions, i.to = <<>>, Emit(i), UNCHANGED cursor
  PROVE  /\ Reach(code') = Reach(code) /\ NoBranch'
         /\ blockOpen' <=> ~ IsTerminator(i)
<1>1. /\ Len(code') = Len(code)
      /\ \A x \in Blocks : x # cursor => code'[x] = code[x]
      /\ code'[cursor] = Append(code[cursor], i)
  BY EmitFacts
<1>2. TargetsOf(i) = {}
  BY PlainTargets
<1>3. Len(code) \in Nat /\ Len(code) <= Len(code') /\ (Len(code) + 1)..Len(code') = {}
  BY <1>1, CodeFacts
<1>4. \A x \in (Len(code) + 1)..Len(code') : Succ(code'[x]) = {}
  BY <1>3
<1>5. NoBranch
  BY DEF Walk
<1>6. /\ Reach(code') = Reach(code) \union (IF Live THEN TargetsOf(i) ELSE {})
      /\ NoBranch'
  BY <1>1, <1>2, <1>3, <1>4, <1>5, ReachStep
<1>7. blockOpen' <=> ~ IsTerminator(i)
  <2>1. code[cursor] \in Seq(Instructions) /\ Len(code[cursor]) \in Nat
    BY CodeFacts, LenProperties DEF Blocks
  <2>2. /\ code'[cursor] \in Seq(Instructions)
        /\ Len(code'[cursor]) = Len(code[cursor]) + 1
        /\ code'[cursor][Len(code[cursor]) + 1] = i
    BY <1>1, <2>1, AppendProperties
  <2>3. code'[cursor] # <<>> /\ code'[cursor][Len(code'[cursor])] = i
    BY <2>1, <2>2
  <2>4. IsOpen(code'[cursor]) <=> ~ IsTerminator(i)
    BY <2>3, Zenon DEF IsOpen
  <2> QED
    BY <2>4 DEF blockOpen
<1> QED
  BY <1>2, <1>6, <1>7

LEMMA EmitInstructionWalk ==
  ASSUME Working, Flow, Walk, EmitInstruction
  PROVE  Walk'
<1>1. /\ stack # <<>> /\ Top.at = "expr"
      /\ stack' = Resume(Advanced)
      /\ Emit(Part.of)
      /\ UNCHANGED <<function, implicit, cursor>>
  BY DEF EmitInstruction, AtPart, At
<1>2. Part.of \in Instructions /\ ~ IsTerminator(Part.of) /\ Part.of.to = <<>>
  BY PartFacts DEF EmitInstruction, AtPart, Plain
<1>3. Advanced \in Frame /\ Advanced.at = "expr"
  BY <1>1, AdvancedFacts
<1>4. blockOpen
  BY <1>1, ExprOpen DEF Expects
<1>5. Working' /\ Flow'
  BY EmitInstructionType, EmitInstructionFlow
<1>6. Reach(code') = Reach(code) /\ NoBranch' /\ blockOpen'
  BY <1>1, <1>2, <1>4, <1>5, WriteReach
<1>7. Live' <=> Live
  <2>1. Live' <=> blockOpen' /\ cursor' \in Reach(code')
    BY DEF Live
  <2> QED
    BY <1>1, <1>4, <1>6, <2>1 DEF Live
<1>8. /\ Stops(Advanced) <=> Stops(Top)
      /\ BranchOK(Advanced, Entered(stack, Len(stack)), Reach(code'))
      /\ Live' <=> Entered(stack, Len(stack)) /\ Out(Advanced)
  BY <1>1, <1>3, <1>7, ExprAlive, TopWalk
<1>9. Reach(code') = Reach(code) \union {}
  BY <1>6
<1> QED
  BY <1>1, <1>3, <1>6, <1>8, <1>9, ResumeWalk

LEMMA RetTargets ==
  ASSUME NEW v \in {"void", "value", "zero"}
  PROVE  Ret(v) \in Instructions /\ IsTerminator(Ret(v)) /\ Ret(v).to = <<>>
  BY RetInstructions DEF Ret, Instruction, IsTerminator

LEMMA EmitReturnWalk ==
  ASSUME Working, Flow, Walk, EmitReturn
  PROVE  Walk'
<1>1. /\ stack # <<>> /\ Top.at \in {"return", "return.value"}
      /\ stack' = Return
      /\ UNCHANGED <<function, implicit, cursor>>
  BY DEF EmitReturn, At
<1>2. PICK v \in {"void", "value", "zero"} : Emit(Ret(v))
  BY DEF EmitReturn
<1>3. blockOpen
  BY <1>1, ExprOpen DEF Expects
<1>4. Working' /\ Flow'
  BY EmitReturnType, EmitReturnFlow
<1>5. Reach(code') = Reach(code) /\ NoBranch' /\ ~ blockOpen'
  BY <1>1, <1>2, <1>3, <1>4, RetTargets, WriteReach
<1>6. ~ Live'
  BY <1>5 DEF Live
<1>7. Stops(Top)
  <2>1. Top.node \in Stmt /\ Top.node.kind = "return"
    BY <1>1, NodeFacts DEF StatementOf
  <2> QED
    BY <1>1, <2>1, AlwaysReturnsCases DEF Stops
<1>8. stack' # <<>>
  BY <1>1, ReturnShape
<1>9. Reach(code') = Reach(code) \union {}
  BY <1>5
<1> QED
  BY <1>1, <1>5, <1>6, <1>7, <1>8, <1>9, ReturnWalk

(* The end of the function: the return added there is reached exactly when *)
(* the cursor is alive.                                                    *)
LEMMA EndFunctionWalk ==
  ASSUME Working, Flow, Walk, EndFunction
  PROVE  Walk'
<1>1. /\ stack # <<>> /\ Top.at = "function.end"
      /\ stack' = Return
      /\ UNCHANGED <<function, cursor>>
  BY DEF EndFunction, At
<1>2. stack' = <<>> /\ Len(stack) = 1
  <2>1. stack' = <<>>
    BY <1>1, ReturnShape
  <2>2. Len(stack') = Len(stack) - 1
    BY <1>1, PopFacts, StackFacts DEF Return, Below
  <2> QED
    BY <1>1, <2>1, <2>2, StackFacts
<1>3. Entered(stack, Len(stack))
  BY <1>2 DEF Entered
<1>4. Live <=> ~ alwaysReturns[function.body]
  <2>1. Out(Top) <=> ~ alwaysReturns[function.body]
    BY <1>1 DEF Out
  <2> QED
    BY <1>1, <1>3, <2>1, TopWalk
<1>5. Working' /\ Flow'
  BY EndFunctionType, EndFunctionFlow
<1>6. NoBranch' /\ (alwaysReturns[function.body] <=> implicit' \notin Reach(code'))
  <2>1. CASE blockOpen
    <3>1. implicit' = cursor
      BY <2>1 DEF EndFunction
    <3>2. PICK v \in {"void", "value", "zero"} : Emit(Ret(v))
      BY <2>1 DEF EndFunction
    <3>3. Reach(code') = Reach(code) /\ NoBranch'
      BY <1>1, <1>5, <2>1, <3>2, RetTargets, WriteReach
    <3> QED
      BY <1>4, <2>1, <3>1, <3>3 DEF Live
  <2>2. CASE ~ blockOpen
    <3>1. UNCHANGED <<code, implicit>>
      BY <2>2 DEF EndFunction
    <3>2. implicit = 0 /\ NoBranch
      BY <1>1 DEF Walk
    <3>3. 0 \notin Reach(code)
      BY CodeFacts DEF Reach
    <3>4. NoBranch'
      BY <3>1, <3>2 DEF NoBranch, Blocks
    <3> QED
      BY <1>4, <2>2, <3>1, <3>2, <3>3, <3>4 DEF Live
  <2> QED
    BY <2>1, <2>2
<1>7. CallsLive(stack)' /\ BranchesLive(stack, Reach(code))'
  <2>1. 1..Len(stack') = {} /\ 1..(Len(stack') - 1) = {}
    BY <1>2
  <2> QED
    BY <2>1 DEF CallsLive, BranchesLive
<1> QED
  BY <1>1, <1>2, <1>6, <1>7 DEF Walk

-----------------------------------------------------------------------------
(* Those that create blocks.                                               *)

(* What can be reached has been created, and so have the blocks others     *)
(* wait for.                                                               *)
LEMMA NewBlocks ==
  ASSUME Working
  PROVE  /\ Len(code) \in Nat
         /\ \A x \in (Len(code) + 1)..(Len(code) + 3) : x \notin Reach(code)
         /\ \A k \in 1..Len(stack) : \A x \in (Len(code) + 1)..(Len(code) + 3) :
              x \notin Pending(stack[k])
<1>1. Len(code) \in Nat
  BY CodeFacts
<1>2. \A x \in (Len(code) + 1)..(Len(code) + 3) : x \notin 1..Len(code)
  BY <1>1
<1>3. Reach(code) \subseteq 1..Len(code)
  BY DEF Reach
<1> QED
  BY <1>1, <1>2, <1>3, PendingBlocks, Zenon

LEMMA OpenReach ==
  ASSUME Working, Flow, Walk, stack # <<>>, blockOpen, Working', Flow',
         NEW i \in Instructions, IsTerminator(i), NEW m \in 1..3,
         Len(code') = Len(code) + m,
         \A b \in Blocks : b # cursor => code'[b] = code[b],
         code'[cursor] = Append(code[cursor], i),
         \A k \in 1..m : Succ(code'[Len(code) + k]) = {},
         TargetsOf(i) \subseteq (Len(code) + 1)..(Len(code) + m)
  PROVE  /\ Reach(code') = Reach(code) \union (IF Live THEN TargetsOf(i) ELSE {})
         /\ NoBranch'
         /\ \A k \in 1..(Len(stack) - 1) : TargetsOf(i) \intersect Pending(stack[k]) = {}
<1>1. Len(code) \in Nat /\ Len(code) <= Len(code')
  BY CodeFacts
<1>2. \A x \in (Len(code) + 1)..Len(code') : Succ(code'[x]) = {}
  <2> SUFFICES ASSUME NEW x \in (Len(code) + 1)..Len(code')
               PROVE  Succ(code'[x]) = {}
    OBVIOUS
  <2>1. x - Len(code) \in 1..m /\ Len(code) + (x - Len(code)) = x
    BY <1>1
  <2> QED
    BY <2>1
<1>3. \A x \in TargetsOf(i) : Succ(code'[x]) = {}
  BY <1>2
<1>4. NoBranch
  BY DEF Walk
<1>5. /\ Reach(code') = Reach(code) \union (IF Live THEN TargetsOf(i) ELSE {})
      /\ NoBranch'
  BY <1>1, <1>2, <1>3, <1>4, ReachStep
<1>6. (Len(code) + 1)..(Len(code) + m) \subseteq (Len(code) + 1)..(Len(code) + 3)
  BY <1>1
<1>7. \A k \in 1..(Len(stack) - 1) : k \in 1..Len(stack)
  BY StackFacts
<1>8. \A k \in 1..(Len(stack) - 1) : TargetsOf(i) \intersect Pending(stack[k]) = {}
  BY <1>6, <1>7, NewBlocks
<1> QED
  BY <1>5, <1>8

(* The cursor goes on in a block that is empty.                            *)
LEMMA EmptyLive ==
  ASSUME code'[cursor'] = <<>>
  PROVE  Live' <=> cursor' \in Reach(code')
  BY DEF Live, blockOpen, IsOpen

LEMMA CheckIndexWalk ==
  ASSUME Working, Flow, Walk, CheckIndex
  PROVE  Walk'
<1> DEFINE n == Len(code)
           i == CondBr("index", n + 1, n + 2)
           more == IF Live THEN {n + 1, n + 2} ELSE {}
<1>1. /\ stack # <<>> /\ Top.at = "expr"
      /\ stack' = Resume(Advanced)
      /\ cursor' = n + 2
      /\ UNCHANGED <<function, implicit>>
  BY DEF CheckIndex, AtPart, At, NewBlock
<1>2. /\ Len(code') = n + 2
      /\ \A b \in Blocks : b # cursor => code'[b] = code[b]
      /\ code'[cursor] = Append(code[cursor], i)
      /\ code'[n + 1] = <<Instruction("indexError", ""), Unreachable>>
      /\ code'[n + 2] = <<>>
  BY CheckIndexFacts
<1>3. n \in Nat /\ n + 1 \in Nat /\ n + 2 \in Nat
  BY CodeFacts
<1>4. i \in Instructions /\ IsTerminator(i)
  BY <1>3, BranchInstructions DEF CondBr, IsTerminator
<1>5. TargetsOf(i) = {n + 1, n + 2}
  BY BranchTargets
<1>6. Succ(code'[n + 1]) = {} /\ Succ(code'[n + 2]) = {}
  <2>1. Succ(code'[n + 2]) = {}
    BY <1>2 DEF Succ
  <2>2. Unreachable.to = <<>>
    BY DEF Unreachable, Instruction
  <2>3. \A x, y : y.to = <<>> => Succ(<<x, y>>) = {}
    <3>1. \A x, y : Len(<<x, y>>) = 2 /\ <<x, y>>[2] = y /\ <<x, y>> # <<>>
      OBVIOUS
    <3>2. \A y : y.to = <<>> => {y.to[t] : t \in 1..Len(y.to)} = {}
      OBVIOUS
    <3> QED
      BY <3>1, <3>2, Zenon DEF Succ
  <2> QED
    BY <1>2, <2>1, <2>2, <2>3, Zenon
<1>7. Advanced \in Frame /\ Advanced.at = "expr"
  BY <1>1, AdvancedFacts
<1>8. blockOpen
  BY <1>1, ExprOpen DEF Expects
<1>9. Working' /\ Flow'
  BY CheckIndexType, CheckIndexFlow
<1>10. \A k \in 1..2 : Succ(code'[n + k]) = {}
  <2>1. \A k \in 1..2 : k = 1 \/ k = 2
    OBVIOUS
  <2> QED
    BY <1>6, <2>1
<1>11. TargetsOf(i) \subseteq (n + 1)..(n + 2) /\ 2 \in 1..3
  BY <1>3, <1>5
<1> HIDE DEF i
<1>12. /\ Reach(code') = Reach(code) \union more
       /\ NoBranch'
       /\ \A k \in 1..(Len(stack) - 1) : {n + 1, n + 2} \intersect Pending(stack[k]) = {}
  BY <1>1, <1>2, <1>4, <1>5, <1>8, <1>9, <1>10, <1>11, OpenReach
<1>13. Live' <=> Live
  <2>1. n + 2 \in (n + 1)..(n + 3)
    BY <1>3
  <2>2. n + 2 \notin Reach(code)
    BY <2>1, NewBlocks
  <2>3. Live' <=> n + 2 \in Reach(code')
    BY <1>1, <1>2, EmptyLive
  <2> QED
    BY <1>12, <2>2, <2>3
<1>14. /\ Stops(Advanced) <=> Stops(Top)
       /\ BranchOK(Advanced, Entered(stack, Len(stack)), Reach(code'))
       /\ Live' <=> Entered(stack, Len(stack)) /\ Out(Advanced)
  BY <1>1, <1>7, <1>13, ExprAlive, TopWalk
<1>15. (more # {} => Live) /\ \A k \in 1..(Len(stack) - 1) : more \intersect Pending(stack[k]) = {}
  BY <1>12
<1> HIDE DEF more
<1> QED
  BY <1>1, <1>7, <1>12, <1>14, <1>15, ResumeWalk

(* The blocks of an if: the arms are reached when the condition was, and   *)
(* what is behind only if an arm is missing.                               *)
LEMMA EmitIfBranchWalk ==
  ASSUME Working, Flow, Walk, EmitIfBranch
  PROVE  Walk'
<1> DEFINE n == Len(code)
           hasElse == Top.node.else # None
           m == IF hasElse THEN 3 ELSE 2
           label == IF hasElse THEN "if.then" ELSE "if.last"
           other == IF hasElse THEN n + 3 ELSE 0
           a == [Top EXCEPT !.at = label, !.end = n + 2, !.other = other]
           target == IF hasElse THEN n + 3 ELSE n + 2
           i == CondBr("cond", n + 1, target)
           b == emitStmt(Top.node.then)
           more == IF Live THEN {n + 1, target} ELSE {}
<1>1. /\ stack # <<>> /\ Top.at = "if.cond" /\ Top \in Frame
      /\ stack' = CallFrom(a, b)
      /\ cursor' = n + 1
      /\ UNCHANGED <<function, implicit>>
  BY TopFacts DEF EmitIfBranch, At, NewBlock
<1>2. /\ Len(code') = n + m
      /\ \A c \in Blocks : c # cursor => code'[c] = code[c]
      /\ code'[cursor] = Append(code[cursor], i)
      /\ \A k \in 1..m : code'[n + k] = <<>>
  BY EmitIfBranchFacts
<1>3. /\ n \in Nat /\ n + 1 \in Nat /\ n + 2 \in Nat /\ n + 3 \in Nat
      /\ m \in 1..3 /\ other \in Nat /\ target \in Nat /\ 1 \in 1..m
  BY CodeFacts
<1>4. label \in Labels
  BY DEF Labels
<1>5. a \in Frame /\ a.at = label /\ a.end = n + 2 /\ a.other = other /\ a.node = Top.node
  <2> HIDE DEF label, other
  <2>1. a \in Frame
    BY <1>1, <1>3, <1>4, HoldingBlocks, Zenon
  <2> QED
    BY <1>1, <2>1 DEF Frame
<1>6. i \in Instructions /\ IsTerminator(i)
  <2> HIDE DEF target
  <2>1. i \in Instructions
    BY <1>3, BranchInstructions
  <2>2. IsTerminator(i)
    BY DEF CondBr, IsTerminator
  <2> QED
    BY <2>1, <2>2
<1>7. TargetsOf(i) = {n + 1, target}
  BY BranchTargets
<1>8. {n + 1, target} \subseteq (n + 1)..(n + m)
  BY <1>3
<1>9. Top.node \in Stmt /\ Top.node.kind = "if" /\ Top.node.then \in Stmt
  BY <1>1, NodeFacts DEF StatementOf, StmtShape
<1>10. NewAlive(b) /\ b \in Frame /\ (Stops(b) <=> alwaysReturns[Top.node.then])
  BY <1>9, NewStmtAlive
<1>11. blockOpen
  BY <1>1, ExprOpen DEF Expects
<1>12. Working' /\ Flow'
  BY EmitIfBranchType, EmitIfBranchFlow
<1>13. \A k \in 1..m : Succ(code'[n + k]) = {}
  BY <1>2 DEF Succ
<1> HIDE DEF i, b
<1>14. /\ Reach(code') = Reach(code) \union more
       /\ NoBranch'
       /\ \A k \in 1..(Len(stack) - 1) : {n + 1, target} \intersect Pending(stack[k]) = {}
  <2> HIDE DEF m, target
  <2> QED
    BY <1>1, <1>2, <1>3, <1>6, <1>7, <1>8, <1>11, <1>12, <1>13, OpenReach
<1>15. n + 1 \notin Reach(code) /\ n + 2 \notin Reach(code) /\ n + 3 \notin Reach(code)
  <2>1. {n + 1, n + 2, n + 3} \subseteq (n + 1)..(n + 3)
    BY <1>3
  <2> QED
    BY <2>1, NewBlocks
<1>16. Live <=> Entered(stack, Len(stack))
  <2>1. Out(Top)
    BY <1>1 DEF Out
  <2> QED
    BY <1>1, <2>1, TopWalk
<1>17. Live' <=> Live
  <2>1. Live' <=> n + 1 \in Reach(code')
    BY <1>1, <1>2, <1>3, EmptyLive
  <2> QED
    BY <1>14, <1>15, <2>1
<1> HIDE DEF a
<1>18. /\ Stops(a) <=> Stops(Top)
       /\ Alive(a)
       /\ Out(a) <=> Alive(a) /\ ~ Stops(b)
       /\ BranchOK(a, Entered(stack, Len(stack)), Reach(code'))
  <2>1. CASE hasElse
    <3>1. a.at = "if.then" /\ a.other = n + 3 /\ target = n + 3
      BY <1>5, <2>1
    <3>2. n + 3 # n + 2 /\ n + 1 # n + 2
      BY <1>3
    <3>3. n + 3 \in Reach(code') <=> Live
      BY <1>14, <1>15, <3>1
    <3>4. n + 2 \notin Reach(code')
      BY <1>14, <1>15, <3>1, <3>2
    <3>5. BranchOK(a, Entered(stack, Len(stack)), Reach(code'))
      BY <1>5, <1>16, <3>1, <3>3, <3>4 DEF BranchOK
    <3> QED
      BY <1>1, <1>5, <1>10, <3>1, <3>5 DEF Stops, Out, Alive
  <2>2. CASE ~ hasElse
    <3>1. a.at = "if.last" /\ target = n + 2
      BY <1>5, <2>2
    <3>2. n + 2 \in Reach(code') <=> Live
      BY <1>14, <1>15, <3>1
    <3>3. BranchOK(a, Entered(stack, Len(stack)), Reach(code'))
      BY <1>5, <1>16, <2>2, <3>1, <3>2 DEF BranchOK
    <3> QED
      BY <1>1, <1>5, <1>10, <2>2, <3>1, <3>3 DEF Stops, Out, Alive
  <2> QED
    BY <2>1, <2>2
<1>19. (more # {} => Live) /\ \A k \in 1..(Len(stack) - 1) : more \intersect Pending(stack[k]) = {}
  BY <1>14
<1>20. Live' <=> Entered(stack, Len(stack)) /\ Alive(a)
  BY <1>16, <1>17, <1>18
<1> HIDE DEF more
<1> QED
  BY <1>1, <1>5, <1>10, <1>14, <1>18, <1>19, <1>20, CallWalk

LEMMA EmitWhileWalk ==
  ASSUME Working, Flow, Walk, EmitWhile
  PROVE  Walk'
<1> DEFINE n == Len(code)
           a == [Top EXCEPT !.at = "while.cond", !.end = n + 3, !.other = n + 1,
                            !.body = n + 2]
           i == Br(n + 1)
           b == emitExpr(Top.node.cond)
           more == IF Live THEN {n + 1} ELSE {}
<1>1. /\ stack # <<>> /\ Top.at = "while" /\ Top \in Frame
      /\ stack' = CallFrom(a, b)
      /\ cursor' = n + 1
      /\ UNCHANGED <<function, implicit>>
  BY TopFacts DEF EmitWhile, At, NewBlock
<1>2. /\ Len(code') = n + 3
      /\ \A c \in Blocks : c # cursor => code'[c] = code[c]
      /\ code'[cursor] = Append(code[cursor], i)
      /\ \A k \in 1..3 : code'[n + k] = <<>>
  BY EmitWhileFacts
<1>3. n \in Nat /\ n + 1 \in Nat /\ n + 2 \in Nat /\ n + 3 \in Nat /\ 1 \in 1..3
  BY CodeFacts
<1>4. /\ a \in Frame /\ a.at = "while.cond" /\ a.end = n + 3 /\ a.body = n + 2
      /\ a.other = n + 1 /\ a.node = Top.node
  <2>1. "while.cond" \in Labels
    BY DEF Labels
  <2>2. a \in Frame
    BY <1>1, <1>3, <2>1, HoldingBlocks, Zenon
  <2> QED
    BY <1>1, <2>2 DEF Frame
<1>5. i \in Instructions /\ IsTerminator(i)
  BY <1>3, BranchInstructions DEF Br, IsTerminator
<1>6. TargetsOf(i) = {n + 1}
  BY BranchTargets
<1>7. {n + 1} \subseteq (n + 1)..(n + 3) /\ 3 \in 1..3
  BY <1>3
<1>8. Top.node.cond \in Expr
  BY <1>1, NodeFacts DEF StatementOf, StmtShape
<1>9. NewAlive(b) /\ b \in Frame /\ ~ Stops(b)
  BY <1>8, NewExprAlive
<1>10. blockOpen
  BY <1>1, ExprOpen DEF Expects
<1>11. Working' /\ Flow'
  BY EmitWhileType, EmitWhileFlow
<1>12. \A k \in 1..3 : Succ(code'[n + k]) = {}
  BY <1>2 DEF Succ
<1> HIDE DEF i, b
<1>13. /\ Reach(code') = Reach(code) \union more
       /\ NoBranch'
       /\ \A k \in 1..(Len(stack) - 1) : {n + 1} \intersect Pending(stack[k]) = {}
  BY <1>1, <1>2, <1>5, <1>6, <1>7, <1>10, <1>11, <1>12, OpenReach
<1>14. n + 1 \notin Reach(code) /\ n + 2 \notin Reach(code) /\ n + 3 \notin Reach(code)
  <2>1. {n + 1, n + 2, n + 3} \subseteq (n + 1)..(n + 3)
    BY <1>3
  <2> QED
    BY <2>1, NewBlocks
<1>15. Live <=> Entered(stack, Len(stack))
  <2>1. Out(Top)
    BY <1>1 DEF Out
  <2> QED
    BY <1>1, <2>1, TopWalk
<1>16. Live' <=> Live
  <2>1. Live' <=> n + 1 \in Reach(code')
    BY <1>1, <1>2, <1>3, EmptyLive
  <2> QED
    BY <1>13, <1>14, <2>1
<1> HIDE DEF a
<1>17. BranchOK(a, Entered(stack, Len(stack)), Reach(code'))
  <2>1. n + 1 # n + 2 /\ n + 1 # n + 3
    BY <1>3
  <2>2. /\ n + 1 \in Reach(code') <=> Live
        /\ n + 2 \notin Reach(code') /\ n + 3 \notin Reach(code')
    BY <1>13, <1>14, <2>1
  <2> QED
    BY <1>4, <1>15, <2>2 DEF BranchOK
<1>18. /\ Stops(a) <=> Stops(Top)
       /\ Alive(a)
       /\ Out(a) <=> Alive(a) /\ ~ Stops(b)
  BY <1>1, <1>4, <1>9 DEF Stops, Out, Alive
<1>19. (more # {} => Live) /\ \A k \in 1..(Len(stack) - 1) : more \intersect Pending(stack[k]) = {}
  BY <1>13
<1>20. Live' <=> Entered(stack, Len(stack)) /\ Alive(a)
  BY <1>15, <1>16, <1>18
<1> HIDE DEF more
<1> QED
  BY <1>1, <1>4, <1>9, <1>13, <1>17, <1>18, <1>19, <1>20, CallWalk

-----------------------------------------------------------------------------
(* Those that close the cursor's block and go on in a pending one.         *)

(* A pending block is empty, not the cursor's, and of one activation only. *)
LEMMA PendingTop ==
  ASSUME Working, Flow, stack # <<>>, NEW x \in Pending(Top)
  PROVE  /\ x \in Blocks /\ x # cursor /\ code[x] = <<>>
         /\ \A k \in 1..(Len(stack) - 1) : x \notin Pending(stack[k])
<1>1. Len(stack) \in 1..Len(stack) /\ x \in Pending(stack[Len(stack)])
  BY StackFacts DEF Top
<1>2. x \in Blocks
  BY <1>1, PendingBlocks DEF Blocks
<1>3. x # cursor /\ code[x] = <<>>
  BY <1>1 DEF Flow, PendingOK
<1>4. \A k \in 1..(Len(stack) - 1) : x \notin Pending(stack[k])
  <2> SUFFICES ASSUME NEW k \in 1..(Len(stack) - 1)
               PROVE  x \notin Pending(stack[k])
    OBVIOUS
  <2>1. k \in 1..Len(stack) /\ k # Len(stack)
    BY StackFacts
  <2>2. Pending(stack[k]) \cap Pending(stack[Len(stack)]) = {}
    BY <1>1, <2>1 DEF Flow, PendingOK
  <2> QED
    BY <1>1, <2>2
<1> QED
  BY <1>2, <1>3, <1>4

LEMMA EmitElseWalk ==
  ASSUME Working, Flow, Walk, EmitElse
  PROVE  Walk'
<1> DEFINE a == [Top EXCEPT !.at = "if.last"]
           b == emitStmt(Top.node.else)
           more == IF Live THEN {Top.end} ELSE {}
<1>1. /\ stack # <<>> /\ Top.at = "if.then" /\ Top \in Frame
      /\ stack' = CallFrom(a, b)
      /\ CloseWith(Top.end)
      /\ cursor' = Top.other
      /\ UNCHANGED <<function, implicit>>
  BY TopFacts DEF EmitElse, At
<1>2. /\ Top.node \in Stmt /\ Top.node.kind = "if" /\ Top.node.else # None
      /\ Top.node.else \in Stmt
  <2>1. Top.node.else # None
    BY <1>1, TopFacts DEF FrameOK, NodeOK
  <2> QED
    BY <1>1, <2>1, NodeFacts DEF StatementOf, StmtShape
<1>3. a \in Frame /\ a.at = "if.last" /\ a.end = Top.end /\ a.node = Top.node
  BY <1>1 DEF Frame, Labels
<1>4. NewAlive(b) /\ b \in Frame /\ (Stops(b) <=> alwaysReturns[Top.node.else])
  BY <1>2, NewStmtAlive
<1> HIDE DEF a, b
<1>5. Top.end \in Pending(Top) /\ Top.other \in Pending(Top) /\ Top.end # Top.other
  BY <1>1, TopDistinct DEF Pending, FrameDistinct
<1>6. Working' /\ Flow'
  BY EmitElseType, EmitElseFlow
<1>7. /\ Top.end \in Blocks /\ code[Top.end] = <<>> /\ Top.end # cursor
      /\ Top.other \in Blocks /\ code[Top.other] = <<>> /\ Top.other # cursor
      /\ \A k \in 1..(Len(stack) - 1) : Top.end \notin Pending(stack[k])
  BY <1>1, <1>5, PendingTop
<1>8. Reach(code') = Reach(code) \union more /\ NoBranch'
  BY <1>1, <1>6, <1>7, CloseReach DEF Walk
<1>9. /\ Live <=> Entered(stack, Len(stack)) /\ ~ alwaysReturns[Top.node.then]
      /\ Top.other \in Reach(code) <=> Entered(stack, Len(stack))
      /\ Top.end \notin Reach(code)
  BY <1>1, TopWalk DEF Out, BranchOK
<1>10. Live' <=> Entered(stack, Len(stack))
  <2>1. code'[Top.other] = <<>>
    BY <1>1, <1>7, CloseStep
  <2>2. Live' <=> Top.other \in Reach(code')
    BY <1>1, <2>1, EmptyLive
  <2> QED
    BY <1>5, <1>8, <1>9, <2>2
<1>11. BranchOK(a, Entered(stack, Len(stack)), Reach(code'))
  <2>1. Top.end \in Reach(code') <=> Live
    BY <1>8, <1>9
  <2> QED
    BY <1>2, <1>3, <1>9, <2>1 DEF BranchOK
<1>12. /\ Stops(a) <=> Stops(Top)
       /\ Alive(a)
       /\ Out(a) <=> Alive(a) /\ ~ Stops(b)
  BY <1>1, <1>2, <1>3, <1>4 DEF Stops, Out, Alive
<1>13. (more # {} => Live) /\ \A k \in 1..(Len(stack) - 1) : more \intersect Pending(stack[k]) = {}
  BY <1>7
<1> HIDE DEF more
<1> QED
  BY <1>1, <1>3, <1>4, <1>8, <1>10, <1>11, <1>12, <1>13, CallWalk

(* Behind an if the cursor is alive when an arm could be left.             *)
LEMMA EndIfWalk ==
  ASSUME Working, Flow, Walk, EndIf
  PROVE  Walk'
<1> DEFINE more == IF Live THEN {Top.end} ELSE {}
           node == Top.node
<1>1. /\ stack # <<>> /\ Top.at = "if.last"
      /\ stack' = Return
      /\ CloseWith(Top.end)
      /\ cursor' = Top.end
      /\ UNCHANGED <<function, implicit>>
  BY DEF EndIf, At
<1>2. node \in Stmt /\ node.kind = "if"
  BY <1>1, NodeFacts DEF StatementOf
<1>3. Top.end \in Pending(Top)
  BY <1>1 DEF Pending
<1>4. Working' /\ Flow'
  BY EndIfType, EndIfFlow
<1>5. /\ Top.end \in Blocks /\ code[Top.end] = <<>> /\ Top.end # cursor
      /\ \A k \in 1..(Len(stack) - 1) : Top.end \notin Pending(stack[k])
  BY <1>1, <1>3, PendingTop
<1>6. Reach(code') = Reach(code) \union more /\ NoBranch'
  BY <1>1, <1>4, <1>5, CloseReach DEF Walk
<1>7. /\ Live <=> Entered(stack, Len(stack)) /\ ~ alwaysReturns[IF node.else = None THEN node.then ELSE node.else]
      /\ Top.end \in Reach(code) <=>
           Entered(stack, Len(stack)) /\ (node.else # None => ~ alwaysReturns[node.then])
  BY <1>1, TopWalk DEF Out, BranchOK
<1>8. Live' <=> Top.end \in Reach(code) \/ Live
  <2>1. code'[Top.end] = <<>>
    BY <1>1, <1>5, CloseStep
  <2>2. Live' <=> Top.end \in Reach(code')
    BY <1>1, <2>1, EmptyLive
  <2> QED
    BY <1>6, <2>2
<1>9. Stops(Top) <=> node.else # None /\ alwaysReturns[node.then] /\ alwaysReturns[node.else]
  BY <1>1, <1>2, AlwaysReturnsCases DEF Stops
<1>10. Live' <=> Entered(stack, Len(stack)) /\ ~ Stops(Top)
  <2> HIDE DEF node
  <2>1. CASE node.else = None
    BY <1>7, <1>8, <1>9, <2>1
  <2>2. CASE node.else # None
    BY <1>7, <1>8, <1>9, <2>2
  <2> QED
    BY <2>1, <2>2
<1>11. (more # {} => Live) /\ \A k \in 1..(Len(stack) - 1) : more \intersect Pending(stack[k]) = {}
  BY <1>5
<1>12. stack' # <<>>
  BY <1>1, ReturnShape
<1> HIDE DEF more
<1> QED
  BY <1>1, <1>6, <1>10, <1>11, <1>12, ReturnWalk

LEMMA EmitWhileBodyWalk ==
  ASSUME Working, Flow, Walk, EmitWhileBody
  PROVE  Walk'
<1> DEFINE a == [Top EXCEPT !.at = "while.body"]
           i == CondBr("cond", Top.body, Top.end)
           b == emitStmt(Top.node.body)
           more == IF Live THEN {Top.body, Top.end} ELSE {}
<1>1. /\ stack # <<>> /\ Top.at = "while.cond" /\ Top \in Frame
      /\ stack' = CallFrom(a, b)
      /\ Emit(i)
      /\ cursor' = Top.body
      /\ UNCHANGED <<function, implicit>>
  BY TopFacts DEF EmitWhileBody, At
<1>2. Top.node \in Stmt /\ Top.node.kind = "while" /\ Top.node.body \in Stmt
  BY <1>1, NodeFacts DEF StatementOf, StmtShape
<1>3. /\ a \in Frame /\ a.at = "while.body" /\ a.end = Top.end /\ a.other = Top.other
      /\ a.node = Top.node
  BY <1>1 DEF Frame, Labels
<1>4. NewAlive(b) /\ b \in Frame /\ (Stops(b) <=> alwaysReturns[Top.node.body])
  BY <1>2, NewStmtAlive
<1>5. Top.end \in Pending(Top) /\ Top.body \in Pending(Top)
  BY <1>1 DEF Pending
<1>6. Working' /\ Flow'
  BY EmitWhileBodyType, EmitWhileBodyFlow
<1>7. /\ Top.end \in Blocks /\ code[Top.end] = <<>> /\ Top.end # cursor
      /\ Top.body \in Blocks /\ code[Top.body] = <<>> /\ Top.body # cursor
      /\ \A k \in 1..(Len(stack) - 1) : Top.end \notin Pending(stack[k]) /\ Top.body \notin Pending(stack[k])
  BY <1>1, <1>5, PendingTop
<1>8. i \in Instructions /\ IsTerminator(i)
  BY <1>7, BrFacts
<1>9. TargetsOf(i) = {Top.body, Top.end}
  BY BranchTargets
<1> HIDE DEF a, b, i
<1>10. /\ Len(code') = Len(code)
       /\ \A x \in Blocks : x # cursor => code'[x] = code[x]
       /\ code'[cursor] = Append(code[cursor], i)
  BY <1>1, <1>8, EmitFacts
<1>11. blockOpen
  BY <1>1, ExprOpen DEF Expects
<1>12. Reach(code') = Reach(code) \union more /\ NoBranch'
  <2>1. Len(code) \in Nat /\ Len(code) <= Len(code') /\ (Len(code) + 1)..Len(code') = {}
    BY <1>10, CodeFacts
  <2>2. \A x \in (Len(code) + 1)..Len(code') : Succ(code'[x]) = {}
    BY <2>1
  <2>3. \A x \in TargetsOf(i) : Succ(code'[x]) = {}
    BY <1>7, <1>9, <1>10 DEF Succ
  <2>4. NoBranch
    BY DEF Walk
  <2> QED
    BY <1>6, <1>8, <1>9, <1>10, <1>11, <2>1, <2>2, <2>3, <2>4, ReachStep
<1>13. /\ Live <=> Entered(stack, Len(stack))
       /\ Top.other \in Reach(code) <=> Entered(stack, Len(stack))
       /\ Top.end \notin Reach(code) /\ Top.body \notin Reach(code)
  BY <1>1, TopWalk DEF Out, BranchOK
<1>14. Live' <=> Entered(stack, Len(stack))
  <2>1. code'[Top.body] = <<>>
    BY <1>7, <1>10
  <2>2. Live' <=> Top.body \in Reach(code')
    BY <1>1, <2>1, EmptyLive
  <2> QED
    BY <1>12, <1>13, <2>2
<1>15. BranchOK(a, Entered(stack, Len(stack)), Reach(code'))
  <2>1. Top.end \in Reach(code') <=> Entered(stack, Len(stack))
    BY <1>12, <1>13
  <2>2. Top.other \in Reach(code') <=> Entered(stack, Len(stack))
    BY <1>12, <1>13
  <2> QED
    BY <1>3, <2>1, <2>2 DEF BranchOK
<1>16. /\ Stops(a) <=> Stops(Top)
       /\ Alive(a)
       /\ Out(a) <=> Alive(a) /\ ~ Stops(b)
  BY <1>1, <1>3, <1>4 DEF Stops, Out, Alive
<1>17. (more # {} => Live) /\ \A k \in 1..(Len(stack) - 1) : more \intersect Pending(stack[k]) = {}
  BY <1>7
<1>18. Live' <=> Entered(stack, Len(stack)) /\ Alive(a)
  BY <1>14, <1>16
<1> HIDE DEF more
<1> QED
  BY <1>1, <1>3, <1>4, <1>12, <1>15, <1>16, <1>17, <1>18, CallWalk

(* The body of a while leads back to its condition, which had been reached *)
(* already.                                                                *)
LEMMA EndWhileWalk ==
  ASSUME Working, Flow, Walk, EndWhile
  PROVE  Walk'
<1>1. /\ stack # <<>> /\ Top.at = "while.body"
      /\ stack' = Return
      /\ CloseWith(Top.other)
      /\ cursor' = Top.end
      /\ UNCHANGED <<function, implicit>>
  BY DEF EndWhile, At
<1>2. Top.node \in Stmt /\ Top.node.kind = "while"
  BY <1>1, NodeFacts DEF StatementOf
<1>3. Top.end \in Pending(Top) /\ Top.other \in Blocks
  BY <1>1, TopBlocks DEF Pending
<1>4. Working' /\ Flow'
  BY EndWhileType, EndWhileFlow
<1>5. Top.end \in Blocks /\ code[Top.end] = <<>> /\ Top.end # cursor
  BY <1>1, <1>3, PendingTop
<1>6. /\ Live => Entered(stack, Len(stack))
      /\ Top.other \in Reach(code) <=> Entered(stack, Len(stack))
      /\ Top.end \in Reach(code) <=> Entered(stack, Len(stack))
  BY <1>1, TopWalk DEF BranchOK
<1>7. Reach(code') = Reach(code) \union {} /\ NoBranch'
  <2>1. /\ Reach(code') = Reach(code) \union (IF Live THEN {Top.other} ELSE {})
        /\ NoBranch'
    BY <1>1, <1>3, <1>4, <1>6, CloseReach DEF Walk
  <2> QED
    BY <1>6, <2>1
<1>8. Live' <=> Entered(stack, Len(stack))
  <2>1. code'[Top.end] = <<>>
    BY <1>1, <1>3, <1>5, CloseStep
  <2>2. Live' <=> Top.end \in Reach(code')
    BY <1>1, <2>1, EmptyLive
  <2> QED
    BY <1>6, <1>7, <2>2
<1>9. ~ Stops(Top)
  BY <1>2, AlwaysReturnsCases DEF Stops
<1>10. stack' # <<>>
  BY <1>1, ReturnShape
<1> QED
  BY <1>1, <1>7, <1>8, <1>9, <1>10, ReturnWalk

-----------------------------------------------------------------------------
(* The first step.                                                         *)

LEMMA EmitFunctionWalk ==
  ASSUME Fresh, function \in Function, EmitFunction
  PROVE  Walk'
<1> DEFINE a == [Top EXCEPT !.at = "function.end"]
           b == emitStmt(function.body)
           alloca == Instruction("alloca", "")
<1>1. /\ code' = << <<alloca>> >>
      /\ cursor' = 1
      /\ stack' = Append(Append(Below, a), b)
      /\ UNCHANGED <<function, implicit>>
  BY DEF EmitFunction, CallFrom
<1>2. Below = <<>> /\ Top = Activation("function", function) /\ implicit = 0
  BY DEF Fresh, Below, Top
<1>3. a.at = "function.end"
  BY <1>2 DEF Activation
<1>4. function.body \in Stmt
  BY SyntaxAssumption DEF FunctionShape
<1>5. NewAlive(b) /\ (Stops(b) <=> alwaysReturns[function.body])
  BY <1>4, NewStmtAlive
<1> HIDE DEF a, b
<1>6. /\ Len(stack') = 2 /\ stack'[1] = a /\ stack'[2] = b /\ stack' # <<>>
  <2>1. \A x, y : LET s == Append(Append(<<>>, x), y)
                IN Len(s) = 2 /\ s[1] = x /\ s[2] = y /\ s # <<>>
    OBVIOUS
  <2> QED
    BY <1>1, <1>2, <2>1, Zenon
<1>7. (\A k \in 1..2 : k = 1 \/ k = 2) /\ (\A k \in 1..1 : k = 1)
  OBVIOUS
<1>8. Alive(a) /\ Out(b) /\ (Out(a) <=> ~ alwaysReturns[function.body])
  BY <1>3, <1>5 DEF Alive, Out, NewAlive
<1>9. CallsLive(stack')
  BY <1>5, <1>6, <1>7, <1>8 DEF CallsLive
<1>10. ASSUME NEW e, NEW r
       PROVE  BranchOK(a, e, r) /\ BranchOK(b, e, r)
  BY <1>3, <1>5 DEF BranchOK, NewAlive
<1>11. BranchesLive(stack', Reach(code'))
  BY <1>6, <1>7, <1>10 DEF BranchesLive
<1>12. ~ IsTerminator(alloca) /\ alloca.to = <<>>
  BY DEF Instruction, IsTerminator
<1> HIDE DEF alloca
<1>13. Len(code') = 1 /\ code'[1] = <<alloca>> /\ IsOpen(<<alloca>>) /\ Succ(<<alloca>>) = {}
  <2>1. Len(<<alloca>>) = 1 /\ <<alloca>>[1] = alloca
    OBVIOUS
  <2> QED
    BY <1>1, <1>12, <2>1 DEF IsOpen, Succ
<1>14. NoBranch'
  BY <1>7, <1>13 DEF NoBranch, Blocks
<1>15. Live'
  <2>1. 1 \in Reach(code')
    BY <1>13 DEF Reach, Follows
  <2> QED
    BY <1>1, <1>13, <2>1 DEF Live, blockOpen
<1>16. Entered(stack', 2) /\ Out(stack'[2])
  BY <1>6, <1>7, <1>8 DEF Entered
<1>17. CallsLive(stack)' /\ BranchesLive(stack, Reach(code))'
  <2>1. CallsLive(stack)'
    BY <1>1, <1>9 DEF CallsLive, Out, Alive, Stops
  <2>2. BranchesLive(stack, Reach(code))'
    BY <1>11 DEF BranchesLive, BranchOK, Entered, Alive, Reach
  <2> QED
    BY <2>1, <2>2
<1>18. (Entered(stack, Len(stack)) /\ Out(Top))'
  BY <1>1, <1>6, <1>16 DEF Entered, Alive, Out, Top
<1> QED
  BY <1>1, <1>2, <1>6, <1>14, <1>15, <1>17, <1>18 DEF Walk

-----------------------------------------------------------------------------
LEMMA WarningInvInit == Init => WarningInv
<1> SUFFICES ASSUME Init
             PROVE  FlowInv /\ ~ Working
  BY DEF WarningInv
<1>1. cursor = 0 /\ code = <<>>
  BY DEF Init
<1> QED
  BY <1>1, FlowInvInit DEF Working, Blocks

LEMMA WarningStep ==
  ASSUME WarningInv, Next
  PROVE  Walk'
<1>1. TypeInv /\ (Working => Flow) /\ (Working => Walk)
  BY DEF WarningInv, FlowInv
<1>2. CASE Fresh
  <2>1. EmitFunction
    BY <1>2, FreshAt
       DEF Next, EndFunction, EmitCompound, EndCompound, EmitExprStmt,
           EmitIf, EmitIfBranch, EmitElse, EndIf, EmitWhile, EmitWhileBody, EndWhile,
           EmitReturnValue, EmitReturn, EmitSubexpr, EmitInstruction, SkipCheck,
           CheckIndex, EndExpr, At, AtPart
  <2> QED
    BY <1>1, <1>2, <2>1, EmitFunctionWalk DEF TypeInv
<1>3. CASE Working
  <2>1. ~EmitFunction
    BY <1>3, WorkingAt DEF EmitFunction, At
  <2> QED
    BY <1>1, <1>3, <2>1, EndFunctionWalk, EmitCompoundWalk, EndCompoundWalk,
       EmitExprStmtWalk, EmitIfWalk, EmitIfBranchWalk, EmitElseWalk, EndIfWalk,
       EmitWhileWalk, EmitWhileBodyWalk, EndWhileWalk, EmitReturnValueWalk,
       EmitReturnWalk, EmitSubexprWalk, EmitInstructionWalk, SkipCheckWalk,
       CheckIndexWalk, EndExprWalk
       DEF Next
<1> QED
  BY <1>1, <1>2, <1>3 DEF TypeInv

LEMMA WarningInvStep == WarningInv /\ [Next]_vars => WarningInv'
<1> SUFFICES ASSUME WarningInv, [Next]_vars
             PROVE  WarningInv'
  OBVIOUS
<1>1. FlowInv'
  BY FlowInvStep DEF WarningInv
<1>2. CASE UNCHANGED vars
  <2>1. /\ function' = function /\ stack' = stack /\ code' = code /\ attached' = attached
        /\ cursor' = cursor /\ implicit' = implicit
    BY <1>2 DEF vars
  <2>2. Working' <=> Working
    BY <2>1 DEF Working, Blocks
  <2>3. Walk' <=> Walk
    BY <2>1 DEF Walk, NoBranch, Blocks, CallsLive, BranchesLive, BranchOK, Entered, Alive, Out,
                Stops, Live, blockOpen, Top
  <2> QED
    BY <1>1, <2>2, <2>3 DEF WarningInv
<1>3. CASE Next
  BY <1>1, <1>3, WarningStep DEF WarningInv
<1> QED
  BY <1>2, <1>3

LEMMA WarningInvariant == Spec => []WarningInv
  BY WarningInvInit, WarningInvStep, PTL DEF Spec

-----------------------------------------------------------------------------
(* The blocks within n branches of the entry block, and those that can be  *)
(* reached at all.                                                         *)

(* When all branches stay inside, there is a function as Within wants it:  *)
(* the blocks at the end of a path of n steps.                             *)
Near(b) == {b} \union Targets(b)

LEMMA WithinExists ==
  ASSUME 1 \in Blocks, \A b \in Blocks : Targets(b) \subseteq Blocks
  PROVE  \E f : /\ f = [n \in Nat |-> IF n = 0 THEN {1} ELSE UNION {Near(b) : b \in f[n - 1]}]
                /\ \A n \in Nat : f[n] \subseteq Blocks
<1> DEFINE Path(n, p) == p[0] = 1 /\ \A i \in 0..(n - 1) : p[i + 1] \in Near(p[i])
           f == [n \in Nat |-> {x \in Blocks : \E p \in [Nat -> Blocks] : Path(n, p) /\ p[n] = x}]
<1>1. \A n \in Nat : f[n] \subseteq Blocks
  OBVIOUS
<1>2. f[0] = {1}
  <2> DEFINE p == [i \in Nat |-> 1]
  <2>1. p \in [Nat -> Blocks] /\ p[0] = 1
    OBVIOUS
  <2>2. 0..(0 - 1) = {}
    OBVIOUS
  <2>3. Path(0, p)
    BY <2>1, <2>2
  <2> HIDE DEF p
  <2>4. 1 \in f[0]
    BY <2>1, <2>3
  <2> QED
    BY <2>4
<1>3. ASSUME NEW n \in Nat, n # 0
      PROVE  f[n] = UNION {Near(b) : b \in f[n - 1]}
  <2>1. n - 1 \in Nat /\ n - 1 + 1 = n /\ n - 1 \in 0..(n - 1)
    BY <1>3
  <2>2. \A i \in 0..(n - 1 - 1) : i \in 0..(n - 1) /\ i \in Nat /\ i + 1 \in Nat /\ i + 1 # n /\ i # n
    BY <1>3
  <2>3. \A i \in 0..(n - 1) : i \in 0..(n - 1 - 1) \/ i = n - 1
    BY <1>3
  <2>4. ASSUME NEW x \in f[n]
        PROVE  x \in UNION {Near(b) : b \in f[n - 1]}
    <3>1. PICK p \in [Nat -> Blocks] : Path(n, p) /\ p[n] = x
      OBVIOUS
    <3>2. Path(n - 1, p)
      BY <2>2, <3>1
    <3>3. p[n - 1] \in Blocks
      BY <2>1
    <3>4. p[n - 1] \in f[n - 1]
      <4> HIDE DEF Path
      <4> QED
        BY <2>1, <3>2, <3>3
    <3>5. x \in Near(p[n - 1])
      BY <2>1, <3>1
    <3> HIDE DEF f
    <3> QED
      BY <3>4, <3>5
  <2>5. ASSUME NEW b \in f[n - 1], NEW x \in Near(b)
        PROVE  x \in f[n]
    <3>1. PICK p \in [Nat -> Blocks] : Path(n - 1, p) /\ p[n - 1] = b
      BY <2>1
    <3>2. x \in Blocks
      BY <1>1, <2>1 DEF Near
    <3> DEFINE q == [i \in Nat |-> IF i = n THEN x ELSE p[i]]
    <3>3. q \in [Nat -> Blocks] /\ q[n] = x
      BY <3>2
    <3>4. \A i \in Nat : i # n => q[i] = p[i]
      OBVIOUS
    <3> HIDE DEF q
    <3>5. q[0] = 1
      BY <1>3, <3>1, <3>4
    <3>6. ASSUME NEW i \in 0..(n - 1)
          PROVE  q[i + 1] \in Near(q[i])
      <4>1. CASE i = n - 1
        <5>1. q[i] = b
          BY <1>3, <2>1, <3>1, <3>4, <4>1
        <5>2. q[i + 1] = x
          BY <2>1, <3>3, <4>1
        <5> QED
          BY <2>5, <5>1, <5>2
      <4>2. CASE i \in 0..(n - 1 - 1)
        <5>1. p[i + 1] \in Near(p[i])
          BY <3>1, <4>2
        <5>2. q[i] = p[i] /\ q[i + 1] = p[i + 1]
          BY <2>2, <3>4, <4>2
        <5> QED
          BY <5>1, <5>2
      <4> QED
        BY <2>3, <4>1, <4>2
    <3>7. Path(n, q)
      BY <3>5, <3>6
    <3> HIDE DEF Path
    <3> QED
      BY <3>2, <3>3, <3>7
  <2> HIDE DEF f
  <2> QED
    BY <2>4, <2>5
<1> HIDE DEF Path
<1>4. f = [n \in Nat |-> IF n = 0 THEN {1} ELSE UNION {Near(b) : b \in f[n - 1]}]
  <2>1. f = [n \in Nat |-> f[n]]
    OBVIOUS
  <2>2. \A n \in Nat : f[n] = IF n = 0 THEN {1} ELSE UNION {Near(b) : b \in f[n - 1]}
    <3> HIDE DEF f
    <3> QED
      BY <1>2, <1>3
  <2> HIDE DEF f
  <2> QED
    BY <2>1, <2>2, Zenon
<1> HIDE DEF f
<1> QED
  BY <1>1, <1>4

LEMMA WithinEquation ==
  ASSUME 1 \in Blocks, \A b \in Blocks : Targets(b) \subseteq Blocks
  PROVE  /\ Within[0] = {1}
         /\ \A n \in Nat : Within[n + 1] = UNION {Near(b) : b \in Within[n]}
<1> DEFINE Equation(f) ==
      f = [n \in Nat |-> IF n = 0 THEN {1} ELSE UNION {{b} \union Targets(b) : b \in f[n - 1]}]
<1>1. \E f : Equation(f)
  BY WithinExists DEF Near
<1>2. Equation(CHOOSE f : Equation(f))
  <2> HIDE DEF Equation
  <2> QED
    BY <1>1
<1>3. Within = [n \in Nat |-> IF n = 0 THEN {1}
                               ELSE UNION {{b} \union Targets(b) : b \in Within[n - 1]}]
  BY <1>2 DEF Within
<1>4. Within[0] = {1}
  BY <1>3
<1>5. ASSUME NEW n \in Nat
      PROVE  Within[n + 1] = UNION {Near(b) : b \in Within[n]}
  <2>1. n + 1 \in Nat /\ n + 1 # 0 /\ n + 1 - 1 = n
    OBVIOUS
  <2>2. ASSUME NEW m \in Nat
        PROVE  Within[m] = IF m = 0 THEN {1}
                           ELSE UNION {{b} \union Targets(b) : b \in Within[m - 1]}
    BY <1>3
  <2>3. Within[n + 1] = UNION {{b} \union Targets(b) : b \in Within[n]}
    <3>1. PICK m \in Nat : m = n + 1 /\ m # 0 /\ m - 1 = n
      BY <2>1
    <3>2. Within[m] = UNION {{b} \union Targets(b) : b \in Within[m - 1]}
      BY <2>2, <3>1
    <3> QED
      BY <3>1, <3>2
  <2> QED
    BY <2>3 DEF Near
<1> QED
  BY <1>4, <1>5

(* There are as many steps as blocks, so that nothing is left out.         *)
LEMMA WithinReach ==
  ASSUME Len(code) \in Nat \ {0}, \A b \in Blocks : Targets(b) = Succ(code[b]),
         Inside(code)
  PROVE  Reachable = Reach(code)
<1>1. 1 \in Blocks /\ \A b \in Blocks : Targets(b) \subseteq Blocks
  BY DEF Inside, Blocks
<1>2. Within[0] = {1} /\ \A n \in Nat : Within[n + 1] = UNION {Near(b) : b \in Within[n]}
  BY <1>1, WithinEquation
<1>3. /\ Reach(code) \subseteq Blocks /\ Follows(code, Reach(code))
      /\ \A S \in SUBSET Blocks : Follows(code, S) => Reach(code) \subseteq S
  BY ReachLeast DEF Blocks
<1>4. \A n \in Nat : Within[n] \subseteq Reach(code)
  <2> DEFINE S == {n \in Nat : Within[n] \subseteq Reach(code)}
  <2>1. 0 \in S
    BY <1>2, <1>3 DEF Follows
  <2>2. ASSUME NEW n \in Nat, n \in S
        PROVE  n + 1 \in S
    <3>1. Within[n] \subseteq Reach(code)
      BY <2>2
    <3>2. \A b \in Within[n] : Near(b) \subseteq Reach(code)
      BY <1>3, <3>1 DEF Follows, Near
    <3>3. Within[n + 1] \subseteq Reach(code)
      BY <1>2, <3>2
    <3> QED
      BY <3>3
  <2>3. Nat \subseteq S
    <3> HIDE DEF S
    <3> QED
      BY <2>1, <2>2, SetInduction
  <2> QED
    BY <2>3
<1>5. \A n \in Nat : 1 \in Within[n] /\ Within[n] \subseteq Within[n + 1]
  <2>1. \A n \in Nat : Within[n] \subseteq Within[n + 1]
    BY <1>2 DEF Near
  <2> DEFINE S == {n \in Nat : 1 \in Within[n]}
  <2>2. 0 \in S
    BY <1>2
  <2>3. \A n \in Nat : n \in S => n + 1 \in S
    BY <2>1
  <2>4. Nat \subseteq S
    <3> HIDE DEF S
    <3> QED
      BY <2>2, <2>3, SetInduction
  <2> QED
    BY <2>1, <2>4
<1> DEFINE Closed(n) == \A b \in Within[n] : Near(b) \subseteq Within[n]
<1>6. \A n \in Nat : IsFiniteSet(Within[n]) /\ Cardinality(Within[n]) <= Len(code)
                     /\ Cardinality(Within[n]) \in Nat
  <2> SUFFICES ASSUME NEW n \in Nat
               PROVE  IsFiniteSet(Within[n]) /\ Cardinality(Within[n]) <= Len(code)
                      /\ Cardinality(Within[n]) \in Nat
    OBVIOUS
  <2>1. IsFiniteSet(Blocks) /\ Cardinality(Blocks) = Len(code)
    BY FS_Interval DEF Blocks
  <2>2. Within[n] \in SUBSET Blocks
    BY <1>3, <1>4
  <2>3. IsFiniteSet(Within[n]) /\ Cardinality(Within[n]) <= Cardinality(Blocks)
    BY <2>1, <2>2, FS_Subset
  <2> QED
    BY <2>1, <2>3, FS_CardinalityType
<1>7. \A n \in Nat : Closed(n) \/ Cardinality(Within[n]) >= n + 1
  <2> DEFINE S == {n \in Nat : Closed(n) \/ Cardinality(Within[n]) >= n + 1}
  <2>1. 0 \in S
    <3>1. Cardinality(Within[0]) = 1
      BY <1>2, FS_Singleton
    <3> QED
      BY <3>1
  <2>2. ASSUME NEW n \in Nat, n \in S
        PROVE  n + 1 \in S
    <3>1. CASE Closed(n)
      <4>1. Within[n + 1] = Within[n]
        <5>1. Within[n] \subseteq Within[n + 1]
          BY <1>5
        <5>2. Within[n + 1] = UNION {Near(b) : b \in Within[n]}
          BY <1>2
        <5>3. UNION {Near(b) : b \in Within[n]} \subseteq Within[n]
          BY <3>1
        <5> QED
          BY <5>1, <5>2, <5>3, Zenon
      <4>2. Closed(n + 1)
        BY <3>1, <4>1
      <4> QED
        BY <4>2
    <3>2. CASE ~ Closed(n)
      <4>1. Within[n] # Within[n + 1]
        BY <1>2, <3>2
      <4>2. Cardinality(Within[n]) >= n + 1
        BY <2>2, <3>2
      <4>3. /\ IsFiniteSet(Within[n + 1]) /\ Within[n] \in SUBSET Within[n + 1]
        <5>1. n + 1 \in Nat
          OBVIOUS
        <5>2. Within[n] \subseteq Within[n + 1]
          BY <1>5
        <5> QED
          BY <1>6, <5>1, <5>2
      <4>4. /\ Cardinality(Within[n]) <= Cardinality(Within[n + 1])
            /\ Cardinality(Within[n + 1]) # Cardinality(Within[n])
        <5>1. PICK V, W : V = Within[n] /\ W = Within[n + 1]
          OBVIOUS
        <5> QED
          BY <4>1, <4>3, <5>1, FS_Subset
      <4>5. Cardinality(Within[n]) \in Nat /\ Cardinality(Within[n + 1]) \in Nat
        <5>1. n \in Nat /\ n + 1 \in Nat
          OBVIOUS
        <5> QED
          BY <1>6, <5>1, Zenon
      <4> HIDE DEF Closed
      <4> QED
        BY <4>2, <4>4, <4>5
    <3> QED
      BY <3>1, <3>2
  <2>3. Nat \subseteq S
    <3> HIDE DEF S
    <3> QED
      BY <2>1, <2>2, SetInduction
  <2> HIDE DEF Closed
  <2> QED
    BY <2>3
<1>8. Closed(Len(code))
  <2> HIDE DEF Closed
  <2> QED
    BY <1>6, <1>7
<1>9. Follows(code, Within[Len(code)])
  <2>1. Within[Len(code)] \subseteq Blocks
    BY <1>3, <1>4
  <2> QED
    BY <1>5, <1>8, <2>1 DEF Follows, Near
<1>10. Within[Len(code)] \subseteq Reach(code)
  BY <1>4
<1>11. Reach(code) \subseteq Within[Len(code)]
  BY <1>3, <1>9, <1>10
<1> QED
  BY <1>10, <1>11 DEF Reachable

LEMMA WarningInvExact == WarningInv => WarningExact
<1> SUFFICES ASSUME WarningInv, Done
             PROVE  alwaysReturns[function.body] <=> implicit \notin Reachable
  BY DEF WarningExact
<1>1. stack = <<>>
  BY DEF Done
<1>2. Working /\ Flow /\ Walk
  <2>1. ~Fresh
    BY <1>1 DEF Fresh
  <2> QED
    BY <2>1 DEF WarningInv, FlowInv, TypeInv
<1>3. Len(code) \in Nat \ {0} /\ Inside(code)
  BY <1>2, CodeFacts, InsideFacts
<1>4. \A b \in Blocks : Targets(b) = Succ(code[b])
  <2>1. \A b \in Blocks : code[b] # <<>>
    BY FlowInvVerified DEF WarningInv, Verified, WellFormed, IsOpen
  <2> QED
    BY <2>1, Zenon DEF Targets, Succ
<1>5. Reachable = Reach(code)
  BY <1>3, <1>4, WithinReach
<1> QED
  BY <1>1, <1>2, <1>5 DEF Walk

(* Semantic analysis and code generation agree for every function: the     *)
(* warning that control may reach the end is given exactly when the return *)
(* that emitFunction adds there can be reached from the entry block.       *)
THEOREM WarningCorrect == Spec => []WarningExact
  BY WarningInvariant, WarningInvExact, PTL
=============================================================================
