-------------------------------- MODULE IRGen --------------------------------
(***************************************************************************)
(* The direct LLVM IR generator (src/IRGen.cpp): one function definition   *)
(* is walked by mutually recursive emit functions that append instructions *)
(* to basic blocks through the cursor of an llvm::IRBuilder.               *)
(*                                                                         *)
(* The C++ call stack is explicit: `stack' holds one activation per active *)
(* emit function, with the point where it resumes.  A step runs one        *)
(* activation from a recursive call (or its start) to the next recursive   *)
(* call (or its end).                                                      *)
(***************************************************************************)
EXTENDS CMinusSyntax

VARIABLES
  function,    \* the function being generated (currentFunction_)
  indexChecks, \* IRGenOptions::indexChecks
  stack,       \* activations of the emit functions, innermost last
  code,        \* the basic blocks in order of creation, each a sequence of instructions
  attached,    \* the blocks that have been inserted in the function
  cursor,      \* the insertion block of builder_, 0 before the entry block exists
  addresses,   \* the symbols that have storage (addresses_)
  implicit     \* the block that got the return of emitFunction's end, 0 if none

vars == <<function, indexChecks, stack, code, attached, cursor, addresses, implicit>>

-----------------------------------------------------------------------------
(* Instructions.  `arg' is what the instruction works on, `to' the targets *)
(* of a branch.                                                            *)

Instruction(op, arg) == [op |-> op, arg |-> arg, to |-> <<>>]
Br(block) == [op |-> "br", arg |-> "", to |-> <<block>>]
CondBr(what, yes, no) == [op |-> "condbr", arg |-> what, to |-> <<yes, no>>]
Ret(value) == Instruction("ret", value)
Unreachable == Instruction("unreachable", "")

IsTerminator(i) == i.op \in {"br", "condbr", "ret", "unreachable"}

IsOpen(instructions) ==
  instructions # <<>> => ~IsTerminator(instructions[Len(instructions)])

(* The current block still needs a terminator.                             *)
blockOpen == IsOpen(code[cursor])

(* The IRBuilder appends at the cursor without checking anything.          *)
Emit(instruction) ==
  code' = [code EXCEPT ![cursor] = Append(@, instruction)]

(* As above, after `n' new empty blocks were created.                      *)
EmitCreating(instruction, n) ==
  code' = [code EXCEPT ![cursor] = Append(@, instruction)] \o [i \in 1..n |-> <<>>]

(* As it would be if a block were counted that was never created.         *)
NewBlockSkipping(i) == Len(code) + i + 1

NewBlock(i) == Len(code) + i

-----------------------------------------------------------------------------
(* Activations.  `at' is the emit function and where in it to resume,      *)
(* `node' its argument, `next' the child to visit next; `end', `other' and *)
(* `body' are the blocks it holds in local variables: those of emitIf are  *)
(* endBlock and elseBlock, those of emitWhile endBlock, condBlock and      *)
(* bodyBlock.                                                              *)

Activation(at, node) ==
  [at |-> at, node |-> node, next |-> 1, end |-> 0, other |-> 0, body |-> 0]

Top == stack[Len(stack)]
Below == SubSeq(stack, 1, Len(stack) - 1)
At(label) == stack # <<>> /\ Top.at = label

Resume(activation) == Append(Below, activation)
CallFrom(activation, callee) == Append(Append(Below, activation), callee)
Return == Below

(* emitStmt dispatches on the kind of the statement.                       *)
emitStmt(stmt) == Activation(stmt.kind, stmt)
emitExpr(expr) == Activation("expr", expr)

-----------------------------------------------------------------------------
(* Expressions.  What emitExpr does for an expression is a sequence of     *)
(* parts: the recursive calls, the index check and the instructions, in    *)
(* the order they are emitted.                                             *)

Sub(expr) == [do |-> "emitExpr", of |-> expr]
Check(index) == [do |-> "checkIndex", of |-> index]
Do(instruction) == [do |-> "emit", of |-> instruction]

HasAddress(symbol) == symbol \in addresses

(* The address of a scalar is its slot.  That of an element takes its      *)
(* index, checked before anything else is evaluated.                       *)
elementAddress(var) ==
  IF var.kind = "elem" /\ HasAddress(var.symbol)
  THEN <<Sub(var.index), Check(var.index)>>
  ELSE <<>>

emitVar(var) ==
  IF HasAddress(var.symbol)
  THEN elementAddress(var) \o <<Do(Instruction("load", var.symbol))>>
  ELSE <<>>

(* The address (and its check) comes before the value.                     *)
emitAssign(expr) ==
  elementAddress(expr.target) \o <<Sub(expr.value)>>
    \o IF HasAddress(expr.target.symbol)
       THEN <<Do(Instruction("store", expr.target.symbol))>>
       ELSE <<>>

emitBinary(expr) == <<Sub(expr.lhs), Sub(expr.rhs), Do(Instruction("binary", expr.op))>>

(* A whole array is passed as the address of its first element.            *)
arrayBase(array) ==
  IF HasAddress(array.symbol) THEN <<Do(Instruction("base", array.symbol))>> ELSE <<>>

emitCall(expr) ==
  [i \in 1..Len(expr.args) |-> Sub(expr.args[i])] \o <<Do(Instruction("call", expr.callee))>>

Parts(expr) ==
  CASE expr.kind \in {"num", "big"} -> <<>>
    [] expr.kind \in {"var", "elem"} -> emitVar(expr)
    [] expr.kind = "array" -> arrayBase(expr)
    [] expr.kind = "assign" -> emitAssign(expr)
    [] expr.kind = "binary" -> emitBinary(expr)
    [] expr.kind = "call" -> emitCall(expr)

Part == Parts(Top.node)[Top.next]
Advanced == [Top EXCEPT !.next = @ + 1]
AtPart(what) ==
  /\ At("expr")
  /\ Top.next <= Len(Parts(Top.node))
  /\ Part.do = what

EmitSubexpr ==
  /\ AtPart("emitExpr")
  /\ stack' = CallFrom(Advanced, emitExpr(Part.of))
  /\ UNCHANGED <<function, indexChecks, code, attached, cursor, addresses, implicit>>

EmitInstruction ==
  /\ AtPart("emit")
  /\ Emit(Part.of)
  /\ stack' = Resume(Advanced)
  /\ UNCHANGED <<function, indexChecks, attached, cursor, addresses, implicit>>

(* As it would be with every literal taken for a non-negative one.         *)
NeedsCheckUnlessKnown(index) == indexChecks /\ ~Known[index]

(* No test is needed when checks are off, or for a constant that is not    *)
(* negative.                                                               *)
NeedsCheck(index) == indexChecks /\ ~NeverNegative[index]

SkipCheck ==
  /\ AtPart("checkIndex")
  /\ ~NeedsCheck(Part.of)
  /\ stack' = Resume(Advanced)
  /\ UNCHANGED <<function, indexChecks, code, attached, cursor, addresses, implicit>>

(* A negative index leaves through index.fail, which calls the runtime and *)
(* does not come back; emission goes on in index.ok.                       *)
CheckIndex ==
  LET failBlock == NewBlock(1)
      okBlock == NewBlock(2)
  IN /\ AtPart("checkIndex")
     /\ NeedsCheck(Part.of)
     /\ code' = [code EXCEPT ![cursor] = Append(@, CondBr("index", failBlock, okBlock))]
                  \o << <<Instruction("indexError", ""), Unreachable>>, <<>> >>
     /\ attached' = attached \union {failBlock, okBlock}
     /\ cursor' = okBlock
     /\ stack' = Resume(Advanced)
     /\ UNCHANGED <<function, indexChecks, addresses, implicit>>

(* As it would be with one part too many awaited.                          *)
EndExprLate ==
  /\ At("expr")
  /\ Top.next > Len(Parts(Top.node)) + 1
  /\ stack' = Return
  /\ UNCHANGED <<function, indexChecks, code, attached, cursor, addresses, implicit>>

EndExpr ==
  /\ At("expr")
  /\ Top.next > Len(Parts(Top.node))
  /\ stack' = Return
  /\ UNCHANGED <<function, indexChecks, code, attached, cursor, addresses, implicit>>

-----------------------------------------------------------------------------
(* Statements.                                                             *)

EmitExprStmt ==
  /\ At("exprstmt")
  /\ stack' = IF Top.node.expr = None THEN Return ELSE Resume(emitExpr(Top.node.expr))
  /\ UNCHANGED <<function, indexChecks, code, attached, cursor, addresses, implicit>>

(* As it would be without a thought for dead statements.                   *)
CompoundGoesOnDead == Top.next <= Len(Top.node.stmts)

(* The statements of a block in turn, up to one that closes the cursor's   *)
(* block: what follows it is dead.                                         *)
CompoundGoesOn ==
  /\ Top.next <= Len(Top.node.stmts)
  /\ Top.next > 1 => blockOpen

EmitCompound ==
  /\ At("compound")
  /\ CompoundGoesOn
  /\ stack' = CallFrom(Advanced, emitStmt(Top.node.stmts[Top.next]))
  /\ UNCHANGED <<function, indexChecks, code, attached, cursor, addresses, implicit>>

EndCompound ==
  /\ At("compound")
  /\ ~CompoundGoesOn
  /\ stack' = Return
  /\ UNCHANGED <<function, indexChecks, code, attached, cursor, addresses, implicit>>

EmitIf ==
  /\ At("if")
  /\ stack' = CallFrom([Top EXCEPT !.at = "if.cond"], emitExpr(Top.node.cond))
  /\ UNCHANGED <<function, indexChecks, code, attached, cursor, addresses, implicit>>

(* if.end is created detached and inserted when both arms are done.        *)
EmitIfBranch ==
  LET thenBlock == NewBlock(1)
      endBlock == NewBlock(2)
      elseBlock == NewBlock(3)
      hasElse == Top.node.else # None
  IN /\ At("if.cond")
     /\ EmitCreating(CondBr("cond", thenBlock, IF hasElse THEN elseBlock ELSE endBlock),
                     IF hasElse THEN 3 ELSE 2)
     /\ attached' = attached \union {thenBlock}
                      \union (IF hasElse THEN {elseBlock} ELSE {})
     /\ cursor' = thenBlock
     /\ stack' = CallFrom([Top EXCEPT !.at = IF hasElse THEN "if.then" ELSE "if.last",
                                      !.end = endBlock,
                                      !.other = IF hasElse THEN elseBlock ELSE 0],
                          emitStmt(Top.node.then))
     /\ UNCHANGED <<function, indexChecks, addresses, implicit>>

(* As it would be if no arm, or every arm, were taken for a closed one.    *)
CloseWithNothing(block) == code' = code
CloseWithAlways(block) == Emit(Br(block))

(* An arm that is still open goes on at the block behind the statement.    *)
CloseWith(block) == IF blockOpen THEN Emit(Br(block)) ELSE code' = code

EmitElse ==
  /\ At("if.then")
  /\ CloseWith(Top.end)
  /\ cursor' = Top.other
  /\ stack' = CallFrom([Top EXCEPT !.at = "if.last"], emitStmt(Top.node.else))
  /\ UNCHANGED <<function, indexChecks, attached, addresses, implicit>>

(* As it would be if the end block were left out of the function.          *)
EndIfDetached ==
  /\ At("if.last")
  /\ CloseWith(Top.end)
  /\ cursor' = Top.end
  /\ stack' = Return
  /\ UNCHANGED <<function, indexChecks, attached, addresses, implicit>>

EndIf ==
  /\ At("if.last")
  /\ CloseWith(Top.end)
  /\ attached' = attached \union {Top.end}
  /\ cursor' = Top.end
  /\ stack' = Return
  /\ UNCHANGED <<function, indexChecks, addresses, implicit>>

EmitWhile ==
  LET condBlock == NewBlock(1)
      bodyBlock == NewBlock(2)
      endBlock == NewBlock(3)
  IN /\ At("while")
     /\ EmitCreating(Br(condBlock), 3)
     /\ attached' = attached \union {condBlock, bodyBlock, endBlock}
     /\ cursor' = condBlock
     /\ stack' = CallFrom([Top EXCEPT !.at = "while.cond", !.end = endBlock,
                                      !.other = condBlock, !.body = bodyBlock],
                          emitExpr(Top.node.cond))
     /\ UNCHANGED <<function, indexChecks, addresses, implicit>>

EmitWhileBody ==
  /\ At("while.cond")
  /\ Emit(CondBr("cond", Top.body, Top.end))
  /\ cursor' = Top.body
  /\ stack' = CallFrom([Top EXCEPT !.at = "while.body"], emitStmt(Top.node.body))
  /\ UNCHANGED <<function, indexChecks, attached, addresses, implicit>>

EndWhile ==
  /\ At("while.body")
  /\ CloseWith(Top.other)
  /\ cursor' = Top.end
  /\ stack' = Return
  /\ UNCHANGED <<function, indexChecks, attached, addresses, implicit>>

(* The generated function decides what is returned, so that main's         *)
(* `return;' yields an exit status.                                        *)
ReturnsVoid == function.kind = "void"

EmitReturnValue ==
  /\ At("return")
  /\ Top.node.value # None
  /\ stack' = CallFrom([Top EXCEPT !.at = "return.value"], emitExpr(Top.node.value))
  /\ UNCHANGED <<function, indexChecks, code, attached, cursor, addresses, implicit>>

EmitReturn ==
  /\ \/ At("return") /\ Top.node.value = None
     \/ At("return.value")
  /\ Emit(Ret(CASE ReturnsVoid -> "void"
                [] ~ReturnsVoid /\ Top.node.value # None -> "value"
                [] OTHER -> "zero"))
  /\ stack' = Return
  /\ UNCHANGED <<function, indexChecks, attached, cursor, addresses, implicit>>

-----------------------------------------------------------------------------
(* Functions.                                                              *)

(* Every local declaration of a function body, however deeply nested.      *)
collectLocals[stmt \in Stmt] ==
  CASE stmt.kind = "compound" ->
         stmt.decls \union UNION {collectLocals[stmt.stmts[i]] : i \in DOMAIN stmt.stmts}
    [] stmt.kind = "if" ->
         collectLocals[stmt.then]
           \union (IF stmt.else = None THEN {} ELSE collectLocals[stmt.else])
    [] stmt.kind = "while" -> collectLocals[stmt.body]
    [] OTHER -> {}

(* The slots of all parameters and locals are made at the top of the entry *)
(* block, before any statement; one instruction stands for all of that.    *)
EmitFunction ==
  /\ At("function")
  /\ code' = << <<Instruction("alloca", "")>> >>
  /\ attached' = {1}
  /\ cursor' = 1
  /\ addresses' = addresses \union function.params \union collectLocals[function.body]
  /\ stack' = CallFrom([Top EXCEPT !.at = "function.end"], emitStmt(function.body))
  /\ UNCHANGED <<function, indexChecks, implicit>>

(* A body that can run off its end returns nothing, or zero.               *)
EndFunction ==
  /\ At("function.end")
  /\ IF blockOpen
     THEN /\ Emit(Ret(IF ReturnsVoid THEN "void" ELSE "zero"))
          /\ implicit' = cursor
     ELSE UNCHANGED <<code, implicit>>
  /\ stack' = Return
  /\ UNCHANGED <<function, indexChecks, attached, cursor, addresses>>

Done == stack = <<>>

-----------------------------------------------------------------------------
Init ==
  /\ function \in Function
  /\ indexChecks \in BOOLEAN
  /\ stack = <<Activation("function", function)>>
  /\ code = <<>>
  /\ attached = {}
  /\ cursor = 0
  /\ addresses = Globals
  /\ implicit = 0

Next ==
  \/ EmitFunction \/ EndFunction
  \/ EmitCompound \/ EndCompound
  \/ EmitExprStmt
  \/ EmitIf \/ EmitIfBranch \/ EmitElse \/ EndIf
  \/ EmitWhile \/ EmitWhileBody \/ EndWhile
  \/ EmitReturnValue \/ EmitReturn
  \/ EmitSubexpr \/ EmitInstruction \/ SkipCheck \/ CheckIndex \/ EndExpr

Spec == Init /\ [][Next]_vars

(* Generation is one thread that nothing can suspend.                      *)
FairSpec == Spec /\ WF_vars(Next)

-----------------------------------------------------------------------------
(* What the generated function must be like.                               *)

Blocks == 1..Len(code)

(* The blocks an activation has branched to and has yet to fill.           *)
Pending(a) ==
  CASE a.at = "if.then" -> {a.end, a.other}
    [] a.at \in {"if.last", "while.body"} -> {a.end}
    [] a.at = "while.cond" -> {a.end, a.body}
    [] OTHER -> {}

AllPending == UNION {Pending(stack[k]) : k \in 1..Len(stack)}

Labels ==
  { "function", "function.end", "compound", "exprstmt", "if", "if.cond", "if.then",
    "if.last", "while", "while.cond", "while.body", "return", "return.value", "expr" }

Frame == [at : Labels, node : Expr \union Stmt \union Function,
          next : Nat \ {0}, end : Nat, other : Nat, body : Nat]

Instructions ==
  [op : {"alloca", "load", "store", "binary", "call", "base", "indexError",
         "br", "condbr", "ret", "unreachable"},
   arg : Symbol \union Operator \union Callee
           \union {"", "cond", "index", "void", "value", "zero"},
   to : Seq(Nat)]

InstructionOK(i) == IsTerminator(i) => \A t \in 1..Len(i.to) : i.to[t] \in Blocks

(* The cursor is in a block of the function from its entry block on.       *)
TypeOK ==
  /\ stack \in Seq(Frame)
  /\ code \in Seq(Seq(Instructions))
  /\ attached \subseteq Blocks
  /\ implicit \in Blocks \union {0}
  /\ cursor \in Blocks \/ (cursor = 0 /\ code = <<>>)

(* A block is finished unless the cursor is in it or an active statement   *)
(* has yet to fill it; no block is claimed twice.  Were it otherwise,      *)
(* emitIf or emitWhile would leave an open block behind, or two statements *)
(* would write into one block.                                             *)
OnlyPendingOpen ==
  /\ \A b \in Blocks : IsOpen(code[b]) => b = cursor \/ b \in AllPending
  /\ \A b \in AllPending : b # cursor /\ code[b] = <<>>
  /\ \A j, k \in 1..Len(stack) :
       j # k => Pending(stack[j]) \cap Pending(stack[k]) = {}

(* What the module verifier that run() calls demands of the control flow:  *)
(* every block is in the function, ends with a terminator and has no other *)
(* one, and every branch stays in the function.                            *)
WellFormed(b) ==
  /\ b \in attached
  /\ ~IsOpen(code[b])
  /\ \A i \in 1..Len(code[b]) :
       /\ IsTerminator(code[b][i]) <=> i = Len(code[b])
       /\ InstructionOK(code[b][i])

Verified == Done => \A b \in Blocks : WellFormed(b)

(* A block that has its terminator is never written again: no statement    *)
(* after a return, in the same block or in an enclosing one, is appended   *)
(* behind it.                                                              *)
ClosedStays ==
  [][\A b \in Blocks : ~IsOpen(code[b]) => b \in 1..Len(code') /\ code'[b] = code[b]]_vars

(* Semantic analysis warns that an int function may end without a return   *)
(* when alwaysReturns does not hold of its body.  The two walks of the     *)
(* tree agree: the warning is given exactly when the return that           *)
(* emitFunction adds can be reached from the entry block.                  *)
alwaysReturns[stmt \in Stmt] ==
  CASE stmt.kind = "return" -> TRUE
    [] stmt.kind = "compound" -> \E i \in DOMAIN stmt.stmts : alwaysReturns[stmt.stmts[i]]
    [] stmt.kind = "if" ->
         /\ stmt.else # None
         /\ alwaysReturns[stmt.then]
         /\ alwaysReturns[stmt.else]
    [] OTHER -> FALSE

Targets(b) == LET last == code[b][Len(code[b])] IN {last.to[t] : t \in 1..Len(last.to)}
Within[n \in Nat] ==
  IF n = 0 THEN {1} ELSE UNION {{b} \union Targets(b) : b \in Within[n - 1]}
Reachable == Within[Len(code)]

WarningExact ==
  Done /\ function.kind = "int" =>
    (alwaysReturns[function.body] <=> implicit \notin Reachable)

(* The generator finishes on every function.                               *)
Finishes == <>Done
=============================================================================
