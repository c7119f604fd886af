------------------------------ MODULE MLIRGen ------------------------------
(***************************************************************************)
(* The MLIR generator (src/MLIRGen.cpp), one class for both flavours of    *)
(* --use-mlir.  The std flavour emits blocks and branches itself; the      *)
(* cminus flavour emits operations with regions, which lower-cminus-to-cf  *)
(* (module CMinusToCF) turns into blocks and branches later.               *)
(*                                                                         *)
(* The C++ functions append operations to one generator object.  Here each *)
(* is an operator that takes the generator before the call and returns the *)
(* generator after it.                                                     *)
(***************************************************************************)
EXTENDS CMinusSyntax, MLIROps

(* MLIRGenerator:                                                          *)
(*   structured   structured_, the cminus flavour                          *)
(*   indexChecks  options_.indexChecks                                     *)
(*   function     function_                                                *)
(*   slots        the symbols of slots_                                    *)
(*   code         every block created, each a sequence of operations       *)
(*   body         the blocks of the function's own region, in order        *)
(*   cursor       the block builder_ appends to                            *)
(*   implicit     the block that got emitFunction's own return, 0 if none  *)
Generator(function, indexChecks, structured) ==
  [structured |-> structured, indexChecks |-> indexChecks, function |-> function,
   slots |-> {}, code |-> <<>>, body |-> <<>>, cursor |-> 0, implicit |-> 0]

-----------------------------------------------------------------------------
(* Appending to the code.                                                  *)

blockOpen(g) ==
  LET block == g.code[g.cursor] IN block = <<>> \/ Last(block).op \notin Terminators

Create(g, operation) == [g EXCEPT !.code[g.cursor] = Append(@, operation)]

(* `new mlir::Block' or emplaceBlock, n times; the blocks are in no list.  *)
NewBlock(g, i) == Len(g.code) + i
NewBlocks(g, n) == [g EXCEPT !.code = @ \o [i \in 1..n |-> <<>>]]

(* A detached block takes its place at the end of the function.            *)
startBlock(g, block) == [g EXCEPT !.body = Append(@, block), !.cursor = block]

HasPredecessors(g, block) ==
  \E b \in 1..Len(g.code) : g.code[b] # <<>> /\ Contains(Last(g.code[b]).to, block)

RECURSIVE emitExpr(_, _)
RECURSIVE emitStmt(_, _)

-----------------------------------------------------------------------------
(* Expressions, operands first.                                            *)

(* The std flavour splits the code at the check, the cminus flavour leaves *)
(* one operation in its place.                                             *)
branchToFail(g) ==
  Create(NewBlocks(g, 2), OpTo("condbr", "index", <<NewBlock(g, 1), NewBlock(g, 2)>>))
fillFailBlock(g, failBlock) ==
  Create(Create(startBlock(g, failBlock), Op("indexError", "")), Op("unreachable", ""))

checkIndex(g, index) ==
  IF ~g.indexChecks \/ NeverNegative[index] THEN g
  ELSE IF g.structured THEN Create(g, Op("cminus.index_check", ""))
  ELSE startBlock(fillFailBlock(branchToFail(g), NewBlock(g, 1)), NewBlock(g, 2))

(* A slot, or else a global of the symbol's name: memref.get_global, which *)
(* comes before the code of the index.                                     *)
storageOf(g, symbol) ==
  IF symbol \in g.slots THEN g ELSE Create(g, Op("get_global", symbol))

addressOf(g, var) ==
  IF var.kind = "elem" THEN checkIndex(emitExpr(storageOf(g, var.symbol), var.index), var.index)
  ELSE storageOf(g, var.symbol)

(* As it would be with the address taken after the value.                  *)
emitAssignValueFirst(g, e) ==
  Create(addressOf(emitExpr(g, e.value), e.target), Op("store", e.target.symbol))

(* The address (and its check) comes before the value.                     *)
emitAssign(g, e) ==
  Create(emitExpr(addressOf(g, e.target), e.value), Op("store", e.target.symbol))

emitBinary(g, e) == Create(emitExpr(emitExpr(g, e.lhs), e.rhs), Op("binary", e.op))

(* An array is passed as its storage, not as a value.                      *)
emitArgument(g, arg) ==
  IF arg.kind = "array" THEN Create(storageOf(g, arg.symbol), Op("base", arg.symbol))
  ELSE emitExpr(g, arg)

emitCall(g, e) == Create(FoldLeft(emitArgument, g, e.args), Op("call", e.callee))

emitLoad(g, e) == Create(addressOf(g, e), Op("load", e.symbol))

emitExpr(g, e) ==
  CASE e.kind \in {"num", "big"} -> g
    [] e.kind \in {"var", "elem"} -> emitLoad(g, e)
    [] e.kind = "assign" -> emitAssign(g, e)
    [] e.kind = "binary" -> emitBinary(g, e)
    [] e.kind = "call" -> emitCall(g, e)

-----------------------------------------------------------------------------
(* Statements.                                                             *)

(* Behind a statement that closed the block, the others are dead.  (The    *)
(* block is open when the first is reached.)                               *)
emitCompound(g, s) ==
  FoldLeft(LAMBDA before, stmt : IF blockOpen(before) THEN emitStmt(before, stmt) ELSE before,
           g, s.stmts)

CloseWith(g, operation) == IF blockOpen(g) THEN Create(g, operation) ELSE g

MoveTo(g, block) == [g EXCEPT !.cursor = block]

(* One region of a cminus operation; the cursor goes back to where it was. *)
emitRegion(g, block, stmt) ==
  MoveTo(CloseWith(emitStmt(MoveTo(g, block), stmt), Op("cminus.yield", "")), g.cursor)

(* emitIf behind the condition: a cminus.if with its regions, ...          *)
emitIfRegions(g, s) ==
  LET regions == IF s.else = None THEN <<NewBlock(g, 1)>> ELSE <<NewBlock(g, 1), NewBlock(g, 2)>>
      ifOp == Create(NewBlocks(g, Len(regions)), OpTo("cminus.if", "cond", regions))
  IN IF s.else = None THEN emitRegion(ifOp, regions[1], s.then)
     ELSE emitRegion(emitRegion(ifOp, regions[1], s.then), regions[2], s.else)

(* ... or the arms as blocks, up to where they meet.                       *)
emitArm(g, block, stmt, endBlock) ==
  CloseWith(emitStmt(startBlock(g, block), stmt), OpTo("br", "", <<endBlock>>))

emitIfArms(g, s, thenBlock, elseBlock, endBlock) ==
  LET branch == OpTo("condbr", "cond",
                     <<thenBlock, IF s.else = None THEN endBlock ELSE elseBlock>>)
      branched == Create(NewBlocks(g, 3), branch)
  IN IF s.else = None THEN emitArm(branched, thenBlock, s.then, endBlock)
     ELSE emitArm(emitArm(branched, thenBlock, s.then, endBlock), elseBlock, s.else, endBlock)

emitIfBlocks(g, s) == emitIfArms(g, s, NewBlock(g, 1), NewBlock(g, 2), NewBlock(g, 3))

(* As it would be with the end block kept, as IRGen keeps it.              *)
startAlways(g, endBlock) == startBlock(g, endBlock)

(* When both arms return nothing comes to the end block and it is deleted: *)
(* the cursor stays in a closed block, so what follows the if is dead.     *)
startIfReached(g, endBlock) ==
  IF HasPredecessors(g, endBlock) THEN startBlock(g, endBlock) ELSE g

emitBranches(g, s) ==
  IF g.structured THEN emitIfRegions(g, s)
  ELSE startIfReached(emitIfBlocks(g, s), NewBlock(g, 3))

emitIf(g, s) == emitBranches(emitExpr(g, s.cond), s)

emitCondition(g, block, cond) ==
  MoveTo(Create(emitExpr(MoveTo(g, block), cond), Op("cminus.condition", "cond")), g.cursor)

emitWhileRegions(g, s) ==
  LET condBlock == NewBlock(g, 1)
      bodyBlock == NewBlock(g, 2)
      whileOp == Create(NewBlocks(g, 2), OpTo("cminus.while", "", <<condBlock, bodyBlock>>))
  IN emitRegion(emitCondition(whileOp, condBlock, s.cond), bodyBlock, s.body)

emitWhileBlocks(g, s) ==
  LET condBlock == NewBlock(g, 1)
      bodyBlock == NewBlock(g, 2)
      endBlock == NewBlock(g, 3)
      entered == startBlock(Create(NewBlocks(g, 3), OpTo("br", "", <<condBlock>>)), condBlock)
      cond == Create(emitExpr(entered, s.cond),
                     OpTo("condbr", "cond", <<bodyBlock, endBlock>>))
  IN startBlock(emitArm(cond, bodyBlock, s.body, condBlock), endBlock)

emitWhile(g, s) == IF g.structured THEN emitWhileRegions(g, s) ELSE emitWhileBlocks(g, s)

(* As it would be with func.return in every flavour.                       *)
createFuncReturn(g, value) == Create(g, Op("return", value))

(* func.return may only end a block of the function's own region.          *)
createReturn(g, value) ==
  Create(g, Op(IF g.structured THEN "cminus.return" ELSE "return", value))

(* The result type of the MLIR function decides, so that main's `return;'  *)
(* yields an exit status.                                                  *)
ReturnsVoid(g) == g.function.kind = "void"

emitReturn(g, s) ==
  createReturn(IF s.value = None THEN g ELSE emitExpr(g, s.value),
               CASE ReturnsVoid(g) -> "void"
                 [] ~ReturnsVoid(g) /\ s.value # None -> "value"
                 [] OTHER -> "zero")

emitStmt(g, s) ==
  CASE s.kind = "compound" -> emitCompound(g, s)
    [] s.kind = "exprstmt" -> IF s.expr = None THEN g ELSE emitExpr(g, s.expr)
    [] s.kind = "if" -> emitIf(g, s)
    [] s.kind = "while" -> emitWhile(g, s)
    [] s.kind = "return" -> emitReturn(g, s)

-----------------------------------------------------------------------------
(* Functions.                                                              *)

RECURSIVE collectLocals(_)
collectLocals(s) ==
  CASE s.kind = "compound" ->
         s.decls \union UNION {collectLocals(s.stmts[i]) : i \in DOMAIN s.stmts}
    [] s.kind = "if" ->
         collectLocals(s.then) \union (IF s.else = None THEN {} ELSE collectLocals(s.else))
    [] s.kind = "while" -> collectLocals(s.body)
    [] OTHER -> {}

(* The slots of all parameters and locals are made at the top of the entry *)
(* block, before any statement; one operation stands for all of that.  A   *)
(* body that can run off its end returns nothing, or zero.                 *)
createSlots(g) ==
  [Create(g, Op("alloca", "")) EXCEPT
     !.slots = @ \union g.function.params \union collectLocals(g.function.body)]

returnImplicitly(g) ==
  IF ~blockOpen(g) THEN g
  ELSE [createReturn(g, IF ReturnsVoid(g) THEN "void" ELSE "zero") EXCEPT !.implicit = g.cursor]

emitFunction(g) ==
  LET entry == startBlock(NewBlocks(g, 1), 1)
  IN returnImplicitly(emitCompound(createSlots(entry), g.function.body))

(* generateStdMLIR and generateCMinusMLIR, for one function.               *)
Generated(function, indexChecks, structured) ==
  emitFunction(Generator(function, indexChecks, structured))
=============================================================================
