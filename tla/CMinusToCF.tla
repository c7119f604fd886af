----------------------------- MODULE CMinusToCF -----------------------------
(***************************************************************************)
(* From a generated MLIR function to one that LLVM can take: the pass      *)
(* lower-cminus-to-cf (src/CMinusToCF.cpp), for the cminus flavour, and    *)
(* the passes of lowerMLIRToLLVM behind it (src/MLIRLower.cpp).            *)
(*                                                                         *)
(* The conversion driver of MLIR applies a pattern to one operation at a   *)
(* time, parents before children, because it collects the operations in    *)
(* preorder.  That is the order of the source: always the first operation  *)
(* of the function that is still illegal.  With AnyOrder, which is more    *)
(* than MLIR does, a step may take any operation whose parents are gone;   *)
(* no order that takes a child before its parent is covered.               *)
(***************************************************************************)
EXTENDS CMinusSyntax, MLIROps

CONSTANTS
  Modules,  \* what the generators hand over: records with the fields of a generator
  AnyOrder  \* any order that takes parents before children, or the driver's?

Operation ==
  [op : Terminators \union CMinusOps \union
          {"alloca", "get_global", "load", "store", "base", "binary", "call", "indexError"},
   arg : Symbol \union Operator \union Callee \union
           {"", "cond", "index", "void", "value", "zero"},
   to : Seq(Nat)]

(* An if has one or two regions, a while has two (CMinusOps.td).           *)
RegionsOK(operation) ==
  CASE operation.op = "cminus.if" -> Len(operation.to) \in 1..2
    [] operation.op = "cminus.while" -> Len(operation.to) = 2
    [] OTHER -> TRUE

(* A function has an entry block, and no block is in its list twice.  An   *)
(* operation with regions stands in a block in place, and the blocks of    *)
(* its regions were made after that block.  Only the cminus flavour makes  *)
(* operations of the dialect.                                              *)
ASSUME ModulesAssumption ==
  \A m \in Modules :
    /\ m.code \in Seq(Seq(Operation))
    /\ m.body \in Seq(1..Len(m.code)) /\ m.body # <<>> /\ IsInjective(m.body)
    /\ m.implicit \in 0..Len(m.code)
    /\ \A b \in 1..Len(m.code) : \A i \in 1..Len(m.code[b]) :
         /\ m.code[b][i].to \in Seq(1..Len(m.code))
         /\ RegionsOK(m.code[b][i])
         /\ m.code[b][i].op \in CMinusOps => m.structured
    /\ \A r \in Regions(m.code) :
         r[1] \in InPlace(m.code, m.body) /\ r[1] < BlockOf(m.code, r)

VARIABLES
  input,    \* the function: its source, index checks, and the flavour
  code,     \* every block
  body,     \* the blocks of the function's own region, in order
  implicit, \* the block of the return that emitFunction added, 0 if none
  phase     \* what has been done to the function

vars == <<input, code, body, implicit, phase>>

-----------------------------------------------------------------------------
(* The two moves that the patterns share.                                  *)

(* splitBlock at operation i of block b, and the operation erased: what    *)
(* came before it stays, what follows it goes to a new block.              *)
Before(b, i) == SubSeq(code[b], 1, i - 1)
Behind(b, i) == SubSeq(code[b], i + 1, Len(code[b]))

(* As it would be with the number of another block.                        *)
contBehind == Len(code) + 2

(* The new block.                                                          *)
cont == Len(code) + 1

(* The return added by emitFunction ends its block, so it goes along.      *)
ReturnMoves(b) == implicit' = IF implicit = b THEN cont ELSE implicit

(* inlineRegionBefore and splitBlock put blocks right behind block b.      *)
Inlined(b, blocks) ==
  LET at == CHOOSE k \in 1..Len(body) : body[k] = b
  IN SubSeq(body, 1, at) \o blocks \o SubSeq(body, at + 1, Len(body))

(* As it would be with the branch put behind a return, too.                *)
branchBehindAll(operations, dest) ==
  Append(IF Last(operations).op = "cminus.yield" THEN Front(operations) ELSE operations,
         OpTo("br", "", <<dest>>))

(* A region that ends in a return leaves the function; one that ends in a  *)
(* yield goes on at dest.                                                  *)
branchInsteadOfYield(operations, dest) ==
  IF Last(operations).op = "cminus.yield"
  THEN Append(Front(operations), OpTo("br", "", <<dest>>))
  ELSE operations

-----------------------------------------------------------------------------
(* The patterns, applied to operation i of block b.                        *)

(* The pattern fails when the module does not declare the function.        *)
IndexCheckLowering(b, i) ==
  LET ok == cont
      fail == cont + 1
  IN /\ code[b][i].op = "cminus.index_check"
     /\ input.indexChecks
     /\ code' = [code EXCEPT ![b] = Append(Before(b, i), OpTo("condbr", "index", <<fail, ok>>))]
                  \o <<Behind(b, i), <<Op("indexError", ""), Op("unreachable", "")>> >>
     /\ body' = Inlined(b, <<fail, ok>>)
     /\ ReturnMoves(b)

IfLowering(b, i) ==
  LET arms == code[b][i].to
      elseBlock == IF Len(arms) = 2 THEN arms[2] ELSE cont
      branch == OpTo("condbr", code[b][i].arg, <<arms[1], elseBlock>>)
  IN /\ code[b][i].op = "cminus.if"
     /\ code' = [c \in 1..Len(code) |->
                   CASE c = b -> Append(Before(b, i), branch)
                     [] Contains(arms, c) -> branchInsteadOfYield(code[c], cont)
                     [] OTHER -> code[c]] \o <<Behind(b, i)>>
     /\ body' = Inlined(b, Append(arms, cont))
     /\ ReturnMoves(b)

WhileLowering(b, i) ==
  LET condBlock == code[b][i].to[1]
      bodyBlock == code[b][i].to[2]
      condition == Last(code[condBlock])
  IN /\ code[b][i].op = "cminus.while"
     /\ condition.op = "cminus.condition"
     /\ code' = [code EXCEPT
                   ![b] = Append(Before(b, i), OpTo("br", "", <<condBlock>>)),
                   ![condBlock] =
                     Append(Front(@), OpTo("condbr", condition.arg, <<bodyBlock, cont>>)),
                   ![bodyBlock] = branchInsteadOfYield(@, condBlock)] \o <<Behind(b, i)>>
     /\ body' = Inlined(b, <<condBlock, bodyBlock, cont>>)
     /\ ReturnMoves(b)

ReturnLowering(b, i) ==
  /\ code[b][i].op = "cminus.return"
  /\ code' = [code EXCEPT ![b][i] = Op("return", @.arg)]
  /\ UNCHANGED <<body, implicit>>

(* The operations whose turn it can be: <<b, i>> is operation i of b.      *)
Illegal ==
  UNION {{<<b, i>> : i \in {k \in 1..Len(code[b]) : code[b][k].op \in CMinusOps}} :
           b \in ToSet(body)}
First(o) ==
  \A p \in Illegal :
    LET at(q) == CHOOSE k \in 1..Len(body) : body[k] = q[1]
    IN at(o) < at(p) \/ (at(o) = at(p) /\ o[2] <= p[2])
Turns == {o \in Illegal : AnyOrder \/ First(o)}

ApplyPattern ==
  /\ phase = "converting"
  /\ \E o \in Turns :
       \/ IndexCheckLowering(o[1], o[2])
       \/ IfLowering(o[1], o[2])
       \/ WhileLowering(o[1], o[2])
       \/ ReturnLowering(o[1], o[2])
  /\ UNCHANGED <<input, phase>>

-----------------------------------------------------------------------------
(* The passes.                                                             *)

Accepted == VerifierAccepts(code, body, Globals, input.function.kind = "void")

(* run() verifies what it has generated, and only the cminus flavour is    *)
(* converted.                                                              *)
StartLowering ==
  /\ phase = "generated"
  /\ phase' = CASE ~Accepted -> "rejected"
                [] Accepted /\ input.structured -> "converting"
                [] OTHER -> "flat"
  /\ UNCHANGED <<input, code, body, implicit>>

(* The blocks of the body that are in a set, in the order of the body.     *)
Kept(blocks) ==
  LET kept[k \in 0..Len(body)] ==
        IF k = 0 THEN <<>>
        ELSE IF body[k] \in blocks THEN Append(kept[k - 1], body[k]) ELSE kept[k - 1]
  IN kept[Len(body)]

(* As it would be with the blocks nothing comes to left in place.          *)
KeepUnreachableBlocks ==
  /\ phase = "converting"
  /\ Illegal = {}
  /\ body' = body
  /\ phase' = "flat"
  /\ UNCHANGED <<input, code, implicit>>

(* When all operations are legal, what the entry block does not lead to is *)
(* erased.                                                                 *)
EraseUnreachableBlocks ==
  /\ phase = "converting"
  /\ Illegal = {}
  /\ body' = Kept(Reachable(code, body))
  /\ phase' = "flat"
  /\ UNCHANGED <<input, code, implicit>>

(* convert-func-to-llvm visits the blocks that can be reached.  A          *)
(* func.return that it leaves elsewhere fails the lowering.                *)
Converted(operations) ==
  [i \in 1..Len(operations) |->
     IF operations[i].op = "return" THEN Op("ret", operations[i].arg) ELSE operations[i]]

ConvertToLLVM ==
  /\ phase = "flat"
  /\ LET reached == Reachable(code, body)
     IN /\ code' = [b \in 1..Len(code) |->
                      IF b \in reached THEN Converted(code[b]) ELSE code[b]]
        /\ phase' = IF \E b \in ToSet(body) \ reached : Last(code[b]).op = "return"
                    THEN "failed" ELSE "lowered"
  /\ UNCHANGED <<input, body, implicit>>

Init ==
  \E m \in Modules :
    /\ input = [function |-> m.function, indexChecks |-> m.indexChecks,
                structured |-> m.structured]
    /\ code = m.code
    /\ body = m.body
    /\ implicit = m.implicit
    /\ phase = "generated"

Next == StartLowering \/ ApplyPattern \/ EraseUnreachableBlocks \/ ConvertToLLVM

Spec == Init /\ [][Next]_vars

(* The conversion driver goes on while there is something to convert.      *)
FairSpec == Spec /\ WF_vars(Next)

-----------------------------------------------------------------------------
(* Branches, regions and the list of blocks name blocks that exist, and no *)
(* block is in the list twice.                                             *)
TypeOK ==
  /\ phase \in {"generated", "rejected", "converting", "flat", "lowered", "failed"}
  /\ code \in Seq(Seq(Operation))
  /\ body \in Seq(1..Len(code)) /\ IsInjective(body)
  /\ implicit \in 0..Len(code)
  /\ \A b \in 1..Len(code) : \A i \in 1..Len(code[b]) :
       code[b][i].to \in Seq(1..Len(code))

(* The generators make nothing that mlir::verify rejects: run() never      *)
(* gives up with its internal error.                                       *)
NeverRejected == phase # "rejected"

(* The pass manager verifies what a pass leaves.  Behind the first pass    *)
(* the function is as good as the generated one was: every block in use is *)
(* in one place and ends with a terminator that may stand there, branches  *)
(* stay in their region, whatever has no slot is a global, and returns     *)
(* have a value where the function has a result; and no operation of the   *)
(* cminus dialect is left, in any block in use, whichever operation was    *)
(* converted first (LowerCMinusToCFPass::runOnOperation).                  *)
Verified ==
  phase = "flat" =>
    /\ Accepted
    /\ \A b \in InPlace(code, body) : \A i \in 1..Len(code[b]) : code[b][i].op \notin CMinusOps

(* No func.return is stranded in a block that nothing comes to, which      *)
(* convert-func-to-llvm would leave behind: the conversion of the cminus   *)
(* flavour takes all such blocks away (eraseUnreachableBlocks).            *)
NoneStranded == input.structured => phase # "failed"

(* Every function is lowered, whatever is nested in what: the patterns end *)
(* and leave nothing illegal.                                              *)
Lowers == <>(phase = "lowered")
=============================================================================
