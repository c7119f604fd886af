------------------------------ MODULE MLIROps ------------------------------
(***************************************************************************)
(* The form of an MLIR function: blocks of operations.  A function is      *)
(* given by `code', every block created so far, and `body', the blocks of  *)
(* the function's own region in order.  The operations are those of the    *)
(* cf, func and llvm dialects that the generator uses, and of the cminus   *)
(* dialect (include/cminus/CMinusOps.td); operations without regions or    *)
(* successors are named for what they do.                                  *)
(***************************************************************************)
EXTENDS Naturals, SequencesExt

(* `to' holds the successors of a branch, and the only block of each       *)
(* region of a cminus.if or cminus.while.                                  *)
Op(name, arg) == [op |-> name, arg |-> arg, to |-> <<>>]
OpTo(name, arg, blocks) == [op |-> name, arg |-> arg, to |-> blocks]

Terminators ==
  {"br", "condbr", "return", "ret", "unreachable",
   "cminus.yield", "cminus.condition", "cminus.return"}
RegionOps == {"cminus.if", "cminus.while"}
CMinusOps ==
  RegionOps \union {"cminus.index_check", "cminus.yield", "cminus.condition", "cminus.return"}

-----------------------------------------------------------------------------
(* The control flow graph of the function's own region.                    *)

Successors(code, b) ==
  IF code[b] # <<>> /\ Last(code[b]).op \in {"br", "condbr"} THEN ToSet(Last(code[b]).to)
  ELSE {}

(* The blocks the entry block leads to.                                    *)
Reachable(code, body) ==
  LET Reached[n \in 0..Len(body)] ==
        IF n = 0 THEN {body[1]}
        ELSE UNION {{b} \union Successors(code, b) : b \in Reached[n - 1]}
  IN Reached[Len(body)]

-----------------------------------------------------------------------------
(* What mlir::verify demands, as far as control flow goes.                 *)

(* Every region: region k of operation i of block c.                       *)
Regions(code) ==
  UNION {UNION {{<<c, i, k>> : k \in 1..Len(code[c][i].to)} :
                  i \in {j \in 1..Len(code[c]) : code[c][j].op \in RegionOps}} :
           c \in 1..Len(code)}
BlockOf(code, region) == code[region[1]][region[2]].to[region[3]]

(* A terminator stands only where its traits allow it: branches and        *)
(* func.return in the function's own region, cminus.yield in an if or a    *)
(* while, cminus.condition in a while.  Of the regions of a while, the     *)
(* first ends in a condition and only the first, as the op's description   *)
(* says.  Branches stay in their region and never go to its entry block.   *)
TerminatorOK(end, isBody, others, holder, number) ==
  CASE end.op \in {"br", "condbr"} -> isBody /\ ToSet(end.to) \subseteq others
    [] end.op = "return" -> isBody
    [] end.op = "cminus.yield" -> holder = "cminus.if" \/ (holder = "cminus.while" /\ number = 2)
    [] end.op = "cminus.condition" -> holder = "cminus.while" /\ number = 1
    [] OTHER -> TRUE

BlockOK(operations) ==
  /\ operations # <<>>
  /\ \A i \in 1..Len(operations) : operations[i].op \in Terminators <=> i = Len(operations)

(* Blocks in no region have been deleted; any other is in one place.       *)
InPlace(code, body) == ToSet(body) \union {BlockOf(code, r) : r \in Regions(code)}

(* A memref.get_global names a global of the module.                       *)
GlobalsExist(operations, globals) ==
  \A i \in 1..Len(operations) :
    operations[i].op = "get_global" => operations[i].arg \in globals

(* A return has a value exactly if the function has a result.              *)
ReturnsOK(operations, noResult) ==
  \A i \in 1..Len(operations) :
    operations[i].op \in {"return", "cminus.return"} =>
      (operations[i].arg = "void" <=> noResult)

VerifierAccepts(code, body, globals, noResult) ==
  LET regions == Regions(code)
      others == ToSet(Tail(body))
  IN /\ IsInjective(body)
     /\ \A b \in InPlace(code, body) :
          GlobalsExist(code[b], globals) /\ ReturnsOK(code[b], noResult)
     /\ \A r, q \in regions : r # q => BlockOf(code, r) # BlockOf(code, q)
     /\ \A b \in ToSet(body) :
          BlockOK(code[b]) /\ TerminatorOK(Last(code[b]), TRUE, others, "func.func", 1)
     /\ \A r \in regions :
          LET b == BlockOf(code, r)
          IN /\ ~Contains(body, b)
             /\ BlockOK(code[b])
             /\ TerminatorOK(Last(code[b]), FALSE, {}, code[r[1]][r[2]].op, r[3])
=============================================================================
