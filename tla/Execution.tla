------------------------------ MODULE Execution ------------------------------
(***************************************************************************)
(* A generated function is run, from its entry block, and compared with    *)
(* the meaning of its source (CMinusSemantics).  Whatever made the         *)
(* function, `code' holds its blocks in the form of module IRGen.          *)
(*                                                                         *)
(* `pc', `event' and `outcome' are the state of the run.  `rest' is a      *)
(* history variable: what the source would still have to do after the      *)
(* events observed so far, or Mismatch once it could not have done them.   *)
(***************************************************************************)
EXTENDS CMinusSyntax

VARIABLES
  function,    \* the source of the function
  indexChecks, \* was it generated with index checks?
  code,        \* its blocks, each a sequence of instructions
  implicit,    \* the block that returns where the source has no return, 0 if none
  pc,          \* the next instruction: a block and a position in it
  event,       \* the last observable step
  outcome,     \* "running", or how the call ended
  rest         \* what the source has left to do

Source == INSTANCE CMinusSemantics WITH fn <- function, checked <- indexChecks

Mismatch == <<[kind |-> "step", what |-> "mismatch", on |-> ""]>>

-----------------------------------------------------------------------------
Fetch == code[pc.block][pc.i]
Running(op) == outcome = "running" /\ Fetch.op = op

Jump(block) == pc' = [block |-> block, i |-> 1]
StepOver == pc' = [pc EXCEPT !.i = @ + 1]

Observe(ev) ==
  /\ event' = ev
  /\ rest' = IF ev \in Source!Offers THEN Source!After(ev) ELSE Mismatch

Silent == UNCHANGED <<event, outcome, rest>>

(* Making a slot, or fetching the address of a global.                     *)
RunAlloca == (\E op \in {"alloca", "get_global"} : Running(op)) /\ StepOver /\ Silent

RunInstruction ==
  /\ \E op \in {"load", "store", "binary", "call", "base"} : Running(op)
  /\ Observe(<<Fetch.op, Fetch.arg>>)
  /\ StepOver
  /\ UNCHANGED outcome

RunBr == Running("br") /\ Jump(Fetch.to[1]) /\ Silent

RunCondBr(taken) ==
  /\ Running("condbr") /\ Fetch.arg = "cond"
  /\ Jump(Fetch.to[IF taken THEN 1 ELSE 2])
  /\ Observe(<<"cond", IF taken THEN "true" ELSE "false">>)
  /\ UNCHANGED outcome

(* A negative index goes to the block that reports it, another passes.     *)
RunIndexTest(negative) ==
  /\ Running("condbr") /\ Fetch.arg = "index"
  /\ Jump(Fetch.to[IF negative THEN 1 ELSE 2])
  /\ IF negative THEN UNCHANGED <<event, rest>> ELSE Observe(<<"index", "ok">>)
  /\ UNCHANGED outcome

(* __cminus_index_error prints a message and exits.                        *)
RunIndexError ==
  /\ Running("indexError")
  /\ Observe(<<"index", "negative">>)
  /\ outcome' = "stopped"
  /\ StepOver

RunRet ==
  /\ Running("ret")
  /\ Observe(<<"return", Fetch.arg>>)
  /\ outcome' = IF pc.block = implicit THEN "fell off" ELSE "returned"
  /\ UNCHANGED pc

-----------------------------------------------------------------------------
Enter ==
  /\ pc = [block |-> 1, i |-> 1]
  /\ Source!Init

Run ==
  \/ RunAlloca \/ RunInstruction \/ RunBr
  \/ \E b \in BOOLEAN : RunCondBr(b) \/ RunIndexTest(b)
  \/ RunIndexError \/ RunRet

Ended == outcome # "running"
=============================================================================
