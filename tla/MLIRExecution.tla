---------------------------- MODULE MLIRExecution ----------------------------
(***************************************************************************)
(* A function is generated as MLIR, lowered, and then run (module          *)
(* Execution).                                                             *)
(***************************************************************************)
EXTENDS CMinusToCF

VARIABLES pc, event, outcome, rest

run == <<pc, event, outcome, rest>>

Machine == INSTANCE Execution
  WITH function <- input.function, indexChecks <- input.indexChecks

Lowered == phase = "lowered"

RunInit == Init /\ Machine!Enter

RunNext ==
  \/ Next /\ UNCHANGED run
  \/ Lowered /\ Machine!Run /\ UNCHANGED vars
  \/ Lowered /\ Machine!Ended /\ UNCHANGED <<vars, run>>

RunSpec == RunInit /\ [][RunNext]_<<vars, run>>

-----------------------------------------------------------------------------
(* Every run of what either flavour of the MLIR generator and its lowering *)
(* leave is a run of the source: the same loads, stores, operations and    *)
(* calls in the same order, the index checks where the language puts them, *)
(* conditions that lead to the right arm, and the same way of returning.   *)
RefinesSource == Machine!Source!Spec
=============================================================================
