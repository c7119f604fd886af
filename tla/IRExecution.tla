----------------------------- MODULE IRExecution -----------------------------
(***************************************************************************)
(* A function is generated by IRGen and then run (module Execution).       *)
(***************************************************************************)
EXTENDS IRGen

VARIABLES pc, event, outcome, rest

run == <<pc, event, outcome, rest>>

Machine == INSTANCE Execution

RunInit == Init /\ Machine!Enter

RunNext ==
  \/ Next /\ UNCHANGED run
  \/ Done /\ Machine!Run /\ UNCHANGED vars
  \/ Done /\ Machine!Ended /\ UNCHANGED <<vars, run>>

RunSpec == RunInit /\ [][RunNext]_<<vars, run>>

-----------------------------------------------------------------------------
(* Every run of the generated code is a run of the source: the same loads, *)
(* stores, operations and calls in the same order, the index checks where  *)
(* the language puts them, conditions that lead to the right arm, and the  *)
(* same way of returning.                                                  *)
RefinesSource == Machine!Source!Spec
=============================================================================
