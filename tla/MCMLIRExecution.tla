--------------------------- MODULE MCMLIRExecution ---------------------------
(* The MLIR generators, the lowering and the run of the result, on the     *)
(* functions of MCSyntax.                                                  *)
EXTENDS MLIRExecution, MLIRFlavors, MCSyntax

MCFlavors == BOOLEAN
=============================================================================
