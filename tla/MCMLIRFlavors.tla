---------------------------- MODULE MCMLIRFlavors ----------------------------
(* The MLIR generators and the lowering, on the functions of MCSyntax.     *)
EXTENDS MLIRFlavors, MCSyntax

MCFlavors == BOOLEAN
=============================================================================
