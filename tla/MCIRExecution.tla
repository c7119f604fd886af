--------------------------- MODULE MCIRExecution ----------------------------
(* IRGen and the run of what it generates, on the functions of MCSyntax.   *)
EXTENDS IRExecution, MCSyntax
=============================================================================
