------------------------------ MODULE MCIRGen -------------------------------
(* IRGen alone, on the functions of MCSyntax.                              *)
EXTENDS IRGen, MCSyntax
=============================================================================
