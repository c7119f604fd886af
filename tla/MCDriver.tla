------------------------------ MODULE MCDriver ------------------------------
(* The driver on short command lines.                                      *)
EXTENDS Driver

MCValues == {"prog.cm", "-", "other"}
MCObject(path) == CASE path = "prog.cm" -> "prog.o" [] path = "-" -> "-.o" [] path = "other" -> "other.o"
=============================================================================
