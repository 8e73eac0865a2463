---------------------------- MODULE MCInterpreter ----------------------------
(* Instance of Interpreter for TLC: a program may use every caller of run(). *)
EXTENDS Interpreter

EverySite == AllSites
==============================================================================
