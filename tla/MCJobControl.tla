---------------------------- MODULE MCJobControl ----------------------------
(* Instance of JobControl for TLC: three programs.                         *)
EXTENDS JobControl

CONSTANTS p1, p2, p3

Three == {p1, p2, p3}
==============================================================================
