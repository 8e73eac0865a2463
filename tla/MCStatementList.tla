--------------------------- MODULE MCStatementList ---------------------------
(* Instances of StatementList for TLC: which texts the blocks are made of.  *)
EXTENDS StatementList

Operators     == {"andand", "oror", "newline", "end"}
DistinctTerms == {"andand", "oror", "newline", "comment"}
Separators    == {"newline", "end"}
==============================================================================
