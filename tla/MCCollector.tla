---------------------------- MODULE MCCollector ----------------------------
(***************************************************************************)
(* Instance of Collector for TLC: the pool may double once, one name, and *)
(* three levels of run() (a run that would be the fourth is refused).      *)
(***************************************************************************)
EXTENDS Collector
MCName == {"f"}
=============================================================================
