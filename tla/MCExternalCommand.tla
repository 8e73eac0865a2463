-------------------------- MODULE MCExternalCommand --------------------------
(* Instances of ExternalCommand for TLC: which commands are run.            *)
EXTENDS ExternalCommand

Modes       == {"optC", "xApp", "console"}
Interactive == {"xApp", "console"}
AnyIn       == {"none", "fd", "buffer"}
AnyOut      == {"stdout", "fd", "buffer"}
AnyPlace    == {"inner", "last", "background"}
==============================================================================
