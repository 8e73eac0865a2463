---------------------------- MODULE NativeCommand ----------------------------
(* run_object() and a native command: what it calls the function with, and   *)
(* what it looks at when the function has returned.  The commands of         *)
(* Conditions and of Paths are called so, one after the other.               *)
EXTENDS Texts

VARIABLES
    typed,          \* the command, with all that it was given
    nextout,        \* what it has written
    mRCode,         \* its code, RCODE_NFUN_INVALID_USSING if it set none
    returned,       \* TRUE or FALSE, as its function returned
    commands        \* how many there have been

\* Nothing has been called yet: the code is the one run_object sets before a call.
NoneCalled ==
    /\ typed = [name |-> "none"]
    /\ nextout = <<>>
    /\ mRCode = RCODE_NFUN_INVALID_USSING /\ returned = TRUE
    /\ commands = 0

\* Of at most so many: one that leaves nothing behind for the next is the last.
Called(command, lasting, most) ==
    /\ typed' = command
    /\ commands' = IF command.name \in lasting THEN commands + 1 ELSE most

\* How the function has left its answer, its code and what it wrote.
Ended(ok, rcode, out) == returned' = ok /\ mRCode' = rcode /\ nextout' = out
==============================================================================
