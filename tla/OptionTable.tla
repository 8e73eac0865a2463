---------------------------- MODULE OptionTable -----------------------------
(***************************************************************************)
(* The options of a call (block.c) and the options that take an argument   *)
(* of a function, a native function or a class (obj_fun.c, obj_nfun.c,     *)
(* obj_class.c): the same open addressing in each of them.                 *)
(*                                                                         *)
(* A probe moves to the next slot, compares it with the one it began at,   *)
(* and only then wraps around; so a probe that began at slot 0 never meets *)
(* its start again and goes on for ever in a full table.                   *)
(***************************************************************************)
EXTENDS Integers

CONSTANTS
    XYZSH_OPTION_MAX,
    Keys,
    Sum,        \* the sum of a key's characters, which are ASCII
    NULL

VARIABLES
    mOptions,
    call,       \* "none", or which call is probing, or has returned: "put", "get"
    key, p,     \* its arguments and the slot it looks at
    seen,       \* history: slots it has looked at
    result,     \* what the call returned, NULL while it probes
    given       \* history: keys that a put has accepted

vars == <<mOptions, call, key, p, seen, result, given>>

Index == 0..(XYZSH_OPTION_MAX - 1)

Init ==
    /\ mOptions = [s \in Index |-> NULL]
    /\ call = "none" /\ key = NULL /\ p = 0
    /\ seen = {} /\ result = NULL /\ given = {}

Probing == call # "none" /\ result = NULL

options_hash_fun(k) == Sum[k] % XYZSH_OPTION_MAX

\* *_put_option, *_put_option_with_argument ("put"); *_option,
\* *_option_with_argument ("get").
Call(c, k) ==
    /\ ~Probing
    /\ call' = c /\ key' = k /\ p' = options_hash_fun(k)
    /\ seen' = {} /\ result' = NULL
    /\ UNCHANGED <<mOptions, given>>

Return(r) ==
    /\ result' = r
    /\ UNCHANGED <<call, key, p>>

\* A lookup ends at the key or at a free slot; a put ends at a free slot.
Ends == mOptions[p] = NULL \/ (call = "get" /\ mOptions[p] = key)

Here ==
    /\ Probing /\ Ends
    /\ Return(call = "put" \/ mOptions[p] # NULL)
    /\ mOptions' = IF call = "put" THEN [mOptions EXCEPT ![p] = key] ELSE mOptions
    /\ given' = IF call = "put" THEN given \cup {key} ELSE given
    /\ seen' = seen \cup {p}

Start == options_hash_fun(key)

\* The slot after p: the start is compared before the wrap.
After(q) == IF q = Start THEN NULL
            ELSE IF q = XYZSH_OPTION_MAX THEN 0 ELSE q

Move ==
    /\ Probing /\ ~Ends
    /\ seen' = seen \cup {p}
    /\ \/ /\ After(p + 1) = NULL
          /\ Return(FALSE)
       \/ /\ After(p + 1) # NULL
          /\ p' = After(p + 1)
          /\ UNCHANGED <<call, key, result>>
    /\ UNCHANGED <<mOptions, given>>

Next == Here \/ Move \/ \E k \in Keys, c \in {"put", "get"} : Call(c, k)

Spec == Init /\ [][Next]_vars
-----------------------------------------------------------------------------
(* Properties.                                                             *)

TypeOK ==
    /\ mOptions \in [Index -> Keys \cup {NULL}]
    /\ call \in {"none", "put", "get"} /\ key \in Keys \cup {NULL}
    /\ p \in Index /\ seen \subseteq Index
    /\ result \in BOOLEAN \cup {NULL} /\ given \subseteq Keys

IsFull == \A s \in Index : mOptions[s] # NULL

\* A key is found exactly when it was put and there was room for it; a put is
\* refused only by a full table; and no call comes back to a slot it has
\* looked at, except one that begins at slot 0 when every slot is taken.
FoundIfGiven ==
    /\ call = "get" /\ ~Probing => result = (key \in given)
    /\ call = "put" /\ ~Probing => result = TRUE \/ IsFull
    /\ Probing /\ p \in seen => Start = 0 /\ IsFull
=============================================================================
