-------------------------------- MODULE MCData -------------------------------
(***************************************************************************)
(* Instances of the data for TLC: HashTable, Memory (containers, pages of  *)
(* temporaries, options), QuickSort and ObjectCommands.  They share no     *)
(* state, so a behaviour is of one of them, its subject, and the others    *)
(* rest.                                                                   *)
(***************************************************************************)
EXTENDS HashTable, Memory, QuickSort, ObjectCommands

CONSTANTS a, b, c, d, x, y

\* Two keys that collide in any table and one that moves when it grows.
Letters == {a, b, c}
Sums    == [k \in Letters |-> CASE k = a -> 1 [] k = b -> 11 [] k = c -> 2]

\* Four options for three slots: two that begin at slot 0, one at each other.
MCOptions    == {a, b, c, d}
MCOptionSums == [k \in MCOptions |-> CASE k = a -> 6 [] k = b -> 3 [] k = c -> 1 [] k = d -> 2]

allVars == <<subject, vars, containers, pages, options, sorting, objects>>

-----------------------------------------------------------------------------
\* Commands on a root with a variable, an array and an object that shares the
\* variable; with the root as current object, and with the object and a local
\* variable that hides the array.
SharedHeap ==
    LET u(self, name) ==
            [type |-> "object", name |-> name, parent |-> 1,
             items |-> << <<<<"show">>, 2>>, <<<<"parent">>, 1>>, <<<<"root">>, 1>>,
                          <<<<"self">>, self>>, <<<<"run">>, 2>> >>]
    IN  << [u(1, <<"root">>) EXCEPT !.items = << <<<<"o">>, 5>>, <<<<"y">>, 4>>, <<<<"x">>, 3>> >> \o @],
           [type |-> "native function"],
           [type |-> "var", value |-> <<"a">>],
           [type |-> "array", value |-> << <<"a">>, <<"b">> >>],
           [u(5, <<"o">>) EXCEPT !.items = << <<<<"x">>, 3>> >> \o @] >>
MCStarts == {[heap |-> SharedHeap, locals |-> <<>>, current |-> 1],
             [heap |-> SharedHeap, locals |-> << <<<<"y">>, 3>> >>, current |-> 5]}
MCInputs == {<<"b", "\n", "a">>, <<"a", "\n", "b", "\n", "a", "\n">>}
MCArguments == {<<one>> : one \in {<<"x">>, <<"y">>, <<"o", "y">>}}
               \cup {<< <<"x">>, <<"">> >>, << <<"", "z">>, <<"o">> >>}

MCSources    == {<<"a">>}
MCUnparsable == {<<"b", "\n", "a">>}
MCAddress(o) == "0x" \o ToString(o)

\* Known before the commands are tried, so that TLC need not try them all.
Steps == alive /\ (commands < 2 \/ blocks # <<>>)

DataInit ==
    /\ subject \in {"hash", "containers", "pages", "options", "sort", "objects"}
    /\ Init /\ MemoryInit /\ SortInit
    /\ ObjectsInit /\ (subject # "objects" => current = 1)

DataNext ==
    /\ UNCHANGED subject
    /\ \/ subject = "hash" /\ Next /\ UNCHANGED <<containers, pages, options, sorting, objects>>
       \/ MemoryNext /\ UNCHANGED <<vars, sorting, objects>>
       \/ subject = "sort" /\ SortNext /\ UNCHANGED <<vars, containers, pages, options, objects>>
       \/ subject = "objects" /\ Steps /\ ObjectsNext /\ UNCHANGED <<vars, containers, pages, options, sorting>>

DataSpec == DataInit /\ [][DataNext]_allVars
==============================================================================
