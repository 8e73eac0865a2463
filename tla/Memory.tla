-------------------------------- MODULE Memory -------------------------------
(***************************************************************************)
(* Where the interpreter keeps its data: the containers, the pages of      *)
(* temporaries and the option tables.  They share no state, so a behaviour *)
(* is of one of them, its subject, and the others rest.                    *)
(***************************************************************************)
EXTENDS Integers, Sequences

CONSTANTS
    Null,
    CellsMax, Elements, FirstSize, ShortString, ShortPut, MaxCount, MaxLen,    \* Containers
    SLOT_SIZE, FirstPages, MaxPages, MaxFrames,                             \* StackPages
    XYZSH_OPTION_MAX, Options, OptionSums                                   \* OptionTable

VARIABLES
    subject,
    mNextIt, mPrevIt, mCellItem, used, mFirstIt, mLastIt, mCount, asked, vector, string,
    gStackPageSize, gStack, gStackPage, gStackSlot, frames, owned, ended,
    mOptions, call, key, p, seen, result, given

C == INSTANCE Containers WITH NULL <- Null, Items <- Elements, mItem <- mCellItem, mEntryIt <- mFirstIt
P == INSTANCE StackPages
O == INSTANCE OptionTable WITH NULL <- Null, Keys <- Options, Sum <- OptionSums

containers == <<mNextIt, mPrevIt, mCellItem, used, mFirstIt, mLastIt, mCount, asked, vector, string>>
pages      == <<gStackPageSize, gStack, gStackPage, gStackSlot, frames, owned, ended>>
options    == <<mOptions, call, key, p, seen, result, given>>

MemoryInit == C!Init /\ P!Init /\ O!Init

MemoryNext ==
    /\ UNCHANGED subject
    /\ \/ subject = "containers" /\ C!Next /\ UNCHANGED <<pages, options>>
       \/ subject = "pages" /\ P!Next /\ UNCHANGED <<containers, options>>
       \/ subject = "options" /\ O!Next /\ UNCHANGED <<containers, pages>>

MemorySpec == MemoryInit /\ [][MemoryNext]_<<subject, containers, pages, options>>

-----------------------------------------------------------------------------
\* What each of them promises: lists that are what they were asked to hold
\* and buffers nothing writes past (obj_list.c, obj_vector.c, obj_string.c),
\* temporaries deleted with their frame (stack.c), options found when given
\* (block.c, obj_fun.c).
MemoryHolds ==
    /\ C!TypeOK /\ C!ListIsSequence /\ C!BuffersHold
    /\ P!TypeOK /\ P!TemporariesLive
    /\ O!TypeOK /\ O!FoundIfGiven
=============================================================================
