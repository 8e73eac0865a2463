----------------------------- MODULE StackPages -----------------------------
(***************************************************************************)
(* stack.c: the temporaries of a running function live in pages of         *)
(* SLOT_SIZE slots.  A frame remembers where the next temporary was to go  *)
(* when the call began; its end deletes everything from there on.          *)
(*                                                                         *)
(* The position kept in a frame may be the end of a full page, and a page  *)
(* is entered only by the temporary that needs it.                         *)
(***************************************************************************)
EXTENDS Integers, Sequences

CONSTANTS
    SLOT_SIZE,      \* slots of a page
    FirstPages,     \* pages stack_init makes
    MaxPages,       \* bound: pages
    MaxFrames       \* MAX_STACK

VARIABLES
    gStackPageSize,
    gStack,         \* pages: which slots hold an object
    gStackPage, gStackSlot,
    frames,         \* gStackFramePage and gStackFrameSlot, up to gStackFrame
    owned,          \* history: temporaries given out in each frame
    ended           \* history: the frame that ended last, what it had been
                    \* given and what each loop called object_delete on

vars == <<gStackPageSize, gStack, gStackPage, gStackSlot, frames, owned, ended>>

Slots == 0..(SLOT_SIZE - 1)
Empty == [s \in Slots |-> FALSE]

\* stack_init
Init ==
    /\ gStackPageSize = FirstPages
    /\ gStack = [p \in 0..(FirstPages - 1) |-> Empty]
    /\ gStackPage = 0 /\ gStackSlot = 0
    /\ frames = <<>> /\ owned = <<>>
    /\ ended = [given |-> {}, deleted |-> <<>>]

stack_start_stack ==
    /\ Len(frames) < MaxFrames
    /\ frames' = Append(frames, <<gStackPage, gStackSlot>>)
    /\ owned' = Append(owned, {})
    /\ UNCHANGED <<gStackPageSize, gStack, gStackPage, gStackSlot, ended>>

Places(page, from, to) == {page} \X (from..(to - 1))

\* The slots stack_end_stack deletes, loop by loop: the last page's, those of
\* the pages between, and the rest of the page the frame begins in.
EndsInLast(page, slot) ==                                               \* slip
    <<Places(gStackPage, 0, gStackSlot), Places(page, slot, SLOT_SIZE)>>
Ended(page, slot) ==
    IF page = gStackPage THEN <<Places(page, slot, gStackSlot)>>
    ELSE <<Places(gStackPage, 0, gStackSlot),
           UNION {Places(between, 0, SLOT_SIZE) : between \in (page + 1)..(gStackPage - 1)},
           Places(page, slot, SLOT_SIZE)>>

stack_end_stack ==
    LET last    == Len(frames)
        page    == frames[last][1]
        slot    == frames[last][2]
        deleted == Ended(page, slot)
    IN  /\ frames # <<>>
        /\ gStack' = [p \in DOMAIN gStack |-> [s \in Slots |->
                         gStack[p][s] /\ \A n \in DOMAIN deleted : <<p, s>> \notin deleted[n]]]
        /\ gStackPage' = page /\ gStackSlot' = slot
        /\ frames' = SubSeq(frames, 1, last - 1)
        /\ owned' = SubSeq(owned, 1, last - 1)
        /\ ended' = [given |-> owned[last], deleted |-> deleted]
        /\ UNCHANGED gStackPageSize

\* make_new_stack: twice as many pages, the new ones empty.
make_new_stack(size) == [p \in 0..(2 * size - 1) |-> IF p < size THEN gStack[p] ELSE Empty]

\* stack_get_free_object; temporaries belong to a frame, so there is one.
stack_get_free_object ==
    /\ frames # <<>>
    /\ LET turn == gStackSlot >= SLOT_SIZE
           page == IF turn THEN gStackPage + 1 ELSE gStackPage
           slot == IF turn THEN 0 ELSE gStackSlot
           full == page = gStackPageSize
           pages == IF full THEN make_new_stack(gStackPageSize) ELSE gStack
       IN  /\ full => 2 * gStackPageSize <= MaxPages
           /\ gStackPageSize' = IF full THEN 2 * gStackPageSize ELSE gStackPageSize
           /\ gStack' = [pages EXCEPT ![page][slot] = TRUE]
           /\ gStackPage' = page /\ gStackSlot' = slot + 1
           /\ owned' = [owned EXCEPT ![Len(owned)] = @ \cup {<<page, slot>>}]
    /\ UNCHANGED <<frames, ended>>

Next == stack_start_stack \/ stack_end_stack \/ stack_get_free_object

Spec == Init /\ [][Next]_vars
-----------------------------------------------------------------------------
(* Properties.                                                             *)

TypeOK ==
    /\ gStackPageSize \in 1..MaxPages
    /\ gStack \in [0..(gStackPageSize - 1) -> [Slots -> BOOLEAN]]
    /\ gStackPage \in 0..(gStackPageSize - 1) /\ gStackSlot \in 0..SLOT_SIZE
    /\ Len(frames) = Len(owned)

\* A slot holds an object exactly when a frame that has not ended was given
\* it, no two frames were given the same one, and the end of a frame deletes
\* what the frame was given and nothing else, none of it twice, over however
\* many pages it goes.
TemporariesLive ==
    /\ \A p \in DOMAIN gStack, s \in Slots :
          gStack[p][s] <=> \E n \in 1..Len(owned) : <<p, s>> \in owned[n]
    /\ \A m, n \in 1..Len(owned) : m # n => owned[m] \cap owned[n] = {}
    /\ \A place \in ended.given : \E n \in DOMAIN ended.deleted : place \in ended.deleted[n]
    /\ \A n \in DOMAIN ended.deleted :
          /\ ended.deleted[n] \subseteq ended.given
          /\ \A m \in DOMAIN ended.deleted : m # n => ended.deleted[m] \cap ended.deleted[n] = {}
=============================================================================
