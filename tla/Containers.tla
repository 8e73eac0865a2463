----------------------------- MODULE Containers -----------------------------
(***************************************************************************)
(* The containers of obj_list.c, obj_vector.c and obj_string.c (vector.c   *)
(* is the part of obj_vector.c that makes vectors).                        *)
(*                                                                         *)
(* A list is cells linked both ways, with its ends and its count.  A       *)
(* vector and a string are buffers that grow: of those only the sizes are  *)
(* kept, and how far the last operation wrote.                             *)
(***************************************************************************)
EXTENDS Integers, Sequences

CONSTANTS
    CellsMax,       \* bound: cells of the list
    Items, NULL,
    FirstSize,      \* size a vector is made with
    ShortString,    \* 128: what a short string is given
    ShortPut,       \* 16: what string_put gives one
    MaxCount,       \* bound: items of the vector
    MaxLen          \* bound: characters of the string

VARIABLES
    mNextIt, mPrevIt, mItem,    \* the cells of the list
    used,                       \* cells list_it_allocate gave and none released
    mEntryIt, mLastIt, mCount,
    asked,                      \* history: the items the list was asked to hold
    vector,     \* [mCount, mTableSize, reach]: the last slot written, plus one
    string      \* [mLen, mMallocLen, reach]: the last byte written, plus one

Cells == 1..CellsMax
cells  == <<mNextIt, mPrevIt, mItem, used>>
list   == <<cells, mEntryIt, mLastIt, mCount, asked>>
vars   == <<list, vector, string>>

NewVector == [mCount |-> 0, mTableSize |-> FirstSize, reach |-> 0]
NewString == [mLen |-> 0, mMallocLen |-> ShortString, reach |-> 1]

Init ==
    /\ mNextIt = [c \in Cells |-> NULL] /\ mPrevIt = [c \in Cells |-> NULL]
    /\ mItem = [c \in Cells |-> NULL] /\ used = {}
    /\ mEntryIt = NULL /\ mLastIt = NULL /\ mCount = 0
    /\ asked = <<>>
    /\ vector = NewVector /\ string = NewString

-----------------------------------------------------------------------------
(* The list.                                                               *)

\* The cells hold whatever they held when they are released; freed ones are
\* all alike.
Linked(prev, next, item, held) ==
    /\ used' = held
    /\ mPrevIt' = [c \in Cells |-> IF c \in held THEN prev[c] ELSE NULL]
    /\ mNextIt' = [c \in Cells |-> IF c \in held THEN next[c] ELSE NULL]
    /\ mItem'   = [c \in Cells |-> IF c \in held THEN item[c] ELSE NULL]

\* f with v at c, unless c is NULL
Set(f, c, v) == IF c = NULL THEN f ELSE [f EXCEPT ![c] = v]

\* list_it_allocate: any cell that is free will do.
Fresh(c) == c \notin used /\ \A d \in Cells \ used : c <= d

\* The new cell, and the neighbours' pointers to it.
Allocate(c, x, prev, next) ==
    /\ Fresh(c)
    /\ Linked(Set(Set(mPrevIt, c, prev), next, c),
              Set(Set(mNextIt, c, next), prev, c),
              [mItem EXCEPT ![c] = x], used \cup {c})

\* A sequence with x as its n-th item, and without its n-th item.
With(s, n, x) == [k \in 1..(Len(s) + 1) |-> IF k < n THEN s[k] ELSE IF k = n THEN x ELSE s[k - 1]]
Without(s, n) == [k \in 1..(Len(s) - 1) |-> IF k < n THEN s[k] ELSE s[k + 1]]

list_push_front(c, x) ==
    /\ Allocate(c, x, NULL, mEntryIt)
    /\ mLastIt' = IF mEntryIt = NULL THEN c ELSE mLastIt
    /\ mEntryIt' = c
    /\ mCount' = mCount + 1
    /\ asked' = With(asked, 1, x)

list_push_back(c, x) ==
    /\ Allocate(c, x, mLastIt, NULL)
    /\ mEntryIt' = IF mLastIt = NULL THEN c ELSE mEntryIt
    /\ mLastIt' = c
    /\ mCount' = mCount + 1
    /\ asked' = With(asked, Len(asked) + 1, x)

\* The cell leaves the list; what the neighbours and the ends point at.
Release(c) == Linked(Set(mPrevIt, mNextIt[c], mPrevIt[c]),
                     Set(mNextIt, mPrevIt[c], mNextIt[c]), mItem, used \ {c})

list_pop_front ==
    /\ mEntryIt # NULL
    /\ mLastIt' = IF mLastIt = mEntryIt THEN NULL ELSE mLastIt
    /\ mEntryIt' = mNextIt[mEntryIt]
    /\ Release(mEntryIt)
    /\ mCount' = mCount - 1
    /\ asked' = Without(asked, 1)

list_pop_back ==
    /\ mLastIt # NULL
    /\ mEntryIt' = IF mEntryIt = mLastIt THEN NULL ELSE mEntryIt
    /\ mLastIt' = mPrevIt[mLastIt]
    /\ Release(mLastIt)
    /\ mCount' = mCount - 1
    /\ asked' = Without(asked, Len(asked))

list_clear ==
    /\ Linked(mPrevIt, mNextIt, mItem, {})
    /\ mEntryIt' = NULL /\ mLastIt' = NULL /\ mCount' = 0
    /\ asked' = <<>>

\* list_at: the cell at an index (from 0), NULL past the end.
list_at(index) ==
    LET At[n \in 0..index] == IF n = 0 THEN mEntryIt
                              ELSE IF At[n - 1] = NULL THEN NULL ELSE mNextIt[At[n - 1]]
    IN  At[index]

\* An iterator the caller got from list_at, list_find, list_next or list_prev.
list_replace(n, x) ==
    /\ list_at(n) # NULL
    /\ mItem' = [mItem EXCEPT ![list_at(n)] = x]
    /\ asked' = [asked EXCEPT ![n + 1] = x]
    /\ UNCHANGED <<mNextIt, mPrevIt, used, mEntryIt, mLastIt, mCount>>

LastWithout(it) == IF mLastIt = it THEN mPrevIt[it] ELSE mLastIt

list_erase(n) ==
    LET it == list_at(n) IN
    /\ it # NULL
    /\ mEntryIt' = IF mEntryIt = it THEN mNextIt[it] ELSE mEntryIt
    /\ mLastIt' = LastWithout(it)
    /\ Release(it)
    /\ mCount' = mCount - 1
    /\ asked' = Without(asked, n + 1)

list_insert_front(c, n, x) ==
    LET it == list_at(n) IN
    /\ it # NULL
    /\ Allocate(c, x, mPrevIt[it], it)
    /\ mEntryIt' = IF mEntryIt = it THEN c ELSE mEntryIt
    /\ mCount' = mCount + 1
    /\ asked' = With(asked, n + 1, x)
    /\ UNCHANGED mLastIt

list_insert_back(c, n, x) ==
    LET it == list_at(n) IN
    /\ it # NULL
    /\ Allocate(c, x, it, mNextIt[it])
    /\ mLastIt' = IF mLastIt = it THEN c ELSE mLastIt
    /\ mCount' = mCount + 1
    /\ asked' = With(asked, n + 2, x)
    /\ UNCHANGED mEntryIt

ListStep ==
    \/ \E c \in Cells, x \in Items :
          \/ list_push_front(c, x) \/ list_push_back(c, x)
          \/ \E n \in 0..(mCount - 1) : list_insert_front(c, n, x) \/ list_insert_back(c, n, x)
    \/ \E n \in 0..(mCount - 1) : list_erase(n) \/ \E x \in Items : list_replace(n, x)
    \/ list_pop_front \/ list_pop_back \/ list_clear
-----------------------------------------------------------------------------
(* The vector.                                                             *)

Grown(size)     == IF vector.mCount = size THEN size * 2 ELSE size

\* vector_add, vector_insert: one item at n, those after it move up.
vector_insert(n) ==
    /\ vector.mCount < MaxCount
    /\ vector' = [mCount |-> vector.mCount + 1, mTableSize |-> Grown(vector.mTableSize),
                  reach |-> vector.mCount + 1]

vector_mass_insert(n, items_size) ==
    /\ vector.mCount + items_size <= MaxCount
    /\ vector' = [mCount |-> vector.mCount + items_size,
                  mTableSize |-> IF vector.mCount + items_size >= vector.mTableSize
                                 THEN (vector.mTableSize + items_size) * 2
                                 ELSE vector.mTableSize,
                  reach |-> vector.mCount + items_size]

\* vector_erase, and vector_pop_back and vector_pop_front, which are erasures
\* at an end: out of range it does nothing.
vector_erase(n) ==
    /\ n \in 0..(vector.mCount - 1)
    /\ vector' = [vector EXCEPT !.mCount = @ - 1, !.reach = vector.mCount - 1]

vector_clear == vector' = [vector EXCEPT !.mCount = 0, !.reach = 0]

VectorStep ==
    \/ \E n \in 0..vector.mCount : vector_insert(n) \/ \E s \in 1..2 : vector_mass_insert(n, s)
    \/ \E n \in -1..vector.mCount : vector_erase(n)
    \/ vector_clear
-----------------------------------------------------------------------------
(* The string: its length and how much is allocated for it.                *)

S == string

Holds(len, malloc, reach) ==
    /\ len <= MaxLen
    /\ string' = [mLen |-> len, mMallocLen |-> malloc, reach |-> reach]

MallocOf(len) == IF len < ShortString - 1 THEN ShortString ELSE (len + 1) * 2

\* string_new_on_malloc, _gc, _gc3, _stack
string_new(len) == Holds(len, MallocOf(len), len + 1)

\* string_insert, and string_push_back3 (the first n characters of a text)
\* put n characters in, anywhere.
string_insert(n, pos) ==
    /\ pos <= S.mLen
    /\ Holds(S.mLen + n,
             IF S.mLen + n + 1 > S.mMallocLen THEN (S.mLen + n + 1) * 2 ELSE S.mMallocLen,
             S.mLen + n + 1)

RoomFor(n)      == S.mLen + n < S.mMallocLen

string_push_back(n) ==
    Holds(S.mLen + n, IF RoomFor(n) THEN S.mMallocLen ELSE (S.mLen + n + 1) * 2, S.mLen + n + 1)

\* string_push_back2: one character; the growth leaves its own place out.
string_push_back2 ==
    Holds(S.mLen + 1, IF RoomFor(1) THEN S.mMallocLen ELSE (S.mLen + 1) * 2, S.mLen + 2)

string_put(len) ==
    Holds(len, IF len + 1 < S.mMallocLen THEN S.mMallocLen
               ELSE IF len < ShortPut THEN ShortPut ELSE (len + 1) * 2, len + 1)

string_put2 == Holds(1, IF S.mMallocLen > 1 THEN S.mMallocLen ELSE ShortPut, 2)

\* string_erase: everything, or a part that is there; otherwise nothing.
string_erase(pos, len) ==
    \/ pos = 0 /\ len = S.mLen /\ string_put(0)
    \/ /\ ~(pos = 0 /\ len = S.mLen)
       /\ len > 0 /\ pos >= 0 /\ pos < S.mLen /\ pos + len <= S.mLen
       /\ Holds(S.mLen - len, S.mMallocLen, S.mLen - len + 1)

string_trunc(n) ==
    /\ n >= 0 /\ n < S.mLen
    /\ Holds(n, S.mMallocLen, n + 1)

\* string_chomp, string_pomch: the line end is one character or two.
string_chomp(n) == S.mLen >= n /\ string_trunc(S.mLen - n)
string_pomch(n) == IF n = 2 THEN string_push_back(2) ELSE string_push_back2

StringStep ==
    \/ \E len \in 0..MaxLen : string_new(len) \/ string_put(len)
    \/ \E n \in 0..3 : string_push_back(n) \/ \E pos \in 0..MaxLen : string_insert(n, pos)
    \/ \E n \in 1..2 : string_chomp(n) \/ string_pomch(n)
    \/ string_push_back2 \/ string_put2
    \/ \E pos \in -1..MaxLen, len \in -1..MaxLen : string_erase(pos, len)
    \/ \E n \in -1..MaxLen : string_trunc(n)
-----------------------------------------------------------------------------
\* One container at a time: the other two are as they were made.
Next ==
    \/ ListStep /\ vector = NewVector /\ string = NewString /\ UNCHANGED <<vector, string>>
    \/ VectorStep /\ used = {} /\ string = NewString /\ UNCHANGED <<list, string>>
    \/ StringStep /\ used = {} /\ vector = NewVector /\ UNCHANGED <<list, vector>>

Spec == Init /\ [][Next]_vars
-----------------------------------------------------------------------------
(* Properties.                                                             *)

TypeOK ==
    /\ mNextIt \in [Cells -> Cells \cup {NULL}] /\ mPrevIt \in [Cells -> Cells \cup {NULL}]
    /\ mItem \in [Cells -> Items \cup {NULL}] /\ used \subseteq Cells
    /\ mEntryIt \in Cells \cup {NULL} /\ mLastIt \in Cells \cup {NULL}
    /\ mCount \in Nat /\ asked \in Seq(Items)
    /\ vector \in [mCount : 0..MaxCount, mTableSize : Nat, reach : Nat]
    /\ string \in [mLen : 0..MaxLen, mMallocLen : Nat, reach : Nat]

\* The cells between the ends, followed either way, are the items the list
\* was asked to hold, in order, and nothing else was kept or released.
ListIsSequence ==
    /\ mCount = Len(asked)
    /\ \A n \in 0..(mCount - 1) :
          /\ list_at(n) \in used
          /\ mItem[list_at(n)] = asked[n + 1]
          /\ mPrevIt[list_at(n)] = IF n = 0 THEN NULL ELSE list_at(n - 1)
    /\ \A c \in used : \E n \in 0..(mCount - 1) : c = list_at(n)
    /\ list_at(mCount) = NULL
    /\ mLastIt = IF mCount = 0 THEN NULL ELSE list_at(mCount - 1)

\* A vector and a string write inside what was allocated, whatever the mix of
\* operations, each with a growth rule of its own.
BuffersHold ==
    /\ vector.mCount <= vector.mTableSize /\ vector.reach <= vector.mTableSize
    /\ string.mLen < string.mMallocLen /\ string.reach <= string.mMallocLen
=============================================================================
