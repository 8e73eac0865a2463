----------------------------- MODULE HashTable -----------------------------
(***************************************************************************)
(* obj_hash.c, and the table of an object's variables in obj_user.c, which *)
(* is the same code: entries in chains by hash value and in one list over  *)
(* all of them, newest first.  An entry is known by its key.               *)
(*                                                                         *)
(* A walk (hash_loop_begin, hash_loop_next) runs user code at every entry, *)
(* so the table may change under it.  What it may not do is release the    *)
(* entry the walk stands on: the code reads mNextIt of that entry later.   *)
(***************************************************************************)
EXTENDS Integers, Sequences

CONSTANTS
    Keys, Items,
    None,           \* NULL
    HashOf,         \* the sum of a key's characters
    InitialSize     \* size the table is made with

ASSUME SizeAssumption == InitialSize \in Nat \ {0}
ASSUME HashAssumption == HashOf \in [Keys -> Nat]
ASSUME NoneAssumption == None \notin Keys /\ None \notin Items

GrowBy == 5

VARIABLES
    mTableSize,
    mTable,     \* chain of each hash value
    mEntryIt,   \* the list of all entries
    mItem,      \* item of each key, None where there is no entry
    mCounter,
    it,         \* entry the walk is at, None when there is no walk
    visited,    \* history: entries the walk has stood on
    steady      \* history: entries there since the walk began

table == <<mTableSize, mTable, mEntryIt, mItem, mCounter>>
walk  == <<it, visited, steady>>
vars  == <<table, walk>>

Buckets(size)    == 0..(size - 1)
EmptyTable(size) == [h \in Buckets(size) |-> <<>>]

Init ==
    /\ mTableSize = InitialSize
    /\ mTable = EmptyTable(InitialSize)
    /\ mEntryIt = <<>>
    /\ mItem = [k \in Keys |-> None]
    /\ mCounter = 0
    /\ it = None /\ visited = <<>> /\ steady = {}

get_hash_value(k, size) == HashOf[k] % size

In(k, s)       == \E n \in 1..Len(s) : s[n] = k
InFront(k, s)  == <<k>> \o s

\* The entries of a list, in its order, are each put in front of their chain.
Chained(list, size) ==
    LET chains[n \in 0..Len(list)] ==
            IF n = 0 THEN EmptyTable(size)
            ELSE [chains[n - 1] EXCEPT ![get_hash_value(list[n], size)] = InFront(list[n], @)]
    IN  chains[Len(list)]

\* resize.  (Here and below, a definition marked "slip" is one of the ways to
\* get the one after it wrong; the properties tell them apart.)
KeepsChains(size) == [h \in Buckets(size * GrowBy) |->
                         IF h < size THEN mTable[h] ELSE <<>>]          \* slip
resize(size)      == Chained(mEntryIt, size * GrowBy)

Full == mCounter >= mTableSize

-----------------------------------------------------------------------------
\* hash_put: the table grows before the key is looked up, even for a key that
\* is there.
hash_put(k, x) ==
    LET size  == IF Full THEN mTableSize * GrowBy ELSE mTableSize
        chain == IF Full THEN resize(mTableSize) ELSE mTable
        h     == get_hash_value(k, size)
        found == In(k, chain[h])
    IN  /\ mTableSize' = size
        /\ mItem' = [mItem EXCEPT ![k] = x]
        /\ mTable' = IF found THEN chain ELSE [chain EXCEPT ![h] = InFront(k, @)]
        /\ mEntryIt' = IF found THEN mEntryIt ELSE InFront(k, mEntryIt)
        /\ mCounter' = IF found THEN mCounter ELSE mCounter + 1
        /\ UNCHANGED walk

InChain(k) == In(k, mTable[get_hash_value(k, mTableSize)])

\* hash_item: what a lookup through the chain returns.
hash_item(k) == IF InChain(k) THEN mItem[k] ELSE None

Place(k, s) == CHOOSE n \in 1..Len(s) : s[n] = k

\* erase_from_list, and the same for a chain: the entry is taken out.
DropsFirst(k, s) == IF s # <<>> /\ Head(s) = k THEN Tail(s) ELSE s        \* slip
Without(k, s)    == [n \in 1..(Len(s) - 1) |-> IF n < Place(k, s) THEN s[n] ELSE s[n + 1]]

\* hash_erase: found through the chain, dropped from the chain and the list.
hash_erase(k) ==
    /\ IF InChain(k)
       THEN /\ mTable' = [mTable EXCEPT ![get_hash_value(k, mTableSize)] = Without(k, @)]
            /\ mEntryIt' = Without(k, mEntryIt)
            /\ mItem' = [mItem EXCEPT ![k] = None]
            /\ mCounter' = mCounter - 1
            /\ steady' = steady \ {k}
       ELSE UNCHANGED <<mTable, mEntryIt, mItem, mCounter, steady>>
    /\ it # k
    /\ UNCHANGED <<mTableSize, it, visited>>

\* hash_replace
hash_replace(k, x) ==
    /\ InChain(k)
    /\ mItem' = [mItem EXCEPT ![k] = x]
    /\ UNCHANGED <<mTableSize, mTable, mEntryIt, mCounter, walk>>

\* hash_clear: the table keeps its size.
hash_clear ==
    /\ it = None
    /\ mTable' = EmptyTable(mTableSize)
    /\ mEntryIt' = <<>>
    /\ mItem' = [k \in Keys |-> None]
    /\ mCounter' = 0
    /\ UNCHANGED <<mTableSize, walk>>

hash_loop_begin ==
    /\ it = None /\ mEntryIt # <<>>
    /\ it' = Head(mEntryIt)
    /\ visited' = <<Head(mEntryIt)>>
    /\ steady' = {mEntryIt[n] : n \in 1..Len(mEntryIt)}
    /\ UNCHANGED table

\* mNextIt of an entry
NextOf(k) == IF Place(k, mEntryIt) = Len(mEntryIt) THEN None
             ELSE mEntryIt[Place(k, mEntryIt) + 1]

hash_loop_next ==
    /\ it # None
    /\ it' = NextOf(it)
    /\ visited' = IF NextOf(it) = None THEN visited ELSE Append(visited, NextOf(it))
    /\ UNCHANGED <<table, steady>>

Next ==
    \/ \E k \in Keys, x \in Items : hash_put(k, x) \/ hash_replace(k, x)
    \/ \E k \in Keys : hash_erase(k)
    \/ hash_clear \/ hash_loop_begin \/ hash_loop_next

Spec == Init /\ [][Next]_vars
-----------------------------------------------------------------------------
(* Properties.                                                             *)

TypeOK ==
    /\ mTableSize \in Nat \ {0}
    /\ mTable \in [Buckets(mTableSize) -> Seq(Keys)]
    /\ mEntryIt \in Seq(Keys)
    /\ mItem \in [Keys -> Items \cup {None}]
    /\ mCounter \in Nat
    /\ it \in Keys \cup {None} /\ visited \in Seq(Keys) /\ steady \subseteq Keys

Once(s) == \A m, n \in 1..Len(s) : s[m] = s[n] => m = n

\* The chains and the list hold the same entries, each once, each in the
\* chain its key hashes to at the present size; mCounter is their number, and
\* never more than the size, so the chains stay short.
ChainsAreList ==
    /\ Once(mEntryIt)
    /\ \A h \in Buckets(mTableSize) :
          /\ Once(mTable[h])
          /\ \A k \in Keys : In(k, mTable[h]) <=>
                               get_hash_value(k, mTableSize) = h /\ In(k, mEntryIt)
    /\ mCounter = Len(mEntryIt) /\ mCounter <= mTableSize

\* A walk stands on every entry that is there from its start to its end, and
\* on none twice, whatever is put, grown or erased meanwhile.
WalkIsComplete ==
    /\ Once(visited)
    /\ it = None => \A k \in steady : In(k, visited)

\* What the table promises of its inside.
TablesHold == TypeOK /\ ChainsAreList /\ WalkIsComplete

\* Seen through its lookup, the table is a store.
items == [k \in Keys |-> hash_item(k)]
Store == INSTANCE KeyStore WITH store <- items
IsStore == Store!Spec
=============================================================================
