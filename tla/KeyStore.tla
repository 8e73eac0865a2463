------------------------------ MODULE KeyStore ------------------------------
(***************************************************************************)
(* What a hash or the variables of an object promise: a key has the item   *)
(* last put under it.                                                      *)
(***************************************************************************)
CONSTANTS Keys, Items, None

VARIABLE store

Init == store = [k \in Keys |-> None]

Put(k, x)     == store' = [store EXCEPT ![k] = x]
Replace(k, x) == store[k] # None /\ Put(k, x)
Erase(k)      == store' = [store EXCEPT ![k] = None]
Clear         == store' = [k \in Keys |-> None]

Next == \/ \E k \in Keys : Erase(k) \/ \E x \in Items : Put(k, x) \/ Replace(k, x)
        \/ Clear

Spec == Init /\ [][Next]_store
=============================================================================
