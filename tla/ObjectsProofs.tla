---------------------------- MODULE ObjectsProofs ----------------------------
(***************************************************************************)
(* The commands that make, read and name objects, for any objects, any     *)
(* names, texts and addresses and any number of commands: every name leads *)
(* to an object there is, and what is shared is not changed under the      *)
(* hands of those who share it.                                            *)
(*                                                                         *)
(* Everything here is about worlds: the objects, the local variables and   *)
(* the current object that a command finds, and those it leaves.  A world  *)
(* is Fine when it is of its type and sound.  One that is Grown has more   *)
(* objects and more items in them than the one it comes from, and nothing  *)
(* else is changed; that every command makes such a world of the one it    *)
(* finds, but for the one array or hash that -insert and -append add to,   *)
(* is what keeps the blocks on the stack sound, which come back to objects *)
(* they have seen before.  TypedNow says so of the state: it is the        *)
(* inductive invariant, and the type invariant in other words.             *)
(*                                                                         *)
(* A lookup goes from an object to its parent.  Parents were there before  *)
(* their children, which is why the recursive function of Inherited has a  *)
(* value; the lemma Fold is the induction behind it and behind all others. *)
(*                                                                         *)
(* What is written is read back (ReadBack) because of what the worlds in   *)
(* between have in common.  Two worlds are the Same under a set of names   *)
(* when every object has under these names what it had; a lookup that uses *)
(* no other name then finds the same.  What one argument of a command      *)
(* binds is found right after it, and the arguments after it write under   *)
(* other names, unless they hide it.  The lines of a text made of lines    *)
(* are these lines, which is what arrays and hashes rest on.               *)
(***************************************************************************)
EXTENDS ObjectCommands, TLAPS, WellFoundedInduction, SequenceTheorems

-----------------------------------------------------------------------------
(* Induction.                                                              *)

\* A set of natural numbers that is not empty has a least element.
LEMMA LeastIn ==
    ASSUME NEW T \in SUBSET Nat, T # {}
    PROVE  \E n \in T : \A k \in T : n <= k
<1> DEFINE Below == {ss \in Nat \X Nat : ss[1] < ss[2]}
<1>1. IsWellFoundedOn(Below, Nat)
  BY NatLessThanWellFounded DEF OpToRel
<1> HIDE DEF Below
<1>2. PICK n \in T : \A k \in T : ~(<<k, n>> \in Below)
  BY <1>1, WFMin
<1>3. ASSUME NEW k \in T PROVE n <= k
  <2>1. ~(<<k, n>> \in Below)
    BY <1>2
  <2>2. ~(k < n)
    BY <2>1 DEF Below
  <2> QED BY <2>2
<1> QED BY <1>3

\* Induction up to a number, for a set in the place of a predicate.
LEMMA Upto ==
    ASSUME NEW S, NEW N \in Nat,
           0 \in S, \A n \in 0..(N - 1) : n \in S => n + 1 \in S
    PROVE  0..N \subseteq S
<1> DEFINE T == (0..N) \ S
<1>1. SUFFICES ASSUME T # {} PROVE FALSE
  OBVIOUS
<1>2. T \in SUBSET Nat
  OBVIOUS
<1> HIDE DEF T
<1>3. PICK n \in T : \A k \in T : n <= k
  BY <1>1, <1>2, LeastIn
<1>4. n \in 1..N /\ n - 1 \notin T
  BY <1>3, <1>2 DEF T
<1>5. n - 1 \in 0..(N - 1) /\ n - 1 \in S
  BY <1>4 DEF T
<1>6. (n - 1) + 1 \in S
  BY <1>5
<1> QED BY <1>4, <1>6 DEF T

\* A function on 0..N may be defined from its value at 0 and how each other
\* value comes from the one at an earlier place.
Makes(N, S)    == [1..N -> [S -> S]]
Earlier(N)     == {before \in [1..N -> 0..N] : \A n \in 1..N : before[n] < n}
Follows(f, m, S, first, before, Make) ==
    /\ f \in [0..m -> S] /\ f[0] = first
    /\ \A n \in 1..m : f[n] = Make[n][f[before[n]]]

\* Such a function exists: the induction behind every recursive function here.
LEMMA Fold ==
    ASSUME NEW N \in Nat, NEW S, NEW first \in S,
           NEW before \in Earlier(N), NEW Make \in Makes(N, S)
    PROVE  \E f : Follows(f, N, S, first, before, Make)
<1> USE DEF Makes, Earlier, Follows
<1> DEFINE Good(f, m) == f[0] = first /\ \A n \in 1..m : f[n] = Make[n][f[before[n]]]
           T == {m \in 0..N : \E f \in [0..m -> S] : Good(f, m)}
<1>1. 0 \in T
  <2> DEFINE f == [n \in 0..0 |-> first]
  <2>1. f \in [0..0 -> S] /\ Good(f, 0)
    OBVIOUS
  <2> HIDE DEF f, Good
  <2> QED BY <2>1
<1>2. ASSUME NEW m \in 0..(N - 1), m \in T PROVE m + 1 \in T
  <2>1. PICK f \in [0..m -> S] : Good(f, m)
    BY <1>2
  <2>2. m + 1 \in 1..N /\ before[m + 1] \in 0..m
    OBVIOUS
  <2> DEFINE v == Make[m + 1][f[before[m + 1]]]
             g == [n \in 0..(m + 1) |-> IF n = m + 1 THEN v ELSE f[n]]
  <2>3. v \in S
    <3>1. f[before[m + 1]] \in S
      BY <2>2
    <3> QED BY <2>2, <3>1
  <2> HIDE DEF v
  <2>4. g \in [0..(m + 1) -> S]
    BY <2>3
  <2>5. g[0] = first
    <3>1. 0 \in 0..(m + 1) /\ 0 # m + 1
      OBVIOUS
    <3>2. g[0] = f[0]
      BY <3>1
    <3> QED BY <3>2, <2>1
  <2>6. ASSUME NEW n \in 1..(m + 1) PROVE g[n] = Make[n][g[before[n]]]
    <3>1. n \in 1..N /\ before[n] \in 0..m /\ before[n] # m + 1 /\ g[before[n]] = f[before[n]]
      OBVIOUS
    <3>2. CASE n = m + 1
      BY <3>1, <3>2 DEF v
    <3>3. CASE n # m + 1
      <4>1. n \in 1..m /\ g[n] = f[n]
        BY <3>3
      <4> QED BY <3>1, <4>1, <2>1
    <3> QED BY <3>2, <3>3
  <2>7. Good(g, m + 1)
    BY <2>5, <2>6
  <2>8. m + 1 \in 0..N
    OBVIOUS
  <2> HIDE DEF g, Good
  <2> QED BY <2>4, <2>7, <2>8
<1> HIDE DEF T
<1>3. 0..N \subseteq T
  BY <1>1, <1>2, Upto
<1>4. N \in T
  BY <1>3
<1> QED BY <1>4 DEF T

\* With each value from the one before it.
Foldable(N, S, first, Make)    == N \in Nat /\ first \in S /\ Make \in Makes(N, S)
Stepwise(f, N, S, first, Make) ==
    f \in [0..N -> S] /\ f[0] = first /\ \A n \in 1..N : f[n] = Make[n][f[n - 1]]

\* The case of it in which each value comes from the one before it.
LEMMA Steps ==
    ASSUME NEW N, NEW S, NEW first, NEW Make, Foldable(N, S, first, Make)
    PROVE  \E f : Stepwise(f, N, S, first, Make)
<1> DEFINE before == [n \in 1..N |-> n - 1]
<1>1. N \in Nat /\ first \in S /\ Make \in Makes(N, S)
  BY DEF Foldable
<1>2. before \in Earlier(N) /\ \A n \in 1..N : before[n] = n - 1
  BY <1>1 DEF Earlier
<1> HIDE DEF before
<1>3. PICK f : Follows(f, N, S, first, before, Make)
  BY <1>1, <1>2, Fold
<1>4. f \in [0..N -> S] /\ f[0] = first /\ \A n \in 1..N : f[n] = Make[n][f[before[n]]]
  BY <1>3 DEF Follows
<1>5. ASSUME NEW n \in 1..N PROVE f[n] = Make[n][f[n - 1]]
  <2>1. before[n] = n - 1
    BY <1>2
  <2> QED BY <1>4, <2>1, Zenon
<1>6. Stepwise(f, N, S, first, Make)
  BY <1>4, <1>5, Zenon DEF Stepwise
<1> QED BY <1>6

\* What a function has at one place, and keeps from each place to the next.
LEMMA Within ==
    ASSUME NEW N \in Nat, NEW M \in 0..N, NEW S, NEW g, g[M] \in S,
           \A n \in (M + 1)..N : g[n - 1] \in S => g[n] \in S
    PROVE  \A n \in M..N : g[n] \in S
<1> DEFINE T == {n \in 0..(N - M) : g[M + n] \in S}
<1>1. 0 \in T
  OBVIOUS
<1>2. ASSUME NEW n \in 0..((N - M) - 1), n \in T PROVE n + 1 \in T
  <2>1. M + (n + 1) \in (M + 1)..N /\ (M + (n + 1)) - 1 = M + n
    OBVIOUS
  <2>2. g[M + n] \in S
    BY <1>2
  <2>3. g[M + (n + 1)] \in S
    BY <2>1, <2>2
  <2>4. n + 1 \in 0..(N - M)
    OBVIOUS
  <2> QED BY <2>3, <2>4
<1>3. N - M \in Nat
  OBVIOUS
<1> HIDE DEF T
<1> DEFINE D == N - M
<1> HIDE DEF D
<1>4. 0..D \subseteq T
  BY <1>1, <1>2, <1>3, Upto DEF D
<1>5. ASSUME NEW n \in M..N PROVE g[n] \in S
  <2>1. n - M \in 0..D /\ M + (n - M) = n
    BY DEF D
  <2>2. n - M \in T
    BY <1>4, <2>1
  <2> QED BY <2>1, <2>2 DEF T
<1> QED BY <1>5
-----------------------------------------------------------------------------
(* Sequences.                                                              *)

\* The first elements of a sequence.
LEMMA FirstPart ==
    ASSUME NEW S, NEW s \in Seq(S), NEW n \in 0..Len(s)
    PROVE  /\ SubSeq(s, 1, n) \in Seq(S) /\ Len(SubSeq(s, 1, n)) = n
           /\ \A k \in 1..n : SubSeq(s, 1, n)[k] = s[k]
<1>1. CASE n = 0
  BY <1>1
<1>2. CASE n # 0
  BY <1>2
<1> QED BY <1>1, <1>2

\* The last ones, from any place on.
LEMMA FromIs ==
    ASSUME NEW S, NEW s \in Seq(S), NEW n \in Nat \ {0}
    PROVE  /\ From(s, n) \in Seq(S)
           /\ Len(From(s, n)) = IF n <= Len(s) THEN Len(s) - n + 1 ELSE 0
           /\ \A k \in 1..Len(From(s, n)) : From(s, n)[k] = s[n - 1 + k]
<1>1. CASE n <= Len(s)
  BY <1>1 DEF From
<1>2. CASE n > Len(s)
  BY <1>2 DEF From
<1> QED BY <1>1, <1>2

\* An element in front.
LEMMA InFront ==
    ASSUME NEW S, NEW x \in S, NEW s \in Seq(S)
    PROVE  /\ <<x>> \o s \in Seq(S) /\ Len(<<x>> \o s) = Len(s) + 1
           /\ (<<x>> \o s)[1] = x
           /\ \A n \in 1..Len(s) : (<<x>> \o s)[n + 1] = s[n]
           /\ \A n \in 2..(Len(s) + 1) : (<<x>> \o s)[n] = s[n - 1]
<1>1. <<x>> \o s \in Seq(S) /\ Len(<<x>> \o s) = 1 + Len(s) /\ (<<x>> \o s)[1] = x
      /\ \A n \in 1..Len(s) : (<<x>> \o s)[1 + n] = s[n]
  OBVIOUS
<1>2. Len(s) \in Nat
  OBVIOUS
<1> DEFINE t == <<x>> \o s
<1> HIDE DEF t
<1>3. t \in Seq(S) /\ Len(t) = Len(s) + 1 /\ t[1] = x /\ \A n \in 1..Len(s) : t[1 + n] = s[n]
  BY <1>1, <1>2 DEF t
<1>4. ASSUME NEW n \in 1..Len(s) PROVE t[n + 1] = s[n]
  <2>1. n + 1 = 1 + n
    OBVIOUS
  <2> QED BY <1>3, <2>1
<1>5. ASSUME NEW n \in 2..(Len(s) + 1) PROVE t[n] = s[n - 1]
  <2>1. n - 1 \in 1..Len(s) /\ 1 + (n - 1) = n
    BY <1>2
  <2> QED BY <1>3, <2>1
<1> QED BY <1>3, <1>4, <1>5 DEF t
-----------------------------------------------------------------------------
(* Tables.                                                                 *)

\* The items of a table may be taken for members of the set they are all in.
LEMMA PairsIn ==
    ASSUME NEW K, NEW S, NEW U, NEW t \in Pairs(K, S), \A n \in DOMAIN t : t[n][2] \in U
    PROVE  t \in Pairs(K, U)
<1> DEFINE P == K \X S
           Q == K \X U
<1>1. t \in Seq(P) /\ KeysOnce(t)
  BY DEF Pairs
<1>2. \A n \in 1..Len(t) : t[n] \in P
  <2> HIDE DEF P
  <2> QED BY <1>1
<1>3. \A n \in 1..Len(t) : t[n] \in Q
  <2>1. DOMAIN t = 1..Len(t)
    BY <1>1
  <2> QED BY <1>2, <2>1
<1>4. t \in Seq(Q)
  <2> HIDE DEF P, Q
  <2> QED BY <1>1, <1>3
<1> QED BY <1>1, <1>4 DEF Pairs

\* What a table is: pairs of a key and an item, no key twice.
LEMMA PairIs ==
    ASSUME NEW K, NEW S, NEW t \in Pairs(K, S)
    PROVE  /\ Len(t) \in Nat /\ DOMAIN t = 1..Len(t)
           /\ \A n \in 1..Len(t) : t[n] = <<t[n][1], t[n][2]>> /\ t[n][1] \in K /\ t[n][2] \in S
           /\ KeysOnce(t)
<1> DEFINE P == K \X S
<1>1. t \in Seq(P) /\ KeysOnce(t)
  BY DEF Pairs
<1>2. Len(t) \in Nat /\ DOMAIN t = 1..Len(t) /\ \A n \in 1..Len(t) : t[n] \in P
  <2> HIDE DEF P
  <2> QED BY <1>1
<1> QED BY <1>1, <1>2

\* A key leads to the item beside it.
LEMMA AtIs ==
    ASSUME NEW K, NEW S, NEW t \in Pairs(K, S), NEW n \in 1..Len(t)
    PROVE  Has(t, t[n][1]) /\ At(t, t[n][1]) = t[n][2]
<1>1. DOMAIN t = 1..Len(t) /\ \A m \in DOMAIN t : t[m][1] = t[n][1] => m = n
  BY PairIs DEF KeysOnce
<1> DEFINE p == CHOOSE m \in DOMAIN t : t[m][1] = t[n][1]
<1>2. p = n
  BY <1>1
<1> QED BY <1>1, <1>2 DEF Has, At

\* What is found in a table is one of its items.
LEMMA AtIn ==
    ASSUME NEW K, NEW S, NEW t \in Pairs(K, S), NEW key, Has(t, key)
    PROVE  At(t, key) \in S /\ key \in K
<1>1. PICK n \in DOMAIN t : t[n][1] = key
  BY DEF Has
<1>2. n \in 1..Len(t) /\ t[n][2] \in S /\ t[n][1] \in K
  BY PairIs
<1> QED BY <1>1, <1>2, AtIs

\* What put does: the key leads to the item, every other where it led.
LEMMA PutIs ==
    ASSUME NEW K, NEW S, NEW t \in Pairs(K, S), NEW key \in K, NEW item \in S
    PROVE  /\ Put(t, key, item) \in Pairs(K, S)
           /\ Has(Put(t, key, item), key) /\ At(Put(t, key, item), key) = item
           /\ \A k : k # key => /\ Has(Put(t, key, item), k) <=> Has(t, k)
                                /\ Has(t, k) => At(Put(t, key, item), k) = At(t, k)
           /\ Len(Put(t, key, item)) = IF Has(t, key) THEN Len(t) ELSE Len(t) + 1
<1> DEFINE P == K \X S
           u == Put(t, key, item)
<1>1. /\ Len(t) \in Nat /\ DOMAIN t = 1..Len(t) /\ KeysOnce(t)
      /\ \A n \in 1..Len(t) : t[n] = <<t[n][1], t[n][2]>> /\ t[n][1] \in K /\ t[n][2] \in S
  BY PairIs
<1>2. CASE Has(t, key)
  <2>1. u = [n \in 1..Len(t) |-> IF t[n][1] = key THEN <<key, item>> ELSE t[n]]
    BY <1>1, <1>2 DEF Put
  <2>2. \A n \in 1..Len(t) : /\ u[n] \in P /\ u[n][1] = t[n][1]
                             /\ u[n][2] = IF t[n][1] = key THEN item ELSE t[n][2]
    BY <1>1, <2>1
  <2>3. u \in Seq(P) /\ Len(u) = Len(t) /\ DOMAIN u = 1..Len(t)
    <3> DEFINE n1 == Len(t)
    <3>1. n1 \in Nat /\ DOMAIN u = 1..n1
      BY <1>1, <2>1
    <3>2. \A n \in 1..n1 : u[n] \in P
      BY <2>2
    <3>3. u = [n \in 1..n1 |-> u[n]]
      BY <2>1
    <3> HIDE DEF u, P, n1
    <3>4. u \in [1..n1 -> P]
      BY <3>2, <3>3
    <3>5. u \in Seq(P)
      BY <3>1, <3>4
    <3> QED BY <3>1, <3>5 DEF n1
  <2>4. KeysOnce(u)
    BY <1>1, <2>2, <2>3 DEF KeysOnce
  <2>5. u \in Pairs(K, S)
    BY <2>3, <2>4 DEF Pairs
  <2>6. PICK m \in 1..Len(t) : t[m][1] = key
    BY <1>1, <1>2 DEF Has
  <2>7. Has(u, key) /\ At(u, key) = item
    <3>1. u[m][1] = key /\ u[m][2] = item /\ m \in 1..Len(u)
      BY <2>2, <2>3, <2>6
    <3> HIDE DEF u
    <3> QED BY <2>5, <3>1, AtIs
  <2>8. ASSUME NEW k, k # key
        PROVE  /\ Has(u, k) <=> Has(t, k)
               /\ Has(t, k) => At(u, k) = At(t, k)
    <3>1. Has(u, k) <=> Has(t, k)
      BY <1>1, <2>2, <2>3 DEF Has
    <3>2. ASSUME Has(t, k) PROVE At(u, k) = At(t, k)
      <4>1. PICK n \in 1..Len(t) : t[n][1] = k
        BY <1>1, <3>2 DEF Has
      <4>2. u[n][1] = k /\ u[n][2] = t[n][2] /\ n \in 1..Len(u)
        BY <2>2, <2>3, <2>8, <4>1
      <4>3. At(t, k) = t[n][2]
        BY <4>1, AtIs
      <4>4. At(u, k) = u[n][2]
        <5> HIDE DEF u
        <5> QED BY <2>5, <4>2, AtIs
      <4> QED BY <4>2, <4>3, <4>4
    <3> QED BY <3>1, <3>2
  <2> HIDE DEF u
  <2> QED BY <1>2, <2>3, <2>5, <2>7, <2>8 DEF u
<1>3. CASE ~Has(t, key)
  <2> DEFINE pair == <<key, item>>
  <2>1. u = <<pair>> \o t
    BY <1>3 DEF Put
  <2>2. pair \in P /\ pair[1] = key /\ pair[2] = item /\ t \in Seq(P)
    BY DEF Pairs
  <2> HIDE DEF pair, P
  <2>3. /\ u \in Seq(P) /\ Len(u) = Len(t) + 1 /\ u[1] = pair
        /\ \A n \in 1..Len(t) : u[n + 1] = t[n]
        /\ \A n \in 2..(Len(t) + 1) : u[n] = t[n - 1]
    BY <2>1, <2>2, InFront
  <2>4. DOMAIN u = 1..(Len(t) + 1)
    BY <2>3
  <2> HIDE DEF u
  <2>5. KeysOnce(u)
    <3> SUFFICES ASSUME NEW m \in 1..(Len(t) + 1), NEW n \in 1..(Len(t) + 1), u[m][1] = u[n][1]
                 PROVE  m = n
      BY <2>4 DEF KeysOnce
    <3>1. \A k \in 1..Len(t) : t[k][1] # key
      BY <1>1, <1>3 DEF Has
    <3>2. \A k \in 2..(Len(t) + 1) : k - 1 \in 1..Len(t) /\ u[k][1] = t[k - 1][1] /\ u[k][1] # key
      BY <1>1, <2>3, <3>1
    <3>3. u[1][1] = key
      BY <2>2, <2>3
    <3>4. \A k \in 1..(Len(t) + 1) : k = 1 \/ k \in 2..(Len(t) + 1)
      BY <1>1
    <3>5. CASE m = 1 \/ n = 1
      BY <3>2, <3>3, <3>4, <3>5
    <3>6. CASE m # 1 /\ n # 1
      <4>1. m \in 2..(Len(t) + 1) /\ n \in 2..(Len(t) + 1)
        BY <3>4, <3>6
      <4>2. m - 1 \in DOMAIN t /\ n - 1 \in DOMAIN t /\ t[m - 1][1] = t[n - 1][1]
        BY <1>1, <3>2, <4>1
      <4>3. m - 1 = n - 1
        BY <1>1, <4>2 DEF KeysOnce
      <4> QED BY <4>1, <4>3
    <3> QED BY <3>5, <3>6
  <2>6. u \in Pairs(K, S)
    BY <2>3, <2>5 DEF Pairs, P
  <2>7. Has(u, key) /\ At(u, key) = item
    <3>1. u[1][1] = key /\ u[1][2] = item /\ 1 \in 1..Len(u)
      BY <1>1, <2>2, <2>3
    <3> QED BY <2>6, <3>1, AtIs
  <2>8. ASSUME NEW k, k # key
        PROVE  /\ Has(u, k) <=> Has(t, k)
               /\ Has(t, k) => At(u, k) = At(t, k)
    <3>1. ASSUME Has(u, k) PROVE Has(t, k)
      <4>1. PICK n \in 1..(Len(t) + 1) : u[n][1] = k
        BY <2>4, <3>1 DEF Has
      <4>2. n # 1
        BY <2>2, <2>3, <2>8, <4>1
      <4>3. n \in 2..(Len(t) + 1) /\ n - 1 \in 1..Len(t)
        BY <1>1, <4>2
      <4>4. t[n - 1][1] = k
        BY <2>3, <4>1, <4>3
      <4> QED BY <1>1, <4>3, <4>4 DEF Has
    <3>2. ASSUME Has(t, k) PROVE Has(u, k) /\ At(u, k) = At(t, k)
      <4>1. PICK n \in 1..Len(t) : t[n][1] = k
        BY <1>1, <3>2 DEF Has
      <4>2. n + 1 \in 1..Len(u) /\ u[n + 1] = t[n]
        BY <1>1, <2>3
      <4>3. At(t, k) = t[n][2]
        BY <4>1, AtIs
      <4> DEFINE m == n + 1
      <4>4. m \in 1..Len(u) /\ u[m][1] = k /\ u[m][2] = t[n][2]
        BY <4>1, <4>2
      <4> HIDE DEF m
      <4>5. Has(u, k) /\ At(u, k) = u[m][2]
        BY <2>6, <4>4, AtIs
      <4> QED BY <4>3, <4>4, <4>5
    <3> QED BY <3>1, <3>2
  <2> QED BY <1>3, <2>3, <2>6, <2>7, <2>8 DEF u
<1> QED BY <1>2, <1>3
-----------------------------------------------------------------------------
(* Worlds.                                                                 *)

Fine == {w \in Worlds : Sound(w)}

UserObjects == [type : {"object"}, name : Names, parent : Nat, items : Pairs(Names, Nat)]

\* What an object of each type holds.
LEMMA KindIs ==
    ASSUME NEW x \in Objects
    PROVE  /\ x.type = "object" => x \in UserObjects
           /\ x.type = "var" => x.value \in ALine
           /\ x.type = "array" => x.value \in Seq(ALine)
           /\ x.type = "hash" => x.value \in Pairs(ALine, ALine)
           /\ x.type \in {"function", "class", "alias"} => x.value \in Texts
           /\ x.type \in Types
<1>1. \/ x \in [type : {"var"}, value : ALine] \/ x \in [type : {"array"}, value : Seq(ALine)]
      \/ x \in [type : {"hash"}, value : Pairs(ALine, ALine)]
      \/ x \in [type : {"function", "class", "alias"}, value : Texts]
      \/ x \in [type : {"native function"}] \/ x \in UserObjects
  BY Zenon DEF Objects, UserObjects
<1>2. CASE x \in [type : {"var"}, value : ALine]
  BY <1>2, Zenon DEF Types
<1>3. CASE x \in [type : {"array"}, value : Seq(ALine)]
  BY <1>3, Zenon DEF Types
<1>4. CASE x \in [type : {"hash"}, value : Pairs(ALine, ALine)]
  BY <1>4, Zenon DEF Types
<1>5. CASE x \in [type : {"function", "class", "alias"}, value : Texts]
  BY <1>5, Zenon DEF Types
<1>6. CASE x \in [type : {"native function"}]
  BY <1>6, Zenon DEF Types
<1>7. CASE x \in UserObjects
  BY <1>7, Zenon DEF Types, UserObjects
<1> QED BY <1>1, <1>2, <1>3, <1>4, <1>5, <1>6, <1>7, Zenon

\* What an object of type "object" holds.
LEMMA UserIs ==
    ASSUME NEW x \in UserObjects
    PROVE  /\ x.type = "object" /\ x.name \in Names /\ x.parent \in Nat
           /\ x.items \in Pairs(Names, Nat) /\ x \in Objects
BY Zenon DEF UserObjects, Objects

\* What a sound world is.
LEMMA WorldIs ==
    ASSUME NEW w \in Fine
    PROVE  /\ w \in Worlds /\ Sound(w)
           /\ w.heap \in Seq(Objects) /\ Len(w.heap) \in Nat /\ DOMAIN w.heap = 1..Len(w.heap)
           /\ w.locals \in Pairs(Names, DOMAIN w.heap) /\ w.current \in Nat /\ w.ok \in BOOLEAN
           /\ IsUser(w, Root) /\ IsUser(w, w.current) /\ Native \in DOMAIN w.heap
<1>1. w \in Worlds /\ Sound(w)
  BY DEF Fine
<1> DEFINE O == Objects
           P == Pairs(Names, Nat)
<1>2. w.heap \in Seq(O) /\ w.locals \in P /\ w.current \in Nat /\ w.ok \in BOOLEAN
  BY <1>1 DEF Worlds
<1>3. Len(w.heap) \in Nat /\ DOMAIN w.heap = 1..Len(w.heap)
  <2> HIDE DEF O
  <2> QED BY <1>2
<1>4. /\ IsUser(w, Root) /\ IsUser(w, w.current) /\ Native \in DOMAIN w.heap
      /\ \A n \in DOMAIN w.locals : w.locals[n][2] \in DOMAIN w.heap
  BY <1>1 DEF Sound
<1>5. w.locals \in Pairs(Names, DOMAIN w.heap)
  BY <1>2, <1>4, PairsIn
<1> QED BY <1>1, <1>2, <1>3, <1>4, <1>5

\* What its objects of type "object" are: they have parents and lead to objects there are.
LEMMA UsersAre ==
    ASSUME NEW w \in Fine, NEW o, IsUser(w, o)
    PROVE  /\ o \in 1..Len(w.heap) /\ o \in Nat /\ w.heap[o] \in UserObjects
           /\ w.heap[o].items \in Pairs(Names, DOMAIN w.heap) /\ w.heap[o].name \in Names
           /\ IsUser(w, w.heap[o].parent) /\ (o # Root => w.heap[o].parent < o)
           /\ w.heap[o].parent \in 1..Len(w.heap)
<1>1. /\ o \in DOMAIN w.heap /\ w.heap[o].type = "object" /\ w.heap \in Seq(Objects)
      /\ Len(w.heap) \in Nat /\ DOMAIN w.heap = 1..Len(w.heap) /\ Sound(w)
  BY WorldIs DEF IsUser
<1>2. w.heap[o] \in Objects
  <2> DEFINE O == Objects
  <2>1. w.heap \in Seq(O)
    BY <1>1
  <2> HIDE DEF O
  <2>2. w.heap[o] \in O
    BY <1>1, <2>1
  <2> QED BY <2>2 DEF O
<1>3. w.heap[o] \in UserObjects
  BY <1>1, <1>2, KindIs
<1>4. w.heap[o].items \in Pairs(Names, Nat) /\ w.heap[o].name \in Names
  BY <1>3, UserIs
<1>5. /\ IsUser(w, w.heap[o].parent) /\ (o # Root => w.heap[o].parent < o)
      /\ \A n \in DOMAIN w.heap[o].items : w.heap[o].items[n][2] \in DOMAIN w.heap
  BY <1>1 DEF Sound
<1>6. w.heap[o].items \in Pairs(Names, DOMAIN w.heap)
  BY <1>4, <1>5, PairsIn
<1>7. w.heap[o].parent \in 1..Len(w.heap)
  BY <1>1, <1>5 DEF IsUser
<1> QED BY <1>1, <1>3, <1>4, <1>5, <1>6, <1>7

\* What its objects are.
LEMMA HeapIs ==
    ASSUME NEW w \in Fine, NEW o \in DOMAIN w.heap
    PROVE  w.heap[o] \in Objects /\ o \in 1..Len(w.heap) /\ o \in Nat /\ o # NULL
<1>1. w.heap \in Seq(Objects) /\ Len(w.heap) \in Nat /\ DOMAIN w.heap = 1..Len(w.heap)
  BY WorldIs
<1> DEFINE O == Objects
<1>2. w.heap \in Seq(O)
  BY <1>1
<1> HIDE DEF O
<1>3. w.heap[o] \in O
  BY <1>1, <1>2
<1> QED BY <1>1, <1>3 DEF O, NULL

\* And the converse: what makes a world a sound one.
LEMMA IsFine ==
    ASSUME NEW w \in Worlds,
           IsUser(w, Root), IsUser(w, w.current), Native \in DOMAIN w.heap,
           w.locals \in Pairs(Names, DOMAIN w.heap),
           \A o \in DOMAIN w.heap : w.heap[o].type = "object" =>
               /\ IsUser(w, w.heap[o].parent) /\ (o # Root => w.heap[o].parent < o)
               /\ w.heap[o].items \in Pairs(Names, DOMAIN w.heap)
    PROVE  w \in Fine
<1>1. ASSUME NEW t, t \in Pairs(Names, DOMAIN w.heap)
      PROVE  \A n \in DOMAIN t : t[n][2] \in DOMAIN w.heap
  BY <1>1, PairIs
<1>2. \A n \in DOMAIN w.locals : w.locals[n][2] \in DOMAIN w.heap
  BY <1>1
<1>3. \A o \in DOMAIN w.heap : w.heap[o].type = "object" =>
          \A n \in DOMAIN w.heap[o].items : w.heap[o].items[n][2] \in DOMAIN w.heap
  BY <1>1
<1>4. Sound(w)
  BY <1>2, <1>3 DEF Sound
<1> QED BY <1>4 DEF Fine
-----------------------------------------------------------------------------
(* Lookups.                                                                *)

\* An object or nothing.
Finds(w) == DOMAIN w.heap \cup {NULL}

\* What uobject_item finds in an object is an object, or nothing.
LEMMA ItemIs ==
    ASSUME NEW w \in Fine, NEW o, IsUser(w, o), NEW name
    PROVE  uobject_item(w, o, name) \in Finds(w)
<1>1. w.heap[o].items \in Pairs(Names, DOMAIN w.heap)
  BY UsersAre
<1> QED BY <1>1, AtIn DEF uobject_item, Finds

InheritedFrom(w, name, f) ==
    f = [o \in 0..Len(w.heap) |->
            IF ~IsUser(w, o) THEN NULL
            ELSE IF uobject_item(w, o, name) # NULL \/ o = Root THEN uobject_item(w, o, name)
            ELSE f[w.heap[o].parent]]

\* The lookup through the parents comes to an end, and finds an object or nothing.
LEMMA InheritedIs ==
    ASSUME NEW w \in Fine, NEW name
    PROVE  InheritedFrom(w, name, Inherited(w, name))
           /\ Inherited(w, name) \in [0..Len(w.heap) -> Finds(w)]
<1> DEFINE N == Len(w.heap)
           S == Finds(w)
           before == [n \in 1..N |-> IF IsUser(w, n) /\ n # Root THEN w.heap[n].parent ELSE 0]
           item(n) == uobject_item(w, n, name)
           Make == [n \in 1..N |-> [x \in S |-> IF ~IsUser(w, n) THEN NULL
                        ELSE IF item(n) # NULL \/ n = Root THEN item(n) ELSE x]]
<1>1. N \in Nat /\ NULL \in S /\ DOMAIN w.heap = 1..N /\ IsUser(w, Root)
  BY WorldIs DEF Finds
<1>2. before \in Earlier(N)
  <2>1. \A n \in 1..N : IsUser(w, n) /\ n # Root => w.heap[n].parent \in 1..N
        /\ w.heap[n].parent < n
    BY UsersAre
  <2>2. \A n \in 1..N : before[n] \in 0..N /\ before[n] < n
    BY <2>1, <1>1
  <2> HIDE DEF N
  <2> QED BY <2>2 DEF Earlier
<1>3. \A n \in 1..N : IsUser(w, n) => item(n) \in S
  BY ItemIs
<1>4. Make \in Makes(N, S)
  <2> HIDE DEF item, S, N
  <2> QED BY <1>1, <1>3 DEF Makes
<1>5. \A n \in 1..N, x \in S : Make[n][x] = IF ~IsUser(w, n) THEN NULL
                        ELSE IF item(n) # NULL \/ n = Root THEN item(n) ELSE x
  OBVIOUS
<1>6. \A n \in 1..N : before[n] = IF IsUser(w, n) /\ n # Root THEN w.heap[n].parent ELSE 0
  OBVIOUS
<1> HIDE DEF Make, before
<1>7. PICK f : Follows(f, N, S, NULL, before, Make)
  <2> HIDE DEF N, S
  <2> QED BY <1>1, <1>2, <1>4, Fold
<1>8. f \in [0..N -> S] /\ f[0] = NULL /\ \A n \in 1..N : f[n] = Make[n][f[before[n]]]
  BY <1>7 DEF Follows
<1>9. ~IsUser(w, 0)
  BY <1>1 DEF IsUser
<1>10. InheritedFrom(w, name, f)
  <2> DEFINE g == [o \in 0..N |-> IF ~IsUser(w, o) THEN NULL
                        ELSE IF item(o) # NULL \/ o = Root THEN item(o) ELSE f[w.heap[o].parent]]
  <2>1. ASSUME NEW n \in 0..N PROVE f[n] = g[n]
    <3>1. CASE n = 0
      BY <1>8, <1>9, <3>1
    <3>2. CASE n # 0
      <4>1. n \in 1..N /\ before[n] \in 0..N /\ f[before[n]] \in S
        BY <1>1, <1>2, <1>8, <3>2 DEF Earlier
      <4>2. f[n] = IF ~IsUser(w, n) THEN NULL
                   ELSE IF item(n) # NULL \/ n = Root THEN item(n) ELSE f[before[n]]
        BY <1>5, <1>8, <4>1
      <4> QED BY <1>6, <4>1, <4>2
    <3> QED BY <3>1, <3>2
  <2>2. DOMAIN f = 0..N /\ f = [n \in 0..N |-> f[n]]
    BY <1>8
  <2>3. f = g
    BY <2>1, <2>2
  <2> QED BY <2>3 DEF InheritedFrom
<1>11. Inherited(w, name) = CHOOSE g : InheritedFrom(w, name, g)
  BY DEF Inherited, InheritedFrom
<1>12. InheritedFrom(w, name, Inherited(w, name))
  BY <1>10, <1>11
<1> DEFINE from == Inherited(w, name)
<1>13. \A n \in 0..N : from[n] = IF ~IsUser(w, n) THEN NULL
                        ELSE IF item(n) # NULL \/ n = Root THEN item(n) ELSE from[w.heap[n].parent]
  <2> HIDE DEF item
  <2>1. from = [o \in 0..N |-> IF ~IsUser(w, o) THEN NULL
                        ELSE IF item(o) # NULL \/ o = Root THEN item(o) ELSE from[w.heap[o].parent]]
    BY <1>12 DEF InheritedFrom, item
  <2> HIDE DEF from, N
  <2> QED BY <2>1, Zenon
<1> HIDE DEF from
<1>14. ASSUME NEW n \in 0..N PROVE from[n] \in S
  <2> DEFINE T == {k \in 0..N : from[k] \notin S}
  <2>1. SUFFICES ASSUME T # {} PROVE FALSE
    OBVIOUS
  <2>2. PICK k \in T : \A j \in T : k <= j
    <3>1. T \in SUBSET Nat
      BY <1>1
    <3> HIDE DEF T
    <3> QED BY <2>1, <3>1, LeastIn
  <2>3. k \in 0..N /\ IsUser(w, k) /\ ~(item(k) # NULL \/ k = Root)
    <3>1. k \in 0..N /\ from[k] \notin S
      BY <2>2
    <3>2. IsUser(w, k) => item(k) \in S
      BY <1>3, <1>9, <3>1
    <3> HIDE DEF item, S, N
    <3> QED BY <1>1, <1>13, <3>1, <3>2
  <2>4. w.heap[k].parent \in 1..N /\ w.heap[k].parent < k
    BY <2>3, UsersAre
  <2>5. from[w.heap[k].parent] \in S
    BY <2>2, <2>3, <2>4
  <2> QED BY <1>13, <2>2, <2>3, <2>5
<1>15. from \in [0..N -> S]
  <2>1. DOMAIN from = 0..N /\ from = [n \in 0..N |-> from[n]]
    <3>1. InheritedFrom(w, name, from)
      BY <1>12 DEF from
    <3> QED BY <3>1 DEF InheritedFrom
  <2> HIDE DEF S, N
  <2> QED BY <1>14, <2>1
<1> QED BY <1>12, <1>15 DEF from

\* So does access_object.
LEMMA AccessIs ==
    ASSUME NEW w \in Fine, NEW name
    PROVE  access_object(w, name) \in Finds(w)
<1>1. w.locals \in Pairs(Names, DOMAIN w.heap) /\ w.current \in 0..Len(w.heap)
  BY WorldIs, UsersAre
<1>2. Has(w.locals, name) => At(w.locals, name) \in DOMAIN w.heap
  BY <1>1, AtIn
<1>3. Inherited(w, name)[w.current] \in Finds(w)
  BY <1>1, InheritedIs
<1> QED BY <1>2, <1>3 DEF access_object, Finds

\* Where the walk along an argument may be: at an object, or not any more.
Spots(w) == {at \in [ok : BOOLEAN, object : Finds(w), first : BOOLEAN] :
                 (at.ok => IsUser(w, at.object)) /\ (at.first => at.ok /\ at.object = w.current)}

SpotOf(w, item) == [ok |-> Typed(w, item) = "object", object |-> item, first |-> FALSE]
AtFirst(w)      == [ok |-> TRUE, object |-> w.current, first |-> TRUE]
Onward(w, at, name) ==
    IF ~at.ok THEN at
    ELSE IF name = "" /\ ~at.first THEN [at EXCEPT !.ok = FALSE]
    ELSE SpotOf(w, IF name = "" THEN Root
                   ELSE IF at.first THEN access_object(w, <<name>>)
                   ELSE uobject_item(w, at.object, <<name>>))
PrefixFrom(w, argument, f) ==
    f = [n \in 0..(Len(argument) - 1) |->
            IF n = 0 THEN AtFirst(w) ELSE Onward(w, f[n - 1], argument[n])]

\* An object found may stand in front of a "::".
LEMMA SpotIs ==
    ASSUME NEW w \in Fine, NEW item \in Finds(w)
    PROVE  SpotOf(w, item) \in Spots(w)
<1>1. Typed(w, item) = "object" => IsUser(w, item)
  BY DEF Typed, IsUser, Finds
<1>2. (Typed(w, item) = "object") \in BOOLEAN
  OBVIOUS
<1> DEFINE b == (Typed(w, item) = "object")
           at == SpotOf(w, item)
<1>3. at = [ok |-> b, object |-> item, first |-> FALSE] /\ b \in BOOLEAN /\ (b => IsUser(w, item))
  BY <1>1 DEF SpotOf
<1> HIDE DEF b, at
<1>4. at \in [ok : BOOLEAN, object : Finds(w), first : BOOLEAN]
  BY <1>3
<1>5. (at.ok <=> b) /\ at.object = item /\ ~at.first
  BY <1>3
<1> QED BY <1>3, <1>4, <1>5 DEF Spots, at

\* One "::" leads from such a place to another.
LEMMA OnwardIs ==
    ASSUME NEW w \in Fine, NEW at \in Spots(w), NEW name
    PROVE  Onward(w, at, name) \in Spots(w)
<1> DEFINE item == IF name = "" THEN Root
                   ELSE IF at.first THEN access_object(w, <<name>>)
                   ELSE uobject_item(w, at.object, <<name>>)
<1>1. at \in [ok : BOOLEAN, object : Finds(w), first : BOOLEAN] /\ (at.ok => IsUser(w, at.object))
      /\ (at.first => at.ok)
  BY DEF Spots
<1>2. CASE ~at.ok
  BY <1>2 DEF Onward
<1>3. CASE at.ok /\ name = "" /\ ~at.first
  <2> DEFINE u == [at EXCEPT !.ok = FALSE]
  <2>1. u \in [ok : BOOLEAN, object : Finds(w), first : BOOLEAN] /\ ~u.ok /\ u.first = at.first
    BY <1>1
  <2>2. u \in Spots(w)
    BY <1>3, <2>1, Zenon DEF Spots
  <2> QED BY <1>3, <2>2, Zenon DEF Onward
<1>4. CASE at.ok /\ ~(name = "" /\ ~at.first)
  <2>1. item \in Finds(w)
    <3>1. Root \in Finds(w)
      BY WorldIs DEF Finds, IsUser
    <3>2. access_object(w, <<name>>) \in Finds(w)
      BY AccessIs
    <3>3. uobject_item(w, at.object, <<name>>) \in Finds(w)
      BY <1>1, <1>4, ItemIs, Zenon
    <3> QED BY <3>1, <3>2, <3>3, Zenon
  <2>2. Onward(w, at, name) = SpotOf(w, item)
    BY <1>4, Zenon DEF Onward
  <2> HIDE DEF item
  <2> QED BY <2>1, <2>2, SpotIs
<1> QED BY <1>2, <1>3, <1>4, Zenon

\* The prefix of an argument is where its "::"s lead, one after the other.
LEMMA PrefixIs ==
    ASSUME NEW w \in Fine, NEW argument \in Names
    PROVE  \E f : /\ Prefix(w, argument) = f[Len(argument) - 1] /\ Len(argument) - 1 \in Nat
                  /\ f \in [0..(Len(argument) - 1) -> Spots(w)]
                  /\ f[0] = AtFirst(w)
                  /\ \A n \in 1..(Len(argument) - 1) : f[n] = Onward(w, f[n - 1], argument[n])
<1> DEFINE N == Len(argument) - 1
           S == Spots(w)
           Make == [n \in 1..N |-> [at \in S |-> Onward(w, at, argument[n])]]
           Is(f) == PrefixFrom(w, argument, f)
           at == CHOOSE f : Is(f)
<1>1. N \in Nat
  BY DEF Names
<1>2. AtFirst(w) \in S
  <2>1. w.current \in Finds(w) /\ IsUser(w, w.current)
    BY WorldIs DEF IsUser, Finds
  <2> QED BY <2>1 DEF AtFirst, Spots
<1>3. Make \in Makes(N, S) /\ \A n \in 1..N, x \in S : Make[n][x] = Onward(w, x, argument[n])
  BY OnwardIs DEF Makes
<1> HIDE DEF Make, N, S
<1>15. Foldable(N, S, AtFirst(w), Make)
  BY <1>1, <1>2, <1>3 DEF Foldable
<1>16. PICK f : Stepwise(f, N, S, AtFirst(w), Make)
  BY <1>15, Steps
<1>4. f \in [0..N -> S] /\ f[0] = AtFirst(w) /\ \A n \in 1..N : f[n] = Make[n][f[n - 1]]
  BY <1>16 DEF Stepwise
<1>5. \A n \in 1..N : f[n] = Onward(w, f[n - 1], argument[n])
  <2>1. \A n \in 1..N : n - 1 \in 0..N
    BY <1>1
  <2> QED BY <1>3, <1>4, <2>1
<1>6. Is(f)
  <2> DEFINE g == [n \in 0..N |-> IF n = 0 THEN AtFirst(w) ELSE Onward(w, f[n - 1], argument[n])]
  <2>1. \A n \in 0..N : f[n] = g[n]
    BY <1>1, <1>4, <1>5
  <2>2. f = [n \in 0..N |-> f[n]]
    BY <1>4
  <2>3. f = g
    BY <2>1, <2>2
  <2> QED BY <2>3 DEF PrefixFrom, N
<1>7. Prefix(w, argument) = at[N]
  BY DEF Prefix, PrefixFrom, AtFirst, Onward, SpotOf, N
<1>8. Is(at)
  BY <1>6
<1> HIDE DEF at
<1>9. at = [n \in 0..N |-> IF n = 0 THEN AtFirst(w) ELSE Onward(w, at[n - 1], argument[n])]
  BY <1>8 DEF PrefixFrom, N
<1>10. \A n \in 0..N : at[n] = IF n = 0 THEN AtFirst(w) ELSE Onward(w, at[n - 1], argument[n])
  BY <1>9, Zenon
<1>11. at[0] = AtFirst(w)
  BY <1>1, <1>10
<1>12. \A n \in 1..N : at[n] = Onward(w, at[n - 1], argument[n])
  BY <1>1, <1>10
<1>13. \A n \in 0..N : at[n] \in S
  <2>1. \A n \in 1..N : at[n - 1] \in S => at[n] \in S
    BY <1>12, OnwardIs DEF S
  <2>2. at[0] \in S
    BY <1>2, <1>11
  <2> QED BY <1>1, <2>1, <2>2, Within
<1>14. at \in [0..N -> S]
  BY <1>9, <1>13
<1> QED BY <1>1, <1>7, <1>11, <1>12, <1>14 DEF N, S

\* The object in front of the name, and what is under the name.
LEMMA FrontIs ==
    ASSUME NEW w \in Fine, NEW argument \in Names
    PROVE  Prefix(w, argument) \in Spots(w)
<1>1. PICK f : /\ Prefix(w, argument) = f[Len(argument) - 1] /\ Len(argument) - 1 \in Nat
               /\ f \in [0..(Len(argument) - 1) -> Spots(w)]
  BY PrefixIs
<1> DEFINE N == Len(argument) - 1
<1> HIDE DEF N
<1>2. N \in 0..N /\ f \in [0..N -> Spots(w)] /\ Prefix(w, argument) = f[N]
  BY <1>1 DEF N
<1> QED BY <1>2

\* An argument has a last name.
LEMMA NameIs ==
    ASSUME NEW argument \in Names
    PROVE  /\ Last(argument) \in Words /\ <<Last(argument)>> \in Names
           /\ Len(argument) \in Nat \ {0} /\ DOMAIN argument = 1..Len(argument)
<1> DEFINE S == Words
<1>1. argument \in Seq(S) /\ argument # <<>>
  BY DEF Names
<1> HIDE DEF S
<1>2. Len(argument) \in Nat \ {0} /\ DOMAIN argument = 1..Len(argument) /\ Last(argument) \in S
  BY <1>1 DEF Last
<1>3. <<Last(argument)>> \in Seq(S) /\ <<Last(argument)>> # <<>>
  BY <1>2
<1> QED BY <1>2, <1>3 DEF S, Names

\* What get_object_from_argument answers, by its prefix.
LEMMA FindIs ==
    ASSUME NEW w \in Fine, NEW argument \in Names
    PROVE  LET at == Prefix(w, argument)
               item == IF at.first THEN access_object(w, <<Last(argument)>>)
                       ELSE uobject_item(w, at.object, <<Last(argument)>>)
           IN  /\ at.ok => /\ item \in Finds(w)
                           /\ get_object_from_argument(w, argument) =
                              [ok |-> item # NULL, object |-> item]
               /\ ~at.ok => /\ at.object \in Finds(w)
                            /\ get_object_from_argument(w, argument) =
                               [ok |-> FALSE, object |-> at.object]
<1> DEFINE at == Prefix(w, argument)
           item == IF at.first THEN access_object(w, <<Last(argument)>>)
                   ELSE uobject_item(w, at.object, <<Last(argument)>>)
<1>1. at.object \in Finds(w) /\ (at.ok => IsUser(w, at.object))
  BY FrontIs DEF Spots
<1>2. at.ok => item \in Finds(w)
  BY <1>1, AccessIs, ItemIs
<1>3. get_object_from_argument(w, argument) = IF at.ok THEN [ok |-> item # NULL, object |-> item]
                                              ELSE [ok |-> FALSE, object |-> at.object]
  BY DEF get_object_from_argument
<1> QED BY <1>1, <1>2, <1>3

\* What it finds is an object there is.
LEMMA FoundIs ==
    ASSUME NEW w \in Fine, NEW argument \in Names
    PROVE  /\ get_object_from_argument(w, argument).ok
           => get_object_from_argument(w, argument).object \in DOMAIN w.heap
           /\ get_object_from_argument(w, argument).object \in Finds(w)
<1> DEFINE at == Prefix(w, argument)
           item == IF at.first THEN access_object(w, <<Last(argument)>>)
                   ELSE uobject_item(w, at.object, <<Last(argument)>>)
           x == get_object_from_argument(w, argument)
<1>1. /\ at.ok => item \in Finds(w) /\ x = [ok |-> item # NULL, object |-> item]
      /\ ~at.ok => at.object \in Finds(w) /\ x = [ok |-> FALSE, object |-> at.object]
  BY FindIs
<1> DEFINE b == item # NULL
<1>3. at.ok => x = [ok |-> b, object |-> item]
  BY <1>1
<1> HIDE DEF at, item, x, b
<1>4. at.ok => (x.ok <=> b) /\ x.object = item
  BY <1>3
<1>5. ~at.ok => ~x.ok /\ x.object = at.object
  BY <1>1
<1>2. /\ x.ok => x.object \in DOMAIN w.heap
      /\ x.object \in Finds(w)
  BY <1>1, <1>4, <1>5 DEF Finds, b
<1> QED BY <1>2 DEF x
-----------------------------------------------------------------------------
(* What a command makes of a world.                                        *)

Grown(v, w) ==
    /\ w.current = v.current /\ Len(w.heap) >= Len(v.heap)
    /\ \A o \in DOMAIN v.heap :
          /\ w.heap[o].type = v.heap[o].type
          /\ v.heap[o].type # "object" => w.heap[o] = v.heap[o]
          /\ v.heap[o].type = "object" =>
                /\ w.heap[o].parent = v.heap[o].parent /\ w.heap[o].name = v.heap[o].name
                /\ \A key : Has(v.heap[o].items, key) => Has(w.heap[o].items, key)

\* A world with the same objects has lost nothing.
LEMMA GrownSame ==
    ASSUME NEW v \in Fine, NEW w, w.heap = v.heap, w.current = v.current
    PROVE  Grown(v, w)
<1>1. Len(w.heap) >= Len(v.heap)
  BY WorldIs
<1> QED BY <1>1 DEF Grown

\* What has lost nothing twice has lost nothing.
LEMMA GrownOn ==
    ASSUME NEW u \in Fine, NEW v \in Fine, NEW w \in Fine, Grown(u, v), Grown(v, w)
    PROVE  Grown(u, w)
<1>1. /\ Len(u.heap) \in Nat /\ Len(v.heap) \in Nat /\ Len(w.heap) \in Nat
      /\ DOMAIN u.heap = 1..Len(u.heap) /\ DOMAIN v.heap = 1..Len(v.heap)
  BY WorldIs
<1>2. w.current = u.current /\ Len(w.heap) >= Len(u.heap)
      /\ \A o \in DOMAIN u.heap : o \in DOMAIN v.heap
  BY <1>1 DEF Grown
<1>3. ASSUME NEW o \in DOMAIN u.heap
      PROVE  /\ w.heap[o].type = u.heap[o].type
             /\ u.heap[o].type # "object" => w.heap[o] = u.heap[o]
             /\ u.heap[o].type = "object" =>
                   /\ w.heap[o].parent = u.heap[o].parent /\ w.heap[o].name = u.heap[o].name
                   /\ \A key : Has(u.heap[o].items, key) => Has(w.heap[o].items, key)
  <2>1. o \in DOMAIN v.heap
    BY <1>2
  <2> QED BY <2>1 DEF Grown
<1> QED BY <1>2, <1>3 DEF Grown

\* Under these names, every object that was there has what it had, and so
\* have the local variables.
Same(v, w, J) ==
    \A j \in J :
        /\ Has(w.locals, <<j>>) <=> Has(v.locals, <<j>>)
        /\ Has(v.locals, <<j>>) => At(w.locals, <<j>>) = At(v.locals, <<j>>)
        /\ \A o : IsUser(v, o) => uobject_item(w, o, <<j>>) = uobject_item(v, o, <<j>>)

\* An object that can be run stays one.
LEMMA UserStays ==
    ASSUME NEW v \in Fine, NEW w \in Fine, Grown(v, w), NEW o, IsUser(v, o)
    PROVE  IsUser(w, o)
<1>1. DOMAIN v.heap = 1..Len(v.heap) /\ DOMAIN w.heap = 1..Len(w.heap) /\ Len(v.heap) \in Nat
      /\ Len(w.heap) \in Nat
  BY WorldIs
<1> QED BY <1>1 DEF IsUser, Grown

\* Names that stay the same twice stay the same.
LEMMA SameOn ==
    ASSUME NEW u \in Fine, NEW v \in Fine, Grown(u, v), NEW w, NEW J, Same(u, v, J), Same(v, w, J)
    PROVE  Same(u, w, J)
<1>1. \A o : IsUser(u, o) => IsUser(v, o)
  BY UserStays
<1> QED BY <1>1, Zenon DEF Same

\* With the same objects and locals every name stays the same.
LEMMA AllSame ==
    ASSUME NEW v, NEW w, w.heap = v.heap, w.locals = v.locals, NEW J
    PROVE  Same(v, w, J)
BY DEF Same, uobject_item

\* An object may join the heap.
Joins(w, x) ==
    /\ x \in Objects
    /\ x.type = "object" => /\ IsUser(w, x.parent)
                            /\ x.items \in Pairs(Names, 1..(Len(w.heap) + 1))

\* A table of items up to m is one of items up to any n behind it.
LEMMA PairsUpTo ==
    ASSUME NEW K, NEW m \in Nat, NEW n \in Nat, m <= n, NEW t \in Pairs(K, 1..m)
    PROVE  t \in Pairs(K, 1..n)
<1>1. \A k \in DOMAIN t : t[k][2] \in 1..m
  BY PairIs
<1>2. \A k \in DOMAIN t : t[k][2] \in 1..n
  BY <1>1
<1> QED BY <1>2, PairsIn

\* A new object leaves the world sound and what was there as it was.
LEMMA MadeIs ==
    ASSUME NEW w \in Fine, w.ok, NEW x, Joins(w, x)
    PROVE  /\ Made(w, x) \in Fine /\ Grown(w, Made(w, x)) /\ Made(w, x).ok
           /\ Made(w, x).locals = w.locals /\ Made(w, x).current = w.current
           /\ Made(w, x).heap = Append(w.heap, x) /\ Len(Made(w, x).heap) = New(w)
           /\ New(w) \in DOMAIN Made(w, x).heap /\ Made(w, x).heap[New(w)] = x
           /\ \A o \in DOMAIN w.heap : o # New(w) /\ Made(w, x).heap[o] = w.heap[o]
           /\ \A J : Same(w, Made(w, x), J)
<1> DEFINE u == Made(w, x)
           O == Objects
           h == w.heap
           N == Len(h)
<1>1. w \in Worlds /\ h \in Seq(O) /\ N \in Nat /\ DOMAIN h = 1..N /\ x \in O
  BY WorldIs DEF Joins
<1>2. u = [w EXCEPT !.heap = Append(@, x)]
  BY DEF Made
<1>3. Append(h, x) \in Seq(O) /\ Len(Append(h, x)) = N + 1 /\ Append(h, x)[N + 1] = x
      /\ \A o \in 1..N : Append(h, x)[o] = h[o]
  <2> HIDE DEF O, N, h
  <2>1. h \in Seq(O) /\ x \in O
    BY <1>1
  <2> QED BY <2>1, <1>1 DEF N
<1>4. u.heap = Append(h, x) /\ u.locals = w.locals /\ u.current = w.current /\ u.ok = w.ok
      /\ u \in Worlds
  <2> HIDE DEF O, N
  <2>1. w \in [heap : Seq(O), locals : Pairs(Names, Nat), current : Nat, ok : BOOLEAN]
    BY <1>1 DEF Worlds, O
  <2>2. u \in [heap : Seq(O), locals : Pairs(Names, Nat), current : Nat, ok : BOOLEAN]
    BY <2>1, <1>2, <1>3
  <2> HIDE DEF h
  <2> QED BY <2>1, <2>2, <1>2 DEF Worlds, O, h
<1> HIDE DEF u
<1>5. DOMAIN u.heap = 1..(N + 1)
  <2> HIDE DEF O, N, h
  <2> QED BY <1>3, <1>4
<1>6. \A o \in DOMAIN h : u.heap[o] = h[o] /\ o # N + 1 /\ o \in DOMAIN u.heap
  BY <1>1, <1>3, <1>4, <1>5
<1>7. u.heap[N + 1] = x
  BY <1>3, <1>4
<1>8. Grown(w, u)
  <2>1. Len(u.heap) >= N
    BY <1>1, <1>3, <1>4
  <2> QED BY <2>1, <1>4, <1>6 DEF Grown
<1>9. \A o : IsUser(w, o) => IsUser(u, o)
  BY <1>6 DEF IsUser
<1>10. u \in Fine
  <2>1. IsUser(u, Root) /\ IsUser(u, u.current) /\ Native \in DOMAIN u.heap
    BY <1>4, <1>6, <1>9, WorldIs
  <2>2. \A t : t \in Pairs(Names, DOMAIN h) => t \in Pairs(Names, DOMAIN u.heap)
    BY <1>1, <1>5, PairsUpTo
  <2>3. u.locals \in Pairs(Names, DOMAIN u.heap)
    BY <1>4, <2>2, WorldIs
  <2>4. ASSUME NEW o \in DOMAIN u.heap, u.heap[o].type = "object"
        PROVE  /\ IsUser(u, u.heap[o].parent) /\ (o # Root => u.heap[o].parent < o)
               /\ u.heap[o].items \in Pairs(Names, DOMAIN u.heap)
    <3>1. CASE o \in DOMAIN h
      <4>1. u.heap[o] = h[o] /\ IsUser(w, o)
        BY <1>6, <2>4, <3>1 DEF IsUser
      <4> QED BY <4>1, <1>9, <2>2, UsersAre
    <3>2. CASE o = N + 1
      <4>1. u.heap[o] = x /\ x.type = "object" /\ IsUser(w, x.parent)
            /\ x.items \in Pairs(Names, DOMAIN u.heap)
        BY <1>5, <1>7, <2>4, <3>2 DEF Joins
      <4>2. x.parent \in 1..N
        BY <1>1, <4>1 DEF IsUser
      <4>3. x.parent < o
        BY <1>1, <3>2, <4>2
      <4> QED BY <4>1, <4>3, <1>9
    <3> QED BY <1>1, <1>5, <3>1, <3>2
  <2> QED BY <1>4, <2>1, <2>3, <2>4, IsFine
<1>11. \A J : Same(w, u, J)
  BY <1>4, <1>6 DEF Same, uobject_item, IsUser
<1> QED BY <1>1, <1>3, <1>4, <1>5, <1>6, <1>7, <1>8, <1>10, <1>11 DEF u, New

\* One user object gets other items.
LEMMA PutItemIs ==
    ASSUME NEW w \in Fine, NEW o, IsUser(w, o), NEW key \in Names, NEW x \in DOMAIN w.heap
    PROVE  /\ PutItem(w, o, key, x) \in Fine /\ Grown(w, PutItem(w, o, key, x))
           /\ PutItem(w, o, key, x).ok = w.ok /\ PutItem(w, o, key, x).current = w.current
           /\ PutItem(w, o, key, x).locals = w.locals
           /\ DOMAIN PutItem(w, o, key, x).heap = DOMAIN w.heap
           /\ Len(PutItem(w, o, key, x).heap) = Len(w.heap)
           /\ \A p \in DOMAIN w.heap : p # o => PutItem(w, o, key, x).heap[p] = w.heap[p]
           /\ uobject_item(PutItem(w, o, key, x), o, key) = x
           /\ \A p, k : IsUser(w, p) /\ (p # o \/ k # key) =>
                  uobject_item(PutItem(w, o, key, x), p, k) = uobject_item(w, p, k)
<1> DEFINE u == PutItem(w, o, key, x)
           O == Objects
           h == w.heap
           N == Len(h)
           U == DOMAIN h
           t == Put(h[o].items, key, x)
           y == [h[o] EXCEPT !.items = t]
<1>1. w \in Worlds /\ h \in Seq(O) /\ N \in Nat /\ U = 1..N
  BY WorldIs
<1>2. /\ o \in 1..N /\ o \in Nat /\ h[o] \in UserObjects /\ h[o].items \in Pairs(Names, U)
      /\ h[o].items \in Pairs(Names, Nat)
  BY UsersAre, UserIs
<1>3. /\ t \in Pairs(Names, U) /\ Has(t, key) /\ At(t, key) = x
      /\ \A k : k # key => /\ Has(t, k) <=> Has(h[o].items, k)
                           /\ Has(h[o].items, k) => At(t, k) = At(h[o].items, k)
  <2> HIDE DEF U
  <2> QED BY <1>2, PutIs DEF U
<1>4. t \in Pairs(Names, Nat)
  <2>1. \A n \in DOMAIN t : t[n][2] \in U
    BY <1>3, PairIs
  <2>2. \A n \in DOMAIN t : t[n][2] \in Nat
    BY <1>1, <2>1
  <2> QED BY <1>3, <2>2, PairsIn
<1> HIDE DEF t
<1>5. y \in UserObjects /\ y.items = t /\ y.type = h[o].type /\ y.name = h[o].name
      /\ y.parent = h[o].parent
  <2> DEFINE z == h[o]
  <2>1. z \in [type : {"object"}, name : Names, parent : Nat, items : Pairs(Names, Nat)]
    BY <1>2 DEF UserObjects
  <2> HIDE DEF z
  <2>2. [z EXCEPT !.items = t] \in [type : {"object"}, name : Names, parent : Nat,
                                    items : Pairs(Names, Nat)]
    BY <2>1, <1>4
  <2>3. LET v == [z EXCEPT !.items = t]
        IN  v.items = t /\ v.type = z.type /\ v.name = z.name /\ v.parent = z.parent
    BY <2>1
  <2> QED BY <2>2, <2>3 DEF z, UserObjects
<1>6. y \in O
  BY <1>5, UserIs
<1> HIDE DEF y
<1>7. u = [w EXCEPT !.heap = [h EXCEPT ![o] = y]]
  BY DEF PutItem, y, t
<1> DEFINE g == [h EXCEPT ![o] = y]
<1>8. /\ g \in Seq(O) /\ Len(g) = N /\ DOMAIN g = 1..N /\ g[o] = y
      /\ \A p \in 1..N : p # o => g[p] = h[p]
  <2> HIDE DEF O, N, h
  <2>1. h \in Seq(O) /\ y \in O /\ o \in 1..Len(h)
    BY <1>1, <1>2, <1>6 DEF N
  <2>2. g \in Seq(O) /\ Len(g) = Len(h)
    BY <2>1
  <2>3. DOMAIN g = 1..Len(h) /\ g[o] = y /\ \A p \in 1..Len(h) : p # o => g[p] = h[p]
    BY <2>1
  <2> QED BY <2>2, <2>3 DEF N
<1> HIDE DEF g
<1>9. u.heap = g /\ u.locals = w.locals /\ u.current = w.current /\ u.ok = w.ok /\ u \in Worlds
  <2> HIDE DEF O
  <2>1. w \in [heap : Seq(O), locals : Pairs(Names, Nat), current : Nat, ok : BOOLEAN]
    BY <1>1 DEF Worlds, O
  <2>2. u = [w EXCEPT !.heap = g]
    BY <1>7 DEF g
  <2> HIDE DEF u, h
  <2>3. u \in [heap : Seq(O), locals : Pairs(Names, Nat), current : Nat, ok : BOOLEAN]
    BY <2>1, <2>2, <1>8
  <2>4. u.heap = g /\ u.locals = w.locals /\ u.current = w.current /\ u.ok = w.ok
    BY <2>1, <2>2
  <2> QED BY <2>3, <2>4 DEF Worlds, O
<1> HIDE DEF u
<1>10. \A p \in U : p # o => u.heap[p] = h[p]
  BY <1>1, <1>8, <1>9
<1>11. u.heap[o] = y /\ DOMAIN u.heap = U /\ Len(u.heap) = N
  BY <1>1, <1>8, <1>9
<1>12. \A p : IsUser(w, p) <=> IsUser(u, p)
  BY <1>5, <1>10, <1>11 DEF IsUser
<1>13. Grown(w, u)
  <2>1. ASSUME NEW p \in U
        PROVE  /\ u.heap[p].type = h[p].type
               /\ h[p].type # "object" => u.heap[p] = h[p]
               /\ h[p].type = "object" =>
                     /\ u.heap[p].parent = h[p].parent /\ u.heap[p].name = h[p].name
                     /\ \A k : Has(h[p].items, k) => Has(u.heap[p].items, k)
    <3>1. CASE p # o
      BY <3>1, <1>10
    <3>2. CASE p = o
      <4>1. h[p].type = "object"
        BY <3>2, <1>2, UserIs
      <4>2. \A k : Has(h[o].items, k) => Has(t, k)
        BY <1>3
      <4> QED BY <3>2, <4>1, <4>2, <1>5, <1>11
    <3> QED BY <3>1, <3>2
  <2>2. Len(u.heap) >= N
    BY <1>1, <1>11
  <2> QED BY <2>1, <2>2, <1>9 DEF Grown
<1>14. u \in Fine
  <2>1. IsUser(u, Root) /\ IsUser(u, u.current) /\ Native \in DOMAIN u.heap
    BY <1>9, <1>11, <1>12, WorldIs
  <2>2. u.locals \in Pairs(Names, DOMAIN u.heap)
    BY <1>9, <1>11, WorldIs
  <2>3. ASSUME NEW p \in DOMAIN u.heap, u.heap[p].type = "object"
        PROVE  /\ IsUser(u, u.heap[p].parent) /\ (p # Root => u.heap[p].parent < p)
               /\ u.heap[p].items \in Pairs(Names, DOMAIN u.heap)
    <3>1. IsUser(w, p)
      BY <1>12, <2>3 DEF IsUser
    <3>2. IsUser(w, h[p].parent) /\ (p # Root => h[p].parent < p) /\ h[p].items \in Pairs(Names, U)
      BY <3>1, UsersAre
    <3>3. CASE p # o
      BY <1>10, <1>11, <1>12, <2>3, <3>2, <3>3
    <3>4. CASE p = o
      BY <1>3, <1>5, <1>11, <1>12, <3>2, <3>4
    <3> QED BY <3>3, <3>4
  <2> QED BY <1>9, <2>1, <2>2, <2>3, IsFine
<1>15. uobject_item(u, o, key) = x
  BY <1>3, <1>5, <1>11 DEF uobject_item
<1>16. ASSUME NEW p, NEW k, IsUser(w, p), p # o \/ k # key
       PROVE  uobject_item(u, p, k) = uobject_item(w, p, k)
  <2>1. p \in U
    BY <1>16 DEF IsUser
  <2>2. CASE p # o
    BY <1>10, <2>1, <2>2 DEF uobject_item
  <2>3. CASE p = o /\ k # key
    BY <1>3, <1>5, <1>11, <2>3 DEF uobject_item
  <2> QED BY <1>16, <2>2, <2>3
<1> QED BY <1>9, <1>10, <1>11, <1>13, <1>14, <1>15, <1>16 DEF u

\* So does a new local variable, which is then found.
LEMMA PutLocalIs ==
    ASSUME NEW w \in Fine, NEW key \in Names, NEW x \in DOMAIN w.heap
    PROVE  /\ PutLocal(w, key, x) \in Fine /\ Grown(w, PutLocal(w, key, x))
           /\ PutLocal(w, key, x).ok = w.ok /\ PutLocal(w, key, x).current = w.current
           /\ PutLocal(w, key, x).heap = w.heap
           /\ Has(PutLocal(w, key, x).locals, key) /\ At(PutLocal(w, key, x).locals, key) = x
           /\ \A k : k # key => /\ Has(PutLocal(w, key, x).locals, k) <=> Has(w.locals, k)
                                /\ Has(w.locals, k)
                                   => At(PutLocal(w, key, x).locals, k) = At(w.locals, k)
<1> DEFINE u == PutLocal(w, key, x)
           t == Put(w.locals, key, x)
           U == DOMAIN w.heap
<1>1. /\ w \in Worlds /\ w.locals \in Pairs(Names, U) /\ U = 1..Len(w.heap) /\ Len(w.heap) \in Nat
  BY WorldIs
<1>2. /\ t \in Pairs(Names, U) /\ Has(t, key) /\ At(t, key) = x
      /\ \A k : k # key => /\ Has(t, k) <=> Has(w.locals, k)
                           /\ Has(w.locals, k) => At(t, k) = At(w.locals, k)
  <2> HIDE DEF U
  <2> QED BY <1>1, PutIs DEF U
<1>3. t \in Pairs(Names, Nat)
  <2>1. \A n \in DOMAIN t : t[n][2] \in U
    BY <1>2, PairIs
  <2>2. \A n \in DOMAIN t : t[n][2] \in Nat
    BY <1>1, <2>1
  <2> QED BY <1>2, <2>2, PairsIn
<1>4. u = [w EXCEPT !.locals = t]
  BY DEF PutLocal
<1> HIDE DEF t
<1>5. u.heap = w.heap /\ u.locals = t /\ u.current = w.current /\ u.ok = w.ok /\ u \in Worlds
  <2> HIDE DEF u
  <2>1. w \in [heap : Seq(Objects), locals : Pairs(Names, Nat), current : Nat, ok : BOOLEAN]
    BY <1>1 DEF Worlds
  <2> DEFINE O == Objects
  <2>2. w \in [heap : Seq(O), locals : Pairs(Names, Nat), current : Nat, ok : BOOLEAN]
    BY <2>1
  <2> HIDE DEF O
  <2>3. u \in [heap : Seq(O), locals : Pairs(Names, Nat), current : Nat, ok : BOOLEAN]
    BY <2>2, <1>3, <1>4
  <2>4. u.heap = w.heap /\ u.locals = t /\ u.current = w.current /\ u.ok = w.ok
    BY <2>2, <1>4
  <2> QED BY <2>3, <2>4 DEF Worlds, O
<1> HIDE DEF u
<1>6. Grown(w, u)
  BY <1>5, GrownSame
<1>7. \A p : IsUser(w, p) <=> IsUser(u, p)
  BY <1>5 DEF IsUser
<1>8. u \in Fine
  <2>1. IsUser(u, Root) /\ IsUser(u, u.current) /\ Native \in DOMAIN u.heap
        /\ u.locals \in Pairs(Names, DOMAIN u.heap)
    BY <1>2, <1>5, <1>7, WorldIs
  <2>2. ASSUME NEW p \in DOMAIN u.heap, u.heap[p].type = "object"
        PROVE  /\ IsUser(u, u.heap[p].parent) /\ (p # Root => u.heap[p].parent < p)
               /\ u.heap[p].items \in Pairs(Names, DOMAIN u.heap)
    <3>1. IsUser(w, p)
      BY <1>7, <2>2 DEF IsUser
    <3> QED BY <3>1, <1>5, <1>7, UsersAre
  <2> QED BY <1>5, <2>1, <2>2, IsFine
<1> QED BY <1>2, <1>5, <1>6, <1>8 DEF u

\* So does a command that fails.
LEMMA FailsIs ==
    ASSUME NEW w \in Fine
    PROVE  /\ Fails(w) \in Fine /\ Grown(w, Fails(w)) /\ ~Fails(w).ok /\ Fails(w).heap = w.heap
           /\ Fails(w).locals = w.locals /\ Fails(w).current = w.current
<1> DEFINE u == Fails(w)
           O == Objects
<1>1. w \in [heap : Seq(O), locals : Pairs(Names, Nat), current : Nat, ok : BOOLEAN]
  BY WorldIs DEF Worlds
<1>2. u = [w EXCEPT !.ok = FALSE]
  BY DEF Fails
<1> HIDE DEF u, O
<1>3. u \in [heap : Seq(O), locals : Pairs(Names, Nat), current : Nat, ok : BOOLEAN]
  BY <1>1, <1>2
<1>4. u.heap = w.heap /\ u.locals = w.locals /\ u.current = w.current /\ ~u.ok
  BY <1>1, <1>2
<1>5. u \in Worlds
  BY <1>3 DEF Worlds, O
<1>6. Sound(u)
  <2>1. Sound(w)
    BY WorldIs
  <2> QED BY <2>1, <1>4 DEF Sound, IsUser
<1> QED BY <1>4, <1>5, <1>6, GrownSame DEF u, Fine

\* A word is a name.
LEMMA ShortName == ASSUME NEW s \in Words PROVE <<s>> \in Names
<1> DEFINE S == Words
<1>1. s \in S
  OBVIOUS
<1> HIDE DEF S
<1>2. <<s>> \in Seq(S) /\ <<s>> # <<>>
  BY <1>1
<1> QED BY <1>2 DEF Names, S

\* What uobject_init puts into an object is a table.
LEMMA InitialIs ==
    ASSUME NEW U, NEW self \in U, NEW parent \in U, Root \in U, Native \in U
    PROVE  InitialItems(self, parent) \in Pairs(Names, U)
<1> DEFINE P == Names \X U
           t == InitialItems(self, parent)
<1>1. /\ <<"show">> \in Names /\ <<"parent">> \in Names /\ <<"root">> \in Names
      /\ <<"self">> \in Names /\ <<"run">> \in Names
  <2>1. /\ "show" \in Words /\ "parent" \in Words /\ "root" \in Words
        /\ "self" \in Words /\ "run" \in Words
    BY DEF Words
  <2> QED BY <2>1, ShortName
<1>2. /\ <<<<"show">>, Native>> \in P /\ <<<<"parent">>, parent>> \in P
      /\ <<<<"root">>, Root>> \in P
      /\ <<<<"self">>, self>> \in P /\ <<<<"run">>, Native>> \in P
  BY <1>1
<1>3. t \in Seq(P)
  <2> HIDE DEF P
  <2> QED BY <1>2 DEF InitialItems
<1>4. DOMAIN t = 1..5
  BY DEF InitialItems
<1>5. /\ t[1][1] = <<"show">> /\ t[2][1] = <<"parent">> /\ t[3][1] = <<"root">>
      /\ t[4][1] = <<"self">> /\ t[5][1] = <<"run">>
  BY DEF InitialItems
<1>6. /\ t[1][1][1] = "show" /\ t[2][1][1] = "parent" /\ t[3][1][1] = "root"
      /\ t[4][1][1] = "self" /\ t[5][1][1] = "run"
  BY <1>5
<1> HIDE DEF t
<1>7. \A n \in DOMAIN t : n = 1 \/ n = 2 \/ n = 3 \/ n = 4 \/ n = 5
  BY <1>4
<1>8. KeysOnce(t)
  <2> SUFFICES ASSUME NEW m \in DOMAIN t, NEW n \in DOMAIN t, t[m][1] = t[n][1] PROVE m = n
    BY DEF KeysOnce
  <2> DEFINE first(k) == t[k][1][1]
  <2>1. first(m) = first(n)
    OBVIOUS
  <2>2. first(1) = "show" /\ first(2) = "parent" /\ first(3) = "root" /\ first(4) = "self"
        /\ first(5) = "run"
    BY <1>6
  <2> HIDE DEF first
  <2>3. CASE m = 1
    BY <1>7, <2>1, <2>2, <2>3, Zenon
  <2>4. CASE m = 2
    BY <1>7, <2>1, <2>2, <2>4, Zenon
  <2>5. CASE m = 3
    BY <1>7, <2>1, <2>2, <2>5, Zenon
  <2>6. CASE m = 4
    BY <1>7, <2>1, <2>2, <2>6, Zenon
  <2>7. CASE m = 5
    BY <1>7, <2>1, <2>2, <2>7, Zenon
  <2> QED BY <1>7, <2>3, <2>4, <2>5, <2>6, <2>7
<1> QED BY <1>3, <1>8 DEF Pairs, t

\* So an object of the current object can join the world.
LEMMA UserObjectIs ==
    ASSUME NEW w \in Fine, NEW name \in Names
    PROVE  Joins(w, UserObject(New(w), w.current, name))
           /\ UserObject(New(w), w.current, name).type = "object"
<1> DEFINE N == Len(w.heap)
           U == 1..(N + 1)
           c == w.current
           t == InitialItems(New(w), c)
           x == UserObject(New(w), c, name)
<1>1. N \in Nat /\ IsUser(w, c) /\ c \in Nat /\ c \in 1..N /\ Root \in 1..N /\ Native \in 1..N
      /\ New(w) \in U
  BY WorldIs DEF IsUser, New
<1>2. t \in Pairs(Names, U)
  <2>1. c \in U /\ Root \in U /\ Native \in U /\ New(w) \in U
    BY <1>1
  <2> HIDE DEF U, c
  <2> QED BY <2>1, InitialIs
<1>3. t \in Pairs(Names, Nat)
  <2>1. \A n \in DOMAIN t : t[n][2] \in U
    BY <1>2, PairIs
  <2>2. \A n \in DOMAIN t : t[n][2] \in Nat
    BY <1>1, <2>1
  <2> QED BY <1>2, <2>2, PairsIn
<1>4. x = [type |-> "object", name |-> name, parent |-> c, items |-> t]
  BY DEF UserObject
<1> HIDE DEF t, c, x
<1>5. x \in UserObjects /\ x.type = "object" /\ x.parent = c /\ x.items = t
  BY <1>1, <1>3, <1>4 DEF UserObjects
<1> QED BY <1>1, <1>2, <1>5, UserIs DEF Joins, x, c

\* A name is put where it was looked up.
Bound(v, w, argument, object, local) ==
    /\ v.ok
    /\ \/ local /\ w = PutLocal(v, argument, object)
       \/ /\ ~local /\ Prefix(v, argument).ok
          /\ w = PutItem(v, Prefix(v, argument).object, <<Last(argument)>>, object)

\* Binding an argument leaves the world sound and loses nothing; when it succeeds it has
\* put the object where the argument says.
LEMMA BindIs ==
    ASSUME NEW w \in Fine, NEW argument \in Names, NEW object, w.ok => object \in DOMAIN w.heap,
           NEW local \in BOOLEAN
    PROVE  /\ Bind(w, argument, object, local) \in Fine
           /\ Grown(w, Bind(w, argument, object, local))
           /\ Len(Bind(w, argument, object, local).heap) = Len(w.heap)
           /\ Bind(w, argument, object, local).current = w.current
           /\ Bind(w, argument, object, local).ok
              => Bound(w, Bind(w, argument, object, local), argument, object, local)
<1> DEFINE at == Prefix(w, argument)
           b == Bind(w, argument, object, local)
           good(u) == /\ u \in Fine /\ Grown(w, u) /\ Len(u.heap) = Len(w.heap)
             /\ u.current = w.current
                      /\ u.ok => Bound(w, u, argument, object, local)
<1>1. b = IF ~w.ok THEN w ELSE IF local THEN PutLocal(w, argument, object)
          ELSE IF at.ok THEN PutItem(w, at.object, <<Last(argument)>>, object) ELSE Fails(w)
  BY DEF Bind, get_object_prefix_and_name_from_argument
<1>2. CASE ~w.ok
  BY <1>1, <1>2, GrownSame
<1>3. CASE w.ok /\ local
  <2>1. b = PutLocal(w, argument, object) /\ Bound(w, b, argument, object, local)
    BY <1>1, <1>3 DEF Bound
  <2> HIDE DEF b
  <2>2. b \in Fine /\ Grown(w, b) /\ b.heap = w.heap /\ b.current = w.current
    BY <1>3, <2>1, PutLocalIs
  <2> QED BY <2>1, <2>2 DEF b
<1>4. CASE w.ok /\ ~local /\ at.ok
  <2>1. IsUser(w, at.object) /\ <<Last(argument)>> \in Names
    BY <1>4, FrontIs, NameIs DEF Spots
  <2>2. b = PutItem(w, at.object, <<Last(argument)>>, object)
        /\ Bound(w, b, argument, object, local)
    BY <1>1, <1>4 DEF Bound
  <2> DEFINE o == at.object
             key == <<Last(argument)>>
  <2>3. IsUser(w, o) /\ key \in Names /\ b = PutItem(w, o, key, object) /\ object \in DOMAIN w.heap
    BY <1>4, <2>1, <2>2
  <2> HIDE DEF o, key, b
  <2>4. b \in Fine /\ Grown(w, b) /\ Len(b.heap) = Len(w.heap) /\ b.current = w.current
    BY <2>3, PutItemIs
  <2> QED BY <2>2, <2>4 DEF b
<1>5. CASE w.ok /\ ~local /\ ~at.ok
  BY <1>1, <1>5, FailsIs
<1> QED BY <1>2, <1>3, <1>4, <1>5

\* So does binding it to a new object, which is the last one then.
LEMMA BindNewIs ==
    ASSUME NEW w \in Fine, NEW argument \in Names, NEW x, Joins(w, x), NEW local \in BOOLEAN
    PROVE  /\ BindNew(w, argument, x, local) \in Fine /\ Grown(w, BindNew(w, argument, x, local))
           /\ BindNew(w, argument, x, local).current = w.current
           /\ BindNew(w, argument, x, local).ok =>
                 /\ w.ok /\ Len(BindNew(w, argument, x, local).heap) = New(w)
                 /\ Bound(Made(w, x), BindNew(w, argument, x, local), argument, New(w), local)
           /\ ~w.ok => BindNew(w, argument, x, local) = w
<1> DEFINE m == Made(w, x)
           b == BindNew(w, argument, x, local)
<1>1. b = Bind(m, argument, New(w), local)
  BY DEF BindNew
<1>2. CASE ~w.ok
  <2>1. m = w
    BY <1>2 DEF Made
  <2>2. b = w
    BY <1>1, <1>2, <2>1 DEF Bind
  <2> QED BY <1>2, <2>2, GrownSame
<1>3. CASE w.ok
  <2>1. /\ m \in Fine /\ Grown(w, m) /\ m.ok /\ New(w) \in DOMAIN m.heap /\ m.current = w.current
        /\ Len(m.heap) = New(w)
    BY <1>3, MadeIs
  <2> HIDE DEF m, b
  <2>2. /\ b \in Fine /\ Grown(m, b) /\ Len(b.heap) = Len(m.heap) /\ b.current = m.current
        /\ b.ok => Bound(m, b, argument, New(w), local)
    BY <1>1, <2>1, BindIs
  <2>3. Grown(w, b)
    BY <2>1, <2>2, GrownOn
  <2> QED BY <1>3, <2>1, <2>2, <2>3 DEF m, b
<1> QED BY <1>2, <1>3

\* The values that join the heap whatever is in it.
LEMMA ValueJoins ==
    ASSUME NEW w
    PROVE  /\ \A l \in ALine : Joins(w, [type |-> "var", value |-> l])
           /\ \A s \in Seq(ALine) : Joins(w, [type |-> "array", value |-> s])
           /\ \A t \in Pairs(ALine, ALine) : Joins(w, [type |-> "hash", value |-> t])
           /\ \A s \in Texts : /\ Joins(w, [type |-> "function", value |-> s])
                               /\ Joins(w, [type |-> "class", value |-> s])
                               /\ Joins(w, [type |-> "alias", value |-> s])
<1>1. ASSUME NEW l \in ALine PROVE Joins(w, [type |-> "var", value |-> l])
  <2> DEFINE x == [type |-> "var", value |-> l]
  <2>1. x \in [type : {"var"}, value : ALine] /\ x.type = "var"
    OBVIOUS
  <2> QED BY <2>1, Zenon DEF Joins, Objects
<1>2. ASSUME NEW l \in Seq(ALine) PROVE Joins(w, [type |-> "array", value |-> l])
  <2> DEFINE x == [type |-> "array", value |-> l]
  <2>1. x \in [type : {"array"}, value : Seq(ALine)] /\ x.type = "array"
    OBVIOUS
  <2> QED BY <2>1, Zenon DEF Joins, Objects
<1>3. ASSUME NEW l \in Pairs(ALine, ALine) PROVE Joins(w, [type |-> "hash", value |-> l])
  <2> DEFINE x == [type |-> "hash", value |-> l]
  <2>1. x \in [type : {"hash"}, value : Pairs(ALine, ALine)] /\ x.type = "hash"
    OBVIOUS
  <2> QED BY <2>1, Zenon DEF Joins, Objects
<1>4. ASSUME NEW l \in Texts, NEW k \in {"function", "class", "alias"}
             PROVE Joins(w, [type |-> k, value |-> l])
  <2> DEFINE x == [type |-> k, value |-> l]
  <2>1. x \in [type : {"function", "class", "alias"}, value : Texts] /\ x.type = k /\ k # "object"
    OBVIOUS
  <2> QED BY <2>1, Zenon DEF Joins, Objects
<1> QED BY <1>1, <1>2, <1>3, <1>4
-----------------------------------------------------------------------------
(* Texts.                                                                  *)

\* A function on 1..N is a sequence.
LEMMA SequenceOf ==
    ASSUME NEW S, NEW N \in Nat, NEW f, f = [n \in 1..N |-> f[n]], \A n \in 1..N : f[n] \in S
    PROVE  f \in Seq(S) /\ Len(f) = N /\ DOMAIN f = 1..N
<1>1. f \in [1..N -> S]
  OBVIOUS
<1>2. f \in Seq(S)
  BY <1>1
<1>3. DOMAIN f = 1..N
  BY <1>1
<1> QED BY <1>2, <1>3

\* A line ends with a line end, and is text.
LEMMA LineIs ==
    ASSUME NEW s, s \in Texts \/ s \in ALine
    PROVE  Line(s) \in Texts /\ s \in Texts /\ Len(Line(s)) = Len(s) + 1 /\ Line(s) # <<>>
<1>1. s \in Texts
  <2> DEFINE W == Words
             V == Words \ {End}
  <2>1. ASSUME s \in Seq(V) PROVE s \in Seq(W)
    <3>1. \A x \in V : x \in W
      OBVIOUS
    <3> HIDE DEF V, W
    <3> QED BY <2>1, <3>1
  <2> QED BY <2>1 DEF Texts, ALine
<1> DEFINE W == Words
           e == End
<1>2. s \in Seq(W) /\ e \in W
  BY <1>1, Zenon DEF Texts, Words
<1> HIDE DEF W, e
<1>3. Append(s, e) \in Seq(W) /\ Len(Append(s, e)) = Len(s) + 1 /\ Append(s, e) # <<>>
  <2>1. Append(s, e) \in Seq(W) /\ Len(Append(s, e)) = Len(s) + 1 /\ Len(s) \in Nat
    BY <1>2
  <2> DEFINE t == Append(s, e)
  <2>2. t \in Seq(W) /\ Len(t) = Len(s) + 1 /\ Len(s) \in Nat
    BY <2>1
  <2> HIDE DEF t
  <2>3. t # <<>>
    BY <2>2
  <2> QED BY <2>1, <2>3 DEF t
<1> QED BY <1>1, <1>3 DEF Line, Texts, W, e

\* Texts one behind the other.
LEMMA FlatIs ==
    ASSUME NEW S, NEW q \in Seq(Seq(S))
    PROVE  \E f \in [0..Len(q) -> Seq(S)] :
               /\ f[0] = <<>> /\ \A n \in 1..Len(q) : f[n] = f[n - 1] \o q[n]
               /\ FlattenSeq(q) = f[Len(q)]
<1> DEFINE T == Seq(S)
           N == Len(q)
           Make == [n \in 1..N |-> [x \in T |-> x \o q[n]]]
<1>1. q \in Seq(T) /\ N \in Nat /\ <<>> \in T
  OBVIOUS
<1>2. \A n \in 1..N : q[n] \in T
  BY <1>1
<1>3. \A x \in T, y \in T : x \o y \in T
  OBVIOUS
<1> HIDE DEF T
<1>4. Make \in Makes(N, T) /\ \A n \in 1..N, x \in T : Make[n][x] = x \o q[n]
  <2> HIDE DEF N
  <2> QED BY <1>2, <1>3 DEF Makes
<1> HIDE DEF Make, N
<1> DEFINE e == <<>>
<1>0. e \in T
  BY <1>1
<1> HIDE DEF e
<1>15. Foldable(N, T, e, Make)
  BY <1>0, <1>1, <1>4 DEF Foldable
<1>16. PICK f : Stepwise(f, N, T, e, Make)
  BY <1>15, Steps
<1>5. f \in [0..N -> T] /\ f[0] = e /\ \A n \in 1..N : f[n] = Make[n][f[n - 1]]
  BY <1>16 DEF Stepwise
<1>6. \A n \in 1..N : f[n] = f[n - 1] \o q[n]
  <2>1. \A n \in 1..N : n - 1 \in 0..N
    BY <1>1
  <2> QED BY <1>4, <1>5, <2>1
<1>7. FlattenSeq(q) = f[N]
  <2>1. CASE N = 0
    <3>1. FlattenSeq(q) = q /\ q = <<>>
      BY <1>1, <2>1 DEF FlattenSeq, N
    <3> QED BY <1>5, <2>1, <3>1 DEF e
  <2>2. CASE N # 0
    <3> DEFINE Is(g) == g = [i \in 1..N |-> IF i = 1 THEN q[i] ELSE g[i - 1] \o q[i]]
               c == CHOOSE g : Is(g)
               h == [i \in 1..N |-> f[i]]
    <3>1. f[1] = q[1]
      <4>0. 1 \in 1..N /\ 1 - 1 = 0
        BY <1>1, <2>2
      <4>1. 1 \in 1..N /\ f[1] = f[0] \o q[1]
        BY <1>6, <4>0
      <4>2. q[1] \in T
        BY <1>2, <4>1
      <4>3. <<>> \o q[1] = q[1]
        BY <4>2 DEF T
      <4> QED BY <1>5, <4>1, <4>3 DEF e
    <3>2. Is(h)
      <4> DEFINE k == [i \in 1..N |-> IF i = 1 THEN q[i] ELSE h[i - 1] \o q[i]]
      <4>1. ASSUME NEW i \in 1..N PROVE h[i] = k[i]
        <5>1. CASE i = 1
          BY <3>1, <5>1
        <5>2. CASE i # 1
          <6>1. i - 1 \in 1..N /\ h[i - 1] = f[i - 1]
            BY <1>1, <5>2
          <6> QED BY <1>6, <5>2, <6>1
        <5> QED BY <5>1, <5>2
      <4>2. h = k
        BY <4>1
      <4> QED BY <4>2
    <3>3. FlattenSeq(q) = c[N]
      BY <2>2 DEF FlattenSeq, N
    <3>4. Is(c)
      BY <3>2, Zenon
    <3> HIDE DEF c
    <3>5. \A i \in 1..N : c[i] = IF i = 1 THEN q[i] ELSE c[i - 1] \o q[i]
      BY <3>4, Zenon
    <3> DEFINE D == {i \in 0..N : i = 0 \/ c[i] = f[i]}
    <3>6. ASSUME NEW i \in 0..(N - 1), i \in D PROVE i + 1 \in D
      <4>0. i = 0 \/ c[i] = f[i]
        BY <3>6
      <4> HIDE DEF D
      <4>1. i + 1 \in 1..N /\ (i + 1) - 1 = i /\ i \in Nat
        BY <1>1
      <4>2. c[i + 1] = IF i + 1 = 1 THEN q[i + 1] ELSE c[i] \o q[i + 1]
        BY <3>5, <4>1
      <4>3. f[i + 1] = f[i] \o q[i + 1]
        BY <1>6, <4>1
      <4>4. CASE i = 0
        <5>1. i + 1 = 1
          BY <4>4
        <5>2. c[i + 1] = f[i + 1]
          BY <3>1, <4>2, <5>1
        <5> QED BY <4>1, <5>2 DEF D
      <4>5. CASE i # 0
        <5>1. i + 1 # 1
          BY <4>1, <4>5
        <5>2. c[i + 1] = f[i + 1]
          BY <4>0, <4>2, <4>3, <4>5, <5>1
        <5> QED BY <4>1, <5>2 DEF D
      <4> QED BY <4>4, <4>5
    <3>7. 0 \in D
      BY <1>1
    <3> HIDE DEF D
    <3>8. 0..N \subseteq D
      BY <1>1, <3>6, <3>7, Upto
    <3>9. c[N] = f[N]
      <4>1. N \in 0..N
        BY <1>1
      <4>2. N \in D
        BY <3>8, <4>1
      <4> QED BY <2>2, <4>2 DEF D
    <3> QED BY <3>3, <3>9
  <2> QED BY <2>1, <2>2
<1> QED BY <1>5, <1>6, <1>7 DEF N, T, e

\* Sequences end to end are a sequence of the same things.
LEMMA FlatIn ==
    ASSUME NEW S, NEW q \in Seq(Seq(S))
    PROVE  FlattenSeq(q) \in Seq(S)
<1>1. PICK f \in [0..Len(q) -> Seq(S)] : FlattenSeq(q) = f[Len(q)]
  BY FlatIs
<1>2. Len(q) \in 0..Len(q)
  OBVIOUS
<1> QED BY <1>1, <1>2

\* Lines end to end are text.
LEMMA TextIs ==
    ASSUME NEW lines \in Seq(ALine)
    PROVE  /\ Text(lines) \in Texts
           /\ [n \in DOMAIN lines |-> Line(lines[n])] \in Seq(Seq(Words))
           /\ Len([n \in DOMAIN lines |-> Line(lines[n])]) = Len(lines)
<1> DEFINE A == ALine
           N == Len(lines)
           T == Seq(Words)
           q == [n \in DOMAIN lines |-> Line(lines[n])]
<1>1. N \in Nat /\ DOMAIN lines = 1..N /\ \A n \in 1..N : lines[n] \in A
  <2>1. lines \in Seq(A)
    OBVIOUS
  <2> HIDE DEF A
  <2> QED BY <2>1
<1>2. \A n \in 1..N : Line(lines[n]) \in T
  BY <1>1, LineIs DEF Texts
<1>3. q = [n \in 1..N |-> q[n]] /\ \A n \in 1..N : q[n] \in T
  BY <1>1, <1>2
<1> HIDE DEF q, T
<1>4. q \in Seq(T) /\ Len(q) = N
  BY <1>1, <1>3, SequenceOf
<1>5. FlattenSeq(q) \in T
  BY <1>4, FlatIn DEF T
<1> QED BY <1>4, <1>5 DEF q, T, Text, Texts

\* fd_split: what it has read of a text, and what of the line it is at.
ReadSoFar == [all : Seq(ALine), now : ALine]
ReadMore(so, c) == IF c = End THEN [all |-> Append(so.all, so.now), now |-> <<>>]
                   ELSE [so EXCEPT !.now = Append(@, c)]
WholeOf(so) == IF so.now = <<>> THEN so.all ELSE Append(so.all, so.now)

\* What fd_split has after one more word.
LEMMA ReadMoreIs ==
    ASSUME NEW so \in ReadSoFar, NEW c \in Words
    PROVE  /\ ReadMore(so, c) \in ReadSoFar
           /\ c = End => ReadMore(so, c).all = Append(so.all, so.now) /\ ReadMore(so, c).now = <<>>
           /\ c # End => ReadMore(so, c).all = so.all /\ ReadMore(so, c).now = Append(so.now, c)
           /\ WholeOf(so) \in Seq(ALine)
<1> DEFINE V == Words \ {End}
           A == ALine
<1>1. A = Seq(V) /\ so \in [all : Seq(A), now : A] /\ so.all \in Seq(A) /\ so.now \in A
  BY DEF ReadSoFar, ALine
<1>2. <<>> \in A
  BY DEF ALine
<1>3. c # End => Append(so.now, c) \in A
  <2>1. c # End => c \in V
    OBVIOUS
  <2> HIDE DEF V, A
  <2> QED BY <1>1, <2>1
<1> HIDE DEF V, A
<1>4. Append(so.all, so.now) \in Seq(A)
  BY <1>1
<1>5. CASE c = End
  BY <1>1, <1>2, <1>4, <1>5 DEF ReadMore, ReadSoFar, A, WholeOf
<1>6. CASE c # End
  <2>1. ReadMore(so, c) = [so EXCEPT !.now = Append(so.now, c)]
    BY <1>6 DEF ReadMore
  <2> DEFINE u == ReadMore(so, c)
  <2> HIDE DEF u
  <2>2. u \in [all : Seq(A), now : A] /\ u.all = so.all /\ u.now = Append(so.now, c)
    BY <1>1, <1>3, <1>6, <2>1 DEF u
  <2> QED BY <1>1, <1>4, <1>6, <2>2 DEF u, ReadSoFar, A, WholeOf
<1> QED BY <1>5, <1>6

\* fd_split reads a text word by word.
LEMMA LinesOfIs ==
    ASSUME NEW text \in Texts
    PROVE  \E f \in [0..Len(text) -> ReadSoFar] :
               /\ f[0] = [all |-> <<>>, now |-> <<>>]
               /\ \A n \in 1..Len(text) : f[n] = ReadMore(f[n - 1], text[n])
               /\ LinesOf(text) = WholeOf(f[Len(text)])
<1> DEFINE W == Words
           N == Len(text)
           S == ReadSoFar
           first == [all |-> <<>>, now |-> <<>>]
           Make == [n \in 1..N |-> [so \in S |-> ReadMore(so, text[n])]]
           Is(g) == g = [n \in 0..N |-> IF n = 0 THEN first ELSE ReadMore(g[n - 1], text[n])]
           r == CHOOSE g : Is(g)
<1>1. N \in Nat /\ \A n \in 1..N : text[n] \in W
  <2>1. text \in Seq(W)
    BY DEF Texts
  <2> HIDE DEF W
  <2> QED BY <2>1
<1>2. first \in S
  BY DEF ReadSoFar, ALine
<1>3. \A n \in 1..N, so \in S : ReadMore(so, text[n]) \in S
  BY <1>1, ReadMoreIs
<1> HIDE DEF S, N, first
<1>4. Make \in Makes(N, S) /\ \A n \in 1..N, so \in S : Make[n][so] = ReadMore(so, text[n])
  BY <1>3 DEF Makes
<1> HIDE DEF Make
<1>15. Foldable(N, S, first, Make)
  BY <1>1, <1>2, <1>4 DEF Foldable
<1>16. PICK f : Stepwise(f, N, S, first, Make)
  BY <1>15, Steps
<1>5. f \in [0..N -> S] /\ f[0] = first /\ \A n \in 1..N : f[n] = Make[n][f[n - 1]]
  BY <1>16 DEF Stepwise
<1>6. \A n \in 1..N : f[n] = ReadMore(f[n - 1], text[n])
  <2>1. \A n \in 1..N : n - 1 \in 0..N
    BY <1>1
  <2> QED BY <1>4, <1>5, <2>1
<1>7. Is(f)
  <2> DEFINE g == [n \in 0..N |-> IF n = 0 THEN first ELSE ReadMore(f[n - 1], text[n])]
  <2>1. \A n \in 0..N : f[n] = g[n]
    BY <1>1, <1>5, <1>6
  <2>2. f = [n \in 0..N |-> f[n]]
    BY <1>5
  <2>3. f = g
    BY <2>1, <2>2
  <2> QED BY <2>3
<1>8. LinesOf(text) = WholeOf(r[N])
  BY DEF LinesOf, WholeOf, ReadMore, N, first
<1>9. Is(r)
  BY <1>7
<1> HIDE DEF r
<1>10. \A n \in 0..N : r[n] = IF n = 0 THEN first ELSE ReadMore(r[n - 1], text[n])
  BY <1>9, Zenon
<1>11. r[0] = first /\ \A n \in 1..N : r[n] = ReadMore(r[n - 1], text[n])
  BY <1>1, <1>10
<1>12. \A n \in 0..N : r[n] \in S
  <2>1. \A n \in (0 + 1)..N : r[n - 1] \in S => r[n] \in S
    BY <1>1, <1>3, <1>11
  <2>2. r[0] \in S /\ 0 \in 0..N
    BY <1>1, <1>2, <1>11
  <2> QED BY <1>1, <2>1, <2>2, Within
<1>13. r \in [0..N -> S]
  BY <1>9, <1>12
<1> QED BY <1>8, <1>11, <1>13 DEF N, S, first

\* The lines of a text hold no line ends.
LEMMA LinesIn ==
    ASSUME NEW text \in Texts
    PROVE  LinesOf(text) \in Seq(ALine)
<1>1. PICK f \in [0..Len(text) -> ReadSoFar] : LinesOf(text) = WholeOf(f[Len(text)])
  BY LinesOfIs
<1>2. Len(text) \in 0..Len(text)
  BY DEF Texts
<1>3. f[Len(text)] \in ReadSoFar
  BY <1>1, <1>2
<1>4. End \in Words
  BY DEF Words
<1> QED BY <1>1, <1>3, <1>4, ReadMoreIs
-----------------------------------------------------------------------------
(* What the commands do for each argument.  In each of these lemmas f is   *)
(* what is so after the first ones.                                        *)

\* A line that is not there is empty.
LEMMA LineAt ==
    ASSUME NEW lines \in Seq(ALine), NEW n \in Nat \ {0}
    PROVE  (IF n <= Len(lines) THEN lines[n] ELSE <<>>) \in ALine
<1> DEFINE A == ALine
<1>1. lines \in Seq(A) /\ <<>> \in A
  BY DEF ALine
<1> HIDE DEF A
<1>2. (IF n <= Len(lines) THEN lines[n] ELSE <<>>) \in A
  BY <1>1
<1> QED BY <1>2 DEF A

\* Arguments are names.
LEMMA ArgumentIs ==
    ASSUME NEW args \in Seq(Names)
    PROVE  Len(args) \in Nat /\ DOMAIN args = 1..Len(args)
           /\ \A n \in 1..Len(args) : args[n] \in Names
<1> DEFINE S == Names
<1>1. args \in Seq(S)
  OBVIOUS
<1> HIDE DEF S
<1> QED BY <1>1 DEF S

LineOr(lines, n)  == IF n <= Len(lines) THEN lines[n] ELSE <<>>
VarOf(lines, n)   == [type |-> "var", value |-> LineOr(lines, n)]

\* "| var" binds one argument after the other.
LEMMA VarsBoundIs ==
    ASSUME NEW w \in Fine, NEW args \in Seq(Names), NEW lines \in Seq(ALine), NEW local \in BOOLEAN
    PROVE  \E f \in [0..Len(args) -> Fine] :
               /\ f[0] = w
               /\ \A n \in 1..Len(args) : f[n] = BindNew(f[n - 1], args[n], VarOf(lines, n), local)
               /\ VarsBound(w, args, lines, local) = f[Len(args)]
<1> DEFINE N == Len(args)
           S == Fine
           first == w
           Make == [n \in 1..N |-> [x \in S |-> BindNew(x, args[n], VarOf(lines, n), local)]]
<1>1. N \in Nat
  BY ArgumentIs
<1>2. first \in S
  OBVIOUS
<1>3. ASSUME NEW n \in 1..N, NEW x \in S PROVE BindNew(x, args[n], VarOf(lines, n), local) \in S
  <2>1. args[n] \in Names /\ n \in Nat \ {0}
    BY ArgumentIs
  <2>2. LineOr(lines, n) \in ALine
    BY <2>1, LineAt DEF LineOr
  <2>3. Joins(x, VarOf(lines, n))
    BY <2>2, ValueJoins DEF VarOf
  <2> QED BY <2>1, <2>3, BindNewIs
<1> HIDE DEF S, N, first
<1>4. \A n \in 1..N, x \in S : Make[n][x] = BindNew(x, args[n], VarOf(lines, n), local)
  OBVIOUS
<1>14. Make \in Makes(N, S)
  BY <1>3 DEF Makes
<1> HIDE DEF Make
<1>15. Foldable(N, S, first, Make)
  BY <1>1, <1>2, <1>14 DEF Foldable
<1>16. PICK f : Stepwise(f, N, S, first, Make)
  BY <1>15, Steps
<1>5. f \in [0..N -> S] /\ f[0] = first /\ \A n \in 1..N : f[n] = Make[n][f[n - 1]]
  BY <1>16 DEF Stepwise
<1>6. \A n \in 1..N : f[n] = BindNew(f[n - 1], args[n], VarOf(lines, n), local)
  <2>1. \A n \in 1..N : n - 1 \in 0..N
    BY <1>1
  <2> QED BY <1>4, <1>5, <2>1
<1> DEFINE Is(g) == g = [n \in 0..N |-> IF n = 0 THEN first
                         ELSE BindNew(g[n - 1], args[n], VarOf(lines, n), local)]
           r == CHOOSE g : Is(g)
<1>7. Is(f)
  <2> DEFINE g == [n \in 0..N |-> IF n = 0 THEN first
                   ELSE BindNew(f[n - 1], args[n], VarOf(lines, n), local)]
  <2>1. \A n \in 0..N : f[n] = g[n]
    BY <1>1, <1>5, <1>6
  <2>2. f = [n \in 0..N |-> f[n]]
    BY <1>5
  <2>3. f = g
    BY <2>1, <2>2
  <2> QED BY <2>3
<1>8. VarsBound(w, args, lines, local) = r[N]
  BY DEF VarsBound, VarOf, LineOr, N, first
<1>9. Is(r)
  BY <1>7
<1> HIDE DEF r
<1>10. \A n \in 0..N : r[n] = IF n = 0 THEN first
       ELSE BindNew(r[n - 1], args[n], VarOf(lines, n), local)
  BY <1>9, Zenon
<1>11. r[0] = first /\ \A n \in 1..N : r[n] = BindNew(r[n - 1], args[n], VarOf(lines, n), local)
  BY <1>1, <1>10
<1>12. \A n \in 0..N : r[n] \in S
  <2>1. \A n \in (0 + 1)..N : r[n - 1] \in S => r[n] \in S
    BY <1>1, <1>3, <1>11
  <2>2. r[0] \in S /\ 0 \in 0..N
    BY <1>1, <1>2, <1>11
  <2> QED BY <1>1, <2>1, <2>2, Within
<1>13. r \in [0..N -> S]
  BY <1>9, <1>12
<1> QED BY <1>8, <1>11, <1>13 DEF N, S, first

\* An object made for an argument is sound and empty.
LEMMA WithObjectIs ==
    ASSUME NEW w \in Fine, NEW argument \in Names, NEW local \in BOOLEAN
    PROVE  /\ WithObject(w, argument, local) \in Fine /\ Grown(w, WithObject(w, argument, local))
           /\ WithObject(w, argument, local).ok =>
                 /\ Len(WithObject(w, argument, local).heap) = New(w)
                 /\ IsUser(WithObject(w, argument, local), New(w))
<1> DEFINE x == UserObject(New(w), w.current, argument)
           b == WithObject(w, argument, local)
           m == Made(w, x)
<1>1. Joins(w, x) /\ x.type = "object"
  BY UserObjectIs
<1>2. b = BindNew(w, argument, x, local)
  BY DEF WithObject
<1> HIDE DEF x, b
<1>3. /\ b \in Fine /\ Grown(w, b) /\ b.current = w.current
      /\ b.ok => w.ok /\ Len(b.heap) = New(w) /\ Bound(m, b, argument, New(w), local)
  BY <1>1, <1>2, BindNewIs
<1>4. ASSUME b.ok PROVE IsUser(b, New(w))
  <2>1. m \in Fine /\ m.ok /\ New(w) \in DOMAIN m.heap /\ m.heap[New(w)] = x
    BY <1>1, <1>3, <1>4, MadeIs
  <2>2. Bound(m, b, argument, New(w), local)
    BY <1>3, <1>4
  <2> HIDE DEF m
  <2>3. IsUser(m, New(w))
    BY <1>1, <2>1 DEF IsUser
  <2>4. b = Bind(m, argument, New(w), local)
    BY <1>2 DEF BindNew, m
  <2>5. Grown(m, b)
    BY <2>1, <2>4, BindIs
  <2> QED BY <1>3, <2>1, <2>3, <2>5, UserStays
<1> QED BY <1>3, <1>4 DEF b

\* "object" makes one object after the other.
LEMMA ObjectsMadeIs ==
    ASSUME NEW w \in Fine, NEW args \in Seq(Names), NEW local \in BOOLEAN
    PROVE  \E f \in [0..Len(args) -> Fine] :
               /\ f[0] = w
               /\ \A n \in 1..Len(args) : f[n] = WithObject(f[n - 1], args[n], local)
               /\ ObjectsMade(w, args, local) = f[Len(args)]
<1> DEFINE N == Len(args)
           S == Fine
           first == w
           Make == [n \in 1..N |-> [x \in S |-> WithObject(x, args[n], local)]]
<1>1. N \in Nat
  BY ArgumentIs
<1>2. first \in S
  OBVIOUS
<1>3. ASSUME NEW n \in 1..N, NEW x \in S PROVE WithObject(x, args[n], local) \in S
  <2>1. args[n] \in Names
    BY ArgumentIs
  <2> QED BY <2>1, WithObjectIs
<1> HIDE DEF S, N, first
<1>4. \A n \in 1..N, x \in S : Make[n][x] = WithObject(x, args[n], local)
  OBVIOUS
<1>14. Make \in Makes(N, S)
  BY <1>3 DEF Makes
<1> HIDE DEF Make
<1>15. Foldable(N, S, first, Make)
  BY <1>1, <1>2, <1>14 DEF Foldable
<1>16. PICK f : Stepwise(f, N, S, first, Make)
  BY <1>15, Steps
<1>5. f \in [0..N -> S] /\ f[0] = first /\ \A n \in 1..N : f[n] = Make[n][f[n - 1]]
  BY <1>16 DEF Stepwise
<1>6. \A n \in 1..N : f[n] = WithObject(f[n - 1], args[n], local)
  <2>1. \A n \in 1..N : n - 1 \in 0..N
    BY <1>1
  <2> QED BY <1>4, <1>5, <2>1
<1> DEFINE Is(g) == g = [n \in 0..N |-> IF n = 0 THEN first
                         ELSE WithObject(g[n - 1], args[n], local)]
           r == CHOOSE g : Is(g)
<1>7. Is(f)
  <2> DEFINE g == [n \in 0..N |-> IF n = 0 THEN first ELSE WithObject(f[n - 1], args[n], local)]
  <2>1. \A n \in 0..N : f[n] = g[n]
    BY <1>1, <1>5, <1>6
  <2>2. f = [n \in 0..N |-> f[n]]
    BY <1>5
  <2>3. f = g
    BY <2>1, <2>2
  <2> QED BY <2>3
<1>8. ObjectsMade(w, args, local) = r[N]
  BY DEF ObjectsMade, N, first
<1>9. Is(r)
  BY <1>7
<1> HIDE DEF r
<1>10. \A n \in 0..N : r[n] = IF n = 0 THEN first ELSE WithObject(r[n - 1], args[n], local)
  BY <1>9, Zenon
<1>11. r[0] = first /\ \A n \in 1..N : r[n] = WithObject(r[n - 1], args[n], local)
  BY <1>1, <1>10
<1>12. \A n \in 0..N : r[n] \in S
  <2>1. \A n \in (0 + 1)..N : r[n - 1] \in S => r[n] \in S
    BY <1>1, <1>3, <1>11
  <2>2. r[0] \in S /\ 0 \in 0..N
    BY <1>1, <1>2, <1>11
  <2> QED BY <1>1, <2>1, <2>2, Within
<1>13. r \in [0..N -> S]
  BY <1>9, <1>12
<1> QED BY <1>8, <1>11, <1>13 DEF N, S, first

\* The object a line names is there.
LEMMA AddressIs ==
    ASSUME NEW line
    PROVE  AddressOf(line) \in gObjectsInPipe \cup {NULL}
BY DEF AddressOf

RefStep(w, args, lines, local, n) ==
    IF AddressOf(lines[n]) = NULL THEN Fails(w) ELSE Bind(w, args[n], AddressOf(lines[n]), local)
\* Worlds in which the objects of the pipe are.
Piping == {w \in Fine : gObjectsInPipe \subseteq DOMAIN w.heap}

\* "ref" binds an argument to an object there is, or fails.
LEMMA RefStepIs ==
    ASSUME NEW w \in Piping, NEW args, NEW lines, NEW local \in BOOLEAN, NEW n, args[n] \in Names
    PROVE  /\ RefStep(w, args, lines, local, n) \in Piping
           /\ Grown(w, RefStep(w, args, lines, local, n))
           /\ Len(RefStep(w, args, lines, local, n).heap) = Len(w.heap)
           /\ RefStep(w, args, lines, local, n).ok =>
                 /\ AddressOf(lines[n]) # NULL
                 /\ Bound(w, RefStep(w, args, lines, local, n), args[n], AddressOf(lines[n]), local)
<1> DEFINE u == RefStep(w, args, lines, local, n)
           a == args[n]
           o == AddressOf(lines[n])
<1>1. w \in Fine /\ gObjectsInPipe \subseteq DOMAIN w.heap
  BY DEF Piping
<1>2. u = IF o = NULL THEN Fails(w) ELSE Bind(w, a, o, local)
  BY DEF RefStep
<1>3. o \in gObjectsInPipe \cup {NULL} /\ a \in Names
  BY AddressIs
<1> HIDE DEF u, o, a
<1>4. /\ u \in Fine /\ Grown(w, u) /\ Len(u.heap) = Len(w.heap)
      /\ u.ok => o # NULL /\ Bound(w, u, a, o, local)
  <2>1. CASE o = NULL
    BY <1>1, <1>2, <2>1, FailsIs
  <2>2. CASE o # NULL
    <3>1. o \in DOMAIN w.heap
      BY <1>1, <1>3, <2>2
    <3> QED BY <1>1, <1>2, <1>3, <2>2, <3>1, BindIs
  <2> QED BY <2>1, <2>2
<1>5. DOMAIN u.heap = DOMAIN w.heap
  BY <1>1, <1>4, WorldIs
<1> QED BY <1>1, <1>4, <1>5 DEF u, o, a, Piping

\* "| ref" binds one argument after the other.
LEMMA RefsBoundIs ==
    ASSUME NEW w \in Piping, NEW args \in Seq(Names), NEW lines \in Seq(ALine),
           NEW local \in BOOLEAN
    PROVE  \E f \in [0..Shorter(lines, args) -> Piping] :
               /\ f[0] = w
               /\ \A n \in 1..Shorter(lines, args) : f[n] = RefStep(f[n - 1], args, lines, local, n)
               /\ RefsBound(w, args, lines, local) = f[Shorter(lines, args)]
<1> DEFINE N == Shorter(lines, args)
           S == Piping
           first == w
           Make == [n \in 1..N |-> [x \in S |-> RefStep(x, args, lines, local, n)]]
<1>1. N \in Nat
  BY ArgumentIs DEF Shorter
<1>2. first \in S
  OBVIOUS
<1>3. ASSUME NEW n \in 1..N, NEW x \in S PROVE RefStep(x, args, lines, local, n) \in S
  <2>1. args[n] \in Names
    <3>1. Shorter(lines, args) <= Len(args) /\ Shorter(lines, args) \in Nat
      BY ArgumentIs DEF Shorter
    <3>2. n \in 1..Len(args)
      BY <3>1, ArgumentIs
    <3> QED BY <3>2, ArgumentIs
  <2> QED BY <2>1, RefStepIs
<1> HIDE DEF S, N, first
<1>4. \A n \in 1..N, x \in S : Make[n][x] = RefStep(x, args, lines, local, n)
  OBVIOUS
<1>14. Make \in Makes(N, S)
  BY <1>3 DEF Makes
<1> HIDE DEF Make
<1>15. Foldable(N, S, first, Make)
  BY <1>1, <1>2, <1>14 DEF Foldable
<1>16. PICK f : Stepwise(f, N, S, first, Make)
  BY <1>15, Steps
<1>5. f \in [0..N -> S] /\ f[0] = first /\ \A n \in 1..N : f[n] = Make[n][f[n - 1]]
  BY <1>16 DEF Stepwise
<1>6. \A n \in 1..N : f[n] = RefStep(f[n - 1], args, lines, local, n)
  <2>1. \A n \in 1..N : n - 1 \in 0..N
    BY <1>1
  <2> QED BY <1>4, <1>5, <2>1
<1> DEFINE Is(g) == g = [n \in 0..N |-> IF n = 0 THEN first
                         ELSE RefStep(g[n - 1], args, lines, local, n)]
           r == CHOOSE g : Is(g)
<1>7. Is(f)
  <2> DEFINE g == [n \in 0..N |-> IF n = 0 THEN first ELSE RefStep(f[n - 1], args, lines, local, n)]
  <2>1. \A n \in 0..N : f[n] = g[n]
    BY <1>1, <1>5, <1>6
  <2>2. f = [n \in 0..N |-> f[n]]
    BY <1>5
  <2>3. f = g
    BY <2>1, <2>2
  <2> QED BY <2>3
<1>8. RefsBound(w, args, lines, local) = r[N]
  BY DEF RefsBound, RefStep, N, first
<1>9. Is(r)
  BY <1>7
<1> HIDE DEF r
<1>10. \A n \in 0..N : r[n] = IF n = 0 THEN first ELSE RefStep(r[n - 1], args, lines, local, n)
  BY <1>9, Zenon
<1>11. r[0] = first /\ \A n \in 1..N : r[n] = RefStep(r[n - 1], args, lines, local, n)
  BY <1>1, <1>10
<1>12. \A n \in 0..N : r[n] \in S
  <2>1. \A n \in (0 + 1)..N : r[n - 1] \in S => r[n] \in S
    BY <1>1, <1>3, <1>11
  <2>2. r[0] \in S /\ 0 \in 0..N
    BY <1>1, <1>2, <1>11
  <2> QED BY <1>1, <2>1, <2>2, Within
<1>13. r \in [0..N -> S]
  BY <1>9, <1>12
<1> QED BY <1>8, <1>11, <1>13 DEF N, S, first

\* A pair of lines put into a table.
PairStep(table, lines, n) ==
    Put(table, lines[2 * n - 1], IF 2 * n <= Len(lines) THEN lines[2 * n] ELSE <<>>)

\* A hash takes one key with its item after the other.
LEMMA PairsPutIs ==
    ASSUME NEW table \in Pairs(ALine, ALine), NEW lines \in Seq(ALine)
    PROVE  \E f \in [0..((Len(lines) + 1) \div 2) -> Pairs(ALine, ALine)] :
               /\ f[0] = table
               /\ \A n \in 1..((Len(lines) + 1) \div 2) : f[n] = PairStep(f[n - 1], lines, n)
               /\ PairsPut(table, lines) = f[((Len(lines) + 1) \div 2)]
<1> DEFINE N == ((Len(lines) + 1) \div 2)
           S == Pairs(ALine, ALine)
           first == table
           Make == [n \in 1..N |-> [x \in S |-> PairStep(x, lines, n)]]
<1>1. N \in Nat
  OBVIOUS
<1>2. first \in S
  OBVIOUS
<1>3. ASSUME NEW n \in 1..N, NEW x \in S PROVE PairStep(x, lines, n) \in S
  <2> DEFINE L == Len(lines)
             k == 2 * n - 1
             m == 2 * n
             A == ALine
  <2>1. L \in Nat /\ \A i \in 1..L : lines[i] \in A
    <3>1. lines \in Seq(A)
      OBVIOUS
    <3> HIDE DEF A
    <3> QED BY <3>1
  <2>2. N = (L + 1) \div 2
    OBVIOUS
  <2> HIDE DEF L
  <2>3. n \in 1..((L + 1) \div 2)
    BY <2>2
  <2>4. k \in 1..L /\ m \in Nat \ {0}
    BY <2>1, <2>3
  <2>5. lines[k] \in ALine
    BY <2>1, <2>4
  <2> DEFINE i == IF m <= Len(lines) THEN lines[m] ELSE <<>>
  <2> HIDE DEF m
  <2>6. i \in ALine
    BY <2>4, LineAt
  <2>7. PairStep(x, lines, n) = Put(x, lines[k], i)
    BY DEF PairStep, m
  <2> DEFINE y == lines[k]
  <2>8. y \in A /\ i \in A /\ x \in Pairs(A, A) /\ PairStep(x, lines, n) = Put(x, y, i)
    BY <2>5, <2>6, <2>7
  <2> HIDE DEF A, y, k, i
  <2>9. Put(x, y, i) \in Pairs(A, A)
    BY <2>8, PutIs
  <2> QED BY <2>8, <2>9 DEF A
<1> HIDE DEF S, N, first
<1>4. \A n \in 1..N, x \in S : Make[n][x] = PairStep(x, lines, n)
  OBVIOUS
<1>14. Make \in Makes(N, S)
  BY <1>3 DEF Makes
<1> HIDE DEF Make
<1>15. Foldable(N, S, first, Make)
  BY <1>1, <1>2, <1>14 DEF Foldable
<1>16. PICK f : Stepwise(f, N, S, first, Make)
  BY <1>15, Steps
<1>5. f \in [0..N -> S] /\ f[0] = first /\ \A n \in 1..N : f[n] = Make[n][f[n - 1]]
  BY <1>16 DEF Stepwise
<1>6. \A n \in 1..N : f[n] = PairStep(f[n - 1], lines, n)
  <2>1. \A n \in 1..N : n - 1 \in 0..N
    BY <1>1
  <2> QED BY <1>4, <1>5, <2>1
<1> DEFINE Is(g) == g = [n \in 0..N |-> IF n = 0 THEN first ELSE PairStep(g[n - 1], lines, n)]
           r == CHOOSE g : Is(g)
<1>7. Is(f)
  <2> DEFINE g == [n \in 0..N |-> IF n = 0 THEN first ELSE PairStep(f[n - 1], lines, n)]
  <2>1. \A n \in 0..N : f[n] = g[n]
    BY <1>1, <1>5, <1>6
  <2>2. f = [n \in 0..N |-> f[n]]
    BY <1>5
  <2>3. f = g
    BY <2>1, <2>2
  <2> QED BY <2>3
<1>8. PairsPut(table, lines) = r[N]
  BY DEF PairsPut, PairStep, N, first
<1>9. Is(r)
  BY <1>7
<1> HIDE DEF r
<1>10. \A n \in 0..N : r[n] = IF n = 0 THEN first ELSE PairStep(r[n - 1], lines, n)
  BY <1>9, Zenon
<1>11. r[0] = first /\ \A n \in 1..N : r[n] = PairStep(r[n - 1], lines, n)
  BY <1>1, <1>10
<1>12. \A n \in 0..N : r[n] \in S
  <2>1. \A n \in (0 + 1)..N : r[n - 1] \in S => r[n] \in S
    BY <1>1, <1>3, <1>11
  <2>2. r[0] \in S /\ 0 \in 0..N
    BY <1>1, <1>2, <1>11
  <2> QED BY <1>1, <2>1, <2>2, Within
<1>13. r \in [0..N -> S]
  BY <1>9, <1>12
<1> QED BY <1>8, <1>11, <1>13 DEF N, S, first

\* A conversion to text of objects, and what has been printed so far.
Prints1(w, so, at, types, shown) ==
    IF ~so.ok \/ ~at.ok \/ Typed(w, at.object) \notin types THEN Fails(so)
    ELSE [ok |-> TRUE, out |-> so.out \o shown[at.object], of |-> so.of \cup {at.object}]
Printing(w) == [ok : BOOLEAN, out : Texts, of : SUBSET DOMAIN w.heap]
Shows(w, types, shown) == \A o \in DOMAIN w.heap : w.heap[o].type \in types => shown[o] \in Texts

\* One argument more that is printed.
LEMMA Prints1Is ==
    ASSUME NEW w \in Fine, NEW so \in Printing(w), NEW argument \in Names, NEW types, NEW shown,
           Shows(w, types, shown)
    PROVE  Prints1(w, so, get_object_from_argument(w, argument), types, shown) \in Printing(w)
<1> DEFINE at == get_object_from_argument(w, argument)
           o == at.object
           U == DOMAIN w.heap
           T == Texts
<1>1. at.ok => o \in DOMAIN w.heap
  BY FoundIs
<1>2. so \in [ok : BOOLEAN, out : T, of : SUBSET U]
  BY DEF Printing
<1>3. CASE ~so.ok \/ ~at.ok \/ Typed(w, o) \notin types
  <2>1. Prints1(w, so, at, types, shown) = [so EXCEPT !.ok = FALSE]
    BY <1>3 DEF Prints1, Fails
  <2> HIDE DEF U, T, at, o
  <2>2. [so EXCEPT !.ok = FALSE] \in [ok : BOOLEAN, out : T, of : SUBSET U]
    BY <1>2
  <2> QED BY <2>1, <2>2 DEF Printing, U, T, at
<1>4. CASE so.ok /\ at.ok /\ Typed(w, o) \in types
  <2>1. o \in U /\ w.heap[o].type \in types
    BY <1>1, <1>4, HeapIs, Zenon DEF Typed
  <2>2. shown[o] \in T
    BY <2>1 DEF Shows
  <2>3. so.out \o shown[o] \in T
    <3> DEFINE W == Words
               s == shown[o]
    <3>1. s \in Seq(W) /\ so.out \in Seq(W)
      BY <1>2, <2>2 DEF Texts
    <3> HIDE DEF W, s
    <3>2. so.out \o s \in Seq(W)
      BY <3>1
    <3> QED BY <3>2 DEF W, s, Texts
  <2>4. Prints1(w, so, at, types, shown) =
            [ok |-> TRUE, out |-> so.out \o shown[o], of |-> so.of \cup {o}]
    BY <1>4 DEF Prints1
  <2> HIDE DEF U, T, at, o
  <2>5. so.of \cup {o} \in SUBSET U
    BY <1>2, <2>1
  <2> QED BY <2>3, <2>4, <2>5 DEF Printing, U, T, at
<1> QED BY <1>3, <1>4

\* The commands that print do it for one argument after the other.
LEMMA PrintedIs ==
    ASSUME NEW w \in Fine, NEW args \in Seq(Names), NEW types, NEW shown, Shows(w, types, shown)
    PROVE  \E f \in [0..Len(args) -> Printing(w)] :
               /\ f[0] = [ok |-> TRUE, out |-> <<>>, of |-> {}]
               /\ \A n \in 1..Len(args) : f[n] =
                  Prints1(w, f[n - 1], get_object_from_argument(w, args[n]), types, shown)
               /\ Printed(w, args, types, shown) = f[Len(args)]
<1> DEFINE N == Len(args)
           S == Printing(w)
           first == [ok |-> TRUE, out |-> <<>>, of |-> {}]
           Make == [n \in 1..N |-> [x \in S |-> Prints1(w, x, get_object_from_argument(w, args[n]),
                                                        types, shown)]]
<1>1. N \in Nat
  BY ArgumentIs
<1>2. first \in S
  <2>1. <<>> \in Texts
    BY DEF Texts
  <2> QED BY <2>1 DEF Printing
<1>3. ASSUME NEW n \in 1..N, NEW x \in S
             PROVE Prints1(w, x, get_object_from_argument(w, args[n]), types, shown) \in S
  <2>1. args[n] \in Names
    BY ArgumentIs
  <2> QED BY <2>1, Prints1Is
<1> HIDE DEF S, N, first
<1>4. \A n \in 1..N, x \in S : Make[n][x] =
      Prints1(w, x, get_object_from_argument(w, args[n]), types, shown)
  OBVIOUS
<1>14. Make \in Makes(N, S)
  BY <1>3 DEF Makes
<1> HIDE DEF Make
<1>15. Foldable(N, S, first, Make)
  BY <1>1, <1>2, <1>14 DEF Foldable
<1>16. PICK f : Stepwise(f, N, S, first, Make)
  BY <1>15, Steps
<1>5. f \in [0..N -> S] /\ f[0] = first /\ \A n \in 1..N : f[n] = Make[n][f[n - 1]]
  BY <1>16 DEF Stepwise
<1>6. \A n \in 1..N : f[n] = Prints1(w, f[n - 1], get_object_from_argument(w, args[n]), types,
                                     shown)
  <2>1. \A n \in 1..N : n - 1 \in 0..N
    BY <1>1
  <2> QED BY <1>4, <1>5, <2>1
<1> DEFINE Is(g) == g = [n \in 0..N |-> IF n = 0 THEN first
                         ELSE Prints1(w, g[n - 1], get_object_from_argument(w, args[n]), types,
                                      shown)]
           r == CHOOSE g : Is(g)
<1>7. Is(f)
  <2> DEFINE g == [n \in 0..N |-> IF n = 0 THEN first
                   ELSE Prints1(w, f[n - 1], get_object_from_argument(w, args[n]), types, shown)]
  <2>1. \A n \in 0..N : f[n] = g[n]
    BY <1>1, <1>5, <1>6
  <2>2. f = [n \in 0..N |-> f[n]]
    BY <1>5
  <2>3. f = g
    BY <2>1, <2>2
  <2> QED BY <2>3
<1>8. Printed(w, args, types, shown) = r[N]
  BY DEF Printed, Prints1, N, first
<1>9. Is(r)
  BY <1>7
<1> HIDE DEF r
<1>10. \A n \in 0..N : r[n] = IF n = 0 THEN first
       ELSE Prints1(w, r[n - 1], get_object_from_argument(w, args[n]), types, shown)
  BY <1>9, Zenon
<1>11. r[0] = first /\ \A n \in 1..N : r[n] =
       Prints1(w, r[n - 1], get_object_from_argument(w, args[n]), types, shown)
  BY <1>1, <1>10
<1>12. \A n \in 0..N : r[n] \in S
  <2>1. \A n \in (0 + 1)..N : r[n - 1] \in S => r[n] \in S
    BY <1>1, <1>3, <1>11
  <2>2. r[0] \in S /\ 0 \in 0..N
    BY <1>1, <1>2, <1>11
  <2> QED BY <1>1, <2>1, <2>2, Within
<1>13. r \in [0..N -> S]
  BY <1>9, <1>12
<1> QED BY <1>8, <1>11, <1>13 DEF N, S, first

\* The variables export sets.
Environs == {e \in UNION {[D -> ALine] : D \in SUBSET (Names \ {<<"">>})} : TRUE}
SetStep(env, args, lines, n) ==
    IF Exported(args[n])
    THEN [a \in DOMAIN env \cup {args[n]} |-> IF a # args[n] THEN env[a] ELSE LineOr(lines, n)]
    ELSE env

\* One variable more in the environment.
LEMMA SetStepIs ==
    ASSUME NEW env \in Environs, NEW args, NEW lines \in Seq(ALine), NEW n \in Nat \ {0},
           args[n] \in Names
    PROVE  SetStep(env, args, lines, n) \in Environs
<1> DEFINE x == args[n]
           l == LineOr(lines, n)
           A == ALine
           M == Names \ {<<"">>}
<1>1. PICK D \in SUBSET M : env \in [D -> A]
  BY Zenon DEF Environs
<1>2. l \in A
  BY LineAt, Zenon DEF LineOr
<1>3. CASE Exported(x)
  <2>1. D \cup {x} \in SUBSET M
    BY <1>3, Zenon DEF Exported
  <2>2. SetStep(env, args, lines, n) = [a \in D \cup {x} |-> IF a # x THEN env[a] ELSE l]
    BY <1>1, <1>3, Zenon DEF SetStep
  <2> HIDE DEF A, M, l, x
  <2>3. [a \in D \cup {x} |-> IF a # x THEN env[a] ELSE l] \in [D \cup {x} -> A]
    BY <1>1, <1>2
  <2> QED BY <2>1, <2>2, <2>3, Zenon DEF Environs, A, M
<1>4. CASE ~Exported(x)
  BY <1>4, Zenon DEF SetStep
<1> QED BY <1>3, <1>4, Zenon

\* "| export" sets one variable after the other.
LEMMA SetAllIs ==
    ASSUME NEW env \in Environs, NEW args \in Seq(Names), NEW lines \in Seq(ALine)
    PROVE  \E f \in [0..Len(args) -> Environs] :
               /\ f[0] = env
               /\ \A n \in 1..Len(args) : f[n] = SetStep(f[n - 1], args, lines, n)
               /\ SetAll(env, args, lines) = f[Len(args)]
<1> DEFINE N == Len(args)
           S == Environs
           first == env
           Make == [n \in 1..N |-> [x \in S |-> SetStep(x, args, lines, n)]]
<1>1. N \in Nat
  BY ArgumentIs
<1>2. first \in S
  OBVIOUS
<1>3. ASSUME NEW n \in 1..N, NEW x \in S PROVE SetStep(x, args, lines, n) \in S
  <2>1. args[n] \in Names /\ n \in Nat \ {0}
    BY ArgumentIs
  <2> QED BY <2>1, SetStepIs
<1> HIDE DEF S, N, first
<1>4. \A n \in 1..N, x \in S : Make[n][x] = SetStep(x, args, lines, n)
  OBVIOUS
<1>14. Make \in Makes(N, S)
  BY <1>3 DEF Makes
<1> HIDE DEF Make
<1>15. Foldable(N, S, first, Make)
  BY <1>1, <1>2, <1>14 DEF Foldable
<1>16. PICK f : Stepwise(f, N, S, first, Make)
  BY <1>15, Steps
<1>5. f \in [0..N -> S] /\ f[0] = first /\ \A n \in 1..N : f[n] = Make[n][f[n - 1]]
  BY <1>16 DEF Stepwise
<1>6. \A n \in 1..N : f[n] = SetStep(f[n - 1], args, lines, n)
  <2>1. \A n \in 1..N : n - 1 \in 0..N
    BY <1>1
  <2> QED BY <1>4, <1>5, <2>1
<1> DEFINE Is(g) == g = [n \in 0..N |-> IF n = 0 THEN first ELSE SetStep(g[n - 1], args, lines, n)]
           r == CHOOSE g : Is(g)
<1>7. Is(f)
  <2> DEFINE g == [n \in 0..N |-> IF n = 0 THEN first ELSE SetStep(f[n - 1], args, lines, n)]
  <2>1. \A n \in 0..N : f[n] = g[n]
    BY <1>1, <1>5, <1>6
  <2>2. f = [n \in 0..N |-> f[n]]
    BY <1>5
  <2>3. f = g
    BY <2>1, <2>2
  <2> QED BY <2>3
<1>8. SetAll(env, args, lines) = r[N]
  BY DEF SetAll, SetStep, LineOr, N, first
<1>9. Is(r)
  BY <1>7
<1> HIDE DEF r
<1>10. \A n \in 0..N : r[n] = IF n = 0 THEN first ELSE SetStep(r[n - 1], args, lines, n)
  BY <1>9, Zenon
<1>11. r[0] = first /\ \A n \in 1..N : r[n] = SetStep(r[n - 1], args, lines, n)
  BY <1>1, <1>10
<1>12. \A n \in 0..N : r[n] \in S
  <2>1. \A n \in (0 + 1)..N : r[n - 1] \in S => r[n] \in S
    BY <1>1, <1>3, <1>11
  <2>2. r[0] \in S /\ 0 \in 0..N
    BY <1>1, <1>2, <1>11
  <2> QED BY <1>1, <2>1, <2>2, Within
<1>13. r \in [0..N -> S]
  BY <1>9, <1>12
<1> QED BY <1>8, <1>11, <1>13 DEF N, S, first
-----------------------------------------------------------------------------
(* What grows, and what is taken of a sequence.                            *)

\* What is taken of a sequence ends where the thing is, or nowhere.
LEMMA TakenIs ==
    ASSUME NEW S, NEW s \in Seq(S), NEW x
    PROVE  \E n \in 0..Len(s) : /\ TakeWhileNot(s, x) = SubSeq(s, 1, n)
                                /\ \A m \in 1..n : s[m] # x
                                /\ n = Len(s) \/ s[n + 1] = x
<1> DEFINE N == Len(s)
           First(n) == /\ \A m \in 1..n : s[m] # x
                       /\ n = N \/ s[n + 1] = x
           T == {n \in 0..N : n = N \/ s[n + 1] = x}
<1>1. N \in Nat
  OBVIOUS
<1>2. PICK n \in T : \A k \in T : n <= k
  <2>1. T \in SUBSET Nat /\ N \in T
    BY <1>1
  <2> HIDE DEF T
  <2> QED BY <2>1, LeastIn
<1>3. First(n) /\ n \in 0..N
  <2>1. ASSUME NEW m \in 1..n PROVE s[m] # x
    <3>1. n \in 0..N
      BY <1>2
    <3>2. m - 1 \in 0..N /\ m - 1 < n /\ (m - 1) + 1 = m /\ m - 1 # N
      BY <1>1, <3>1
    <3>3. m - 1 \notin T
      <4> HIDE DEF T
      <4> QED BY <1>2, <3>1, <3>2
    <3> QED BY <3>2, <3>3
  <2> QED BY <1>2, <2>1
<1> DEFINE c == CHOOSE k \in 0..N : First(k)
<1>4. c \in 0..N /\ First(c)
  BY <1>3
<1>5. TakeWhileNot(s, x) = SubSeq(s, 1, c)
  BY DEF TakeWhileNot
<1> HIDE DEF c
<1> QED BY <1>4, <1>5

\* An array and a hash are records of their type.
LEMMA ListKind ==
    ASSUME NEW x \in Objects
    PROVE  /\ x.type = "array" => x \in [type : {"array"}, value : Seq(ALine)]
           /\ x.type = "hash" => x \in [type : {"hash"}, value : Pairs(ALine, ALine)]
<1>1. \/ x \in [type : {"var"}, value : ALine] \/ x \in [type : {"array"}, value : Seq(ALine)]
      \/ x \in [type : {"hash"}, value : Pairs(ALine, ALine)]
      \/ x \in [type : {"function", "class", "alias"}, value : Texts]
      \/ x \in [type : {"native function"}] \/ x \in UserObjects
  BY Zenon DEF Objects, UserObjects
<1>2. CASE x \in [type : {"var"}, value : ALine]
  BY <1>2
<1>3. CASE x \in [type : {"array"}, value : Seq(ALine)]
  BY <1>3
<1>4. CASE x \in [type : {"hash"}, value : Pairs(ALine, ALine)]
  BY <1>4
<1>5. CASE x \in [type : {"function", "class", "alias"}, value : Texts]
  BY <1>5
<1>6. CASE x \in [type : {"native function"}]
  BY <1>6, Zenon
<1>7. CASE x \in UserObjects
  BY <1>7 DEF UserObjects
<1> QED BY <1>1, <1>2, <1>3, <1>4, <1>5, <1>6, <1>7, Zenon

\* What an array or a hash may hold.
Lists        == {"array", "hash"}
Values(type) == IF type = "array" THEN Seq(ALine) ELSE Pairs(ALine, ALine)

\* A new value of a list leaves everything else as it was.
LEMMA PutValueIs ==
    ASSUME NEW w \in Fine, NEW o \in DOMAIN w.heap, NEW type \in Lists,
           w.heap[o].type = type, NEW value \in Values(type)
    PROVE  /\ PutValue(w, o, value) \in Fine
           /\ PutValue(w, o, value).ok = w.ok /\ PutValue(w, o, value).current = w.current
           /\ PutValue(w, o, value).locals = w.locals
           /\ Len(PutValue(w, o, value).heap) = Len(w.heap)
           /\ DOMAIN PutValue(w, o, value).heap = DOMAIN w.heap
           /\ \A p \in DOMAIN w.heap : p # o => PutValue(w, o, value).heap[p] = w.heap[p]
           /\ PutValue(w, o, value).heap[o].type = type
           /\ PutValue(w, o, value).heap[o].value = value
<1> DEFINE u == PutValue(w, o, value)
           O == Objects
           h == w.heap
           N == Len(h)
           y == [h[o] EXCEPT !.value = value]
<1>1. w \in Worlds /\ h \in Seq(O) /\ N \in Nat /\ DOMAIN h = 1..N /\ h[o] \in O /\ o \in 1..N
  BY WorldIs, HeapIs
<1>2. y \in O /\ y.type = type /\ y.value = value /\ type # "object"
  <2> DEFINE z == h[o]
             V == Values(type)
  <2>1. z \in [type : {type}, value : V]
    <3>1. CASE type = "array"
      BY <1>1, <3>1, ListKind DEF Values
    <3>2. CASE type = "hash"
      <4>1. type # "array"
        BY <3>2
      <4> QED BY <1>1, <3>2, <4>1, ListKind DEF Values
    <3> QED BY <3>1, <3>2 DEF Lists
  <2>2. value \in V
    OBVIOUS
  <2> HIDE DEF z, V
  <2>3. [z EXCEPT !.value = value] \in [type : {type}, value : V]
    BY <2>1, <2>2
  <2>4. [z EXCEPT !.value = value].value = value /\ [z EXCEPT !.value = value].type = type
    BY <2>1
  <2>5. [type : {type}, value : V] \subseteq O
    <3>1. CASE type = "array"
      BY <3>1, Zenon DEF Values, V, Objects
    <3>2. CASE type = "hash"
      <4>1. type # "array"
        BY <3>2
      <4> QED BY <3>2, <4>1, Zenon DEF Values, V, Objects
    <3> QED BY <3>1, <3>2 DEF Lists
  <2>6. type # "object"
    BY DEF Lists
  <2> QED BY <2>3, <2>4, <2>5, <2>6 DEF z
<1> HIDE DEF y
<1> DEFINE g == [h EXCEPT ![o] = y]
<1>7. u = [w EXCEPT !.heap = g]
  BY DEF PutValue, y
<1>8. /\ g \in Seq(O) /\ Len(g) = N /\ DOMAIN g = 1..N /\ g[o] = y
      /\ \A p \in 1..N : p # o => g[p] = h[p]
  <2> HIDE DEF O, N, h
  <2>1. h \in Seq(O) /\ y \in O /\ o \in 1..Len(h)
    BY <1>1, <1>2 DEF N
  <2>2. g \in Seq(O) /\ Len(g) = Len(h)
    BY <2>1
  <2>3. DOMAIN g = 1..Len(h) /\ g[o] = y /\ \A p \in 1..Len(h) : p # o => g[p] = h[p]
    BY <2>1
  <2> QED BY <2>2, <2>3 DEF N
<1> HIDE DEF g
<1>9. u.heap = g /\ u.locals = w.locals /\ u.current = w.current /\ u.ok = w.ok /\ u \in Worlds
  <2> HIDE DEF O, u, h
  <2>1. w \in [heap : Seq(O), locals : Pairs(Names, Nat), current : Nat, ok : BOOLEAN]
    BY <1>1 DEF Worlds, O
  <2>3. u \in [heap : Seq(O), locals : Pairs(Names, Nat), current : Nat, ok : BOOLEAN]
    BY <2>1, <1>7, <1>8
  <2>4. u.heap = g /\ u.locals = w.locals /\ u.current = w.current /\ u.ok = w.ok
    BY <2>1, <1>7
  <2> QED BY <2>3, <2>4 DEF Worlds, O
<1> HIDE DEF u
<1>10. /\ \A p \in DOMAIN h : p # o => u.heap[p] = h[p]
       /\ u.heap[o] = y /\ DOMAIN u.heap = DOMAIN h /\ Len(u.heap) = N
  BY <1>1, <1>8, <1>9
<1>11. \A p : IsUser(w, p) <=> IsUser(u, p)
  BY <1>2, <1>10 DEF IsUser
<1>12. u \in Fine
  <2>1. IsUser(u, Root) /\ IsUser(u, u.current) /\ Native \in DOMAIN u.heap
        /\ u.locals \in Pairs(Names, DOMAIN u.heap)
    BY <1>9, <1>10, <1>11, WorldIs
  <2>2. ASSUME NEW p \in DOMAIN u.heap, u.heap[p].type = "object"
        PROVE  /\ IsUser(u, u.heap[p].parent) /\ (p # Root => u.heap[p].parent < p)
               /\ u.heap[p].items \in Pairs(Names, DOMAIN u.heap)
    <3>1. IsUser(w, p)
      BY <1>11, <2>2 DEF IsUser
    <3>2. p # o
      BY <1>2, <1>10, <2>2
    <3>3. u.heap[p] = h[p]
      BY <1>10, <2>2, <3>2
    <3> QED BY <3>1, <3>3, <1>10, <1>11, UsersAre
  <2> QED BY <1>9, <2>1, <2>2, IsFine
<1> QED BY <1>2, <1>9, <1>10, <1>12 DEF u

\* The array or hash that -insert and -append add to is there, or has just been made
\* and is empty.
LEMMA GrowingIs ==
    ASSUME NEW w \in Fine, w.ok, NEW type \in Lists, NEW argument \in Names, NEW local \in BOOLEAN
    PROVE  LET to == Growing(w, type, argument, local)
           IN  /\ to.world \in Fine /\ Grown(w, to.world)
               /\ to.world.ok => /\ to.object \in DOMAIN to.world.heap
                                 /\ to.world.heap[to.object].type = type
                                 /\ \/ to.world = w
                                    \/ /\ to.object = New(w) /\ Len(to.world.heap) = New(w)
                                       /\ to.world.heap[to.object].value = <<>>
<1> DEFINE at == Prefix(w, argument)
           item == IF local THEN (IF Has(w.locals, argument) THEN At(w.locals, argument) ELSE NULL)
                   ELSE IF at.ok THEN uobject_item(w, at.object, <<Last(argument)>>) ELSE NULL
           x == [type |-> type, value |-> <<>>]
           made == Made(w, x)
           to == Growing(w, type, argument, local)
           good(t) == /\ t.world \in Fine /\ Grown(w, t.world)
                      /\ t.world.ok => /\ t.object \in DOMAIN t.world.heap
                                       /\ t.world.heap[t.object].type = type
                                       /\ \/ t.world = w
                                          \/ /\ t.object = New(w) /\ Len(t.world.heap) = New(w)
                                             /\ t.world.heap[t.object].value = <<>>
<1>1. to = IF Typed(w, item) = type THEN [world |-> w, object |-> item]
           ELSE IF local THEN [world |-> PutLocal(made, argument, New(w)), object |-> New(w)]
           ELSE IF at.ok /\ at.object = w.current
           THEN [world |-> PutItem(made, w.current, argument, New(w)), object |-> New(w)]
           ELSE [world |-> Fails(w), object |-> NULL]
  BY DEF Growing, get_object_prefix_and_name_from_argument
<1>2. item \in Finds(w)
  <2>1. Has(w.locals, argument) => At(w.locals, argument) \in DOMAIN w.heap
    BY WorldIs, AtIn
  <2>2. at.ok => uobject_item(w, at.object, <<Last(argument)>>) \in Finds(w)
    BY FrontIs, ItemIs DEF Spots
  <2> QED BY <2>1, <2>2 DEF Finds
<1>3. Joins(w, x) /\ x.type = type /\ x.value = <<>> /\ type # "object"
  <2>1. <<>> \in Seq(ALine)
    OBVIOUS
  <2>2. <<>> \in Pairs(ALine, ALine)
    BY DEF Pairs, KeysOnce
  <2> QED BY <2>1, <2>2, ValueJoins DEF Lists
<1>4. /\ made \in Fine /\ Grown(w, made) /\ made.current = w.current /\ New(w) \in DOMAIN made.heap
      /\ made.heap[New(w)] = x /\ Len(made.heap) = New(w)
  <2> HIDE DEF x
  <2> QED BY <1>3, MadeIs
<1> HIDE DEF at, item, made, to, x
<1>5. CASE Typed(w, item) = type
  <2>1. to = [world |-> w, object |-> item]
    BY <1>1, <1>5
  <2>2. item \in DOMAIN w.heap /\ w.heap[item].type = type
    BY <1>2, <1>5, Zenon DEF Typed, Finds, Lists
  <2>3. to.world = w /\ to.object = item
    BY <2>1
  <2>4. good(to)
    BY <2>2, <2>3, GrownSame
  <2> QED BY <2>4 DEF to
<1>6. CASE Typed(w, item) # type /\ local
  <2> DEFINE u == PutLocal(made, argument, New(w))
  <2>1. to = [world |-> u, object |-> New(w)]
    BY <1>1, <1>6
  <2>2. u \in Fine /\ Grown(made, u) /\ u.heap = made.heap
    BY <1>4, PutLocalIs
  <2> HIDE DEF u
  <2>3. Grown(w, u)
    BY <1>4, <2>2, GrownOn
  <2>4. to.world = u /\ to.object = New(w)
    BY <2>1
  <2>5. good(to)
    BY <1>3, <1>4, <2>2, <2>3, <2>4
  <2> QED BY <2>5 DEF to
<1>7. CASE Typed(w, item) # type /\ ~local /\ at.ok /\ at.object = w.current
  <2> DEFINE c == w.current
             u == PutItem(made, c, argument, New(w))
             k == New(w)
  <2>1. to = [world |-> u, object |-> New(w)]
    BY <1>1, <1>7
  <2>2. IsUser(made, c)
    BY <1>4, WorldIs
  <2>3. c # New(w)
    BY <1>3, <1>4, <2>2 DEF IsUser
  <2> HIDE DEF c, u
  <2>4. /\ u \in Fine /\ Grown(made, u) /\ Len(u.heap) = Len(made.heap)
        /\ DOMAIN u.heap = DOMAIN made.heap
        /\ u.heap[New(w)] = made.heap[New(w)]
    BY <1>4, <2>2, <2>3, PutItemIs DEF u
  <2>5. Grown(w, u)
    BY <1>4, <2>4, GrownOn
  <2>6. to.world = u /\ to.object = New(w)
    BY <2>1
  <2>7. good(to)
    BY <1>3, <1>4, <2>4, <2>5, <2>6
  <2> QED BY <2>7 DEF to
<1>8. CASE Typed(w, item) # type /\ ~local /\ ~(at.ok /\ at.object = w.current)
  <2>1. to = [world |-> Fails(w), object |-> NULL]
    BY <1>1, <1>8
  <2>2. to.world = Fails(w)
    BY <2>1
  <2>3. good(to)
    BY <2>2, FailsIs
  <2> QED BY <2>3 DEF to
<1> QED BY <1>5, <1>6, <1>7, <1>8

\* The place of -insert is one in the array, or behind its last item.
LEMMA PlaceIs ==
    ASSUME NEW n \in Int, NEW count \in Nat
    PROVE  PlaceOf(n, count) \in 0..count
BY DEF PlaceOf

\* -insert n puts the lines behind the first k.
LEMMA InsertedIs ==
    ASSUME NEW items \in Seq(ALine), NEW n \in Int, NEW lines \in Seq(ALine)
    PROVE  LET k == PlaceOf(n, Len(items))
               new == IF lines = <<>> THEN << <<>> >> ELSE lines
           IN  /\ Inserted(items, n, lines) \in Seq(ALine)
               /\ new \in Seq(ALine) /\ Len(new) \in Nat \ {0}
               /\ Len(Inserted(items, n, lines)) = Len(items) + Len(new)
               /\ \A m \in 1..Len(new) : Inserted(items, n, lines)[k + m] = new[m]
<1> DEFINE A == ALine
           L == Len(items)
           k == PlaceOf(n, L)
           e == <<>>
           new == IF lines = <<>> THEN <<e>> ELSE lines
           a == SubSeq(items, 1, k)
           z == From(items, k + 1)
           all == Inserted(items, n, lines)
<1>1. items \in Seq(A) /\ lines \in Seq(A) /\ e \in A /\ L \in Nat /\ n \in Int
  BY DEF ALine
<1>2. all = (a \o new) \o z
  BY DEF Inserted
<1> HIDE DEF A, e, L
<1>3. k \in 0..L
  BY <1>1, PlaceIs
<1> HIDE DEF k
<1>4. new \in Seq(A) /\ Len(new) \in Nat /\ Len(new) # 0
  BY <1>1
<1>5. a \in Seq(A) /\ Len(a) = k
  BY <1>1, <1>3, FirstPart DEF L
<1>6. z \in Seq(A) /\ Len(z) = L - k
  <2>1. k + 1 \in Nat \ {0} /\ (k + 1 <= L => L - (k + 1) + 1 = L - k)
        /\ (~(k + 1 <= L) => L - k = 0)
    BY <1>1, <1>3
  <2>2. z \in Seq(A) /\ Len(z) = IF k + 1 <= L THEN L - (k + 1) + 1 ELSE 0
    BY <1>1, <2>1, FromIs DEF L
  <2> QED BY <2>1, <2>2
<1> HIDE DEF new, a, z, all
<1> DEFINE b == a \o new
<1>7. b \in Seq(A) /\ Len(b) = Len(a) + Len(new) /\ \A i \in 1..Len(a) + Len(new) :
          b[i] = IF i <= Len(a) THEN a[i] ELSE new[i - Len(a)]
  BY <1>4, <1>5, ConcatProperties
<1> DEFINE c == b \o z
<1> HIDE DEF b
<1>12. b \in Seq(A) /\ z \in Seq(A)
  BY <1>6, <1>7
<1>8. c \in Seq(A) /\ Len(c) = Len(b) + Len(z) /\ \A i \in 1..Len(b) + Len(z) :
          c[i] = IF i <= Len(b) THEN b[i] ELSE z[i - Len(b)]
  BY <1>12, ConcatProperties
<1>9. all = c
  BY <1>2 DEF b
<1> HIDE DEF c
<1>10. Len(all) = L + Len(new) /\ all \in Seq(A)
  BY <1>1, <1>3, <1>4, <1>5, <1>6, <1>7, <1>8, <1>9
<1>11. ASSUME NEW m \in 1..Len(new) PROVE all[k + m] = new[m]
  <2>1. k + m \in 1..Len(b) /\ k + m \in 1..(Len(b) + Len(z)) /\ ~(k + m <= k) /\ k + m - k = m
    BY <1>1, <1>3, <1>4, <1>5, <1>6, <1>7
  <2>2. c[k + m] = b[k + m]
    BY <1>8, <2>1
  <2>3. b[k + m] = new[m]
    <3>1. Len(a) = k /\ k + m \in 1..(Len(a) + Len(new))
      BY <1>5, <1>7, <2>1
    <3>2. b[k + m] = IF k + m <= Len(a) THEN a[k + m] ELSE new[k + m - Len(a)]
      BY <1>7, <3>1
    <3> HIDE DEF b
    <3> QED BY <2>1, <3>1, <3>2
  <2> QED BY <1>9, <2>2, <2>3
<1> QED BY <1>4, <1>10, <1>11 DEF A, L, k, new, e, all

\* -append puts pairs in.
LEMMA PairsPutGrows ==
    ASSUME NEW table \in Pairs(ALine, ALine), NEW lines \in Seq(ALine)
    PROVE  PairsPut(table, lines) \in Pairs(ALine, ALine)
           /\ Len(PairsPut(table, lines)) >= Len(table)
<1> DEFINE N == (Len(lines) + 1) \div 2
           A == ALine
           P == Pairs(A, A)
           S == {t \in P : Len(t) >= Len(table)}
<1>1. PICK f \in [0..N -> P] : /\ f[0] = table
                               /\ \A n \in 1..N : f[n] = PairStep(f[n - 1], lines, n)
                               /\ PairsPut(table, lines) = f[N]
  BY PairsPutIs
<1>2. N \in Nat /\ Len(lines) \in Nat /\ (\A i \in 1..Len(lines) : lines[i] \in A) /\ N \in 0..N
  <2>1. lines \in Seq(A)
    OBVIOUS
  <2> HIDE DEF A
  <2> QED BY <2>1
<1>3. table \in S
  <2>1. Len(table) \in Nat
    BY PairIs
  <2> QED BY <2>1
<1>4. ASSUME NEW n \in 1..N, NEW t \in S PROVE PairStep(t, lines, n) \in S
  <2> DEFINE k == 2 * n - 1
             m == 2 * n
             y == lines[k]
             i == IF m <= Len(lines) THEN lines[m] ELSE <<>>
  <2>1. k \in 1..Len(lines) /\ m \in Nat \ {0}
    BY <1>2
  <2>2. y \in A /\ i \in A
    BY <1>2, <2>1, LineAt
  <2>3. PairStep(t, lines, n) = Put(t, y, i)
    BY DEF PairStep
  <2> HIDE DEF A, k, m, y, i
  <2>4. Put(t, y, i) \in Pairs(A, A) /\ Len(Put(t, y, i)) = IF Has(t, y) THEN Len(t) ELSE Len(t) + 1
    BY <2>2, PutIs
  <2>5. Len(t) \in Nat /\ Len(table) \in Nat
    BY PairIs DEF A
  <2> QED BY <2>3, <2>4, <2>5
<1> HIDE DEF S, N
<1>5. \A n \in 0..N : f[n] \in S
  <2>1. \A n \in (0 + 1)..N : f[n - 1] \in S => f[n] \in S
    BY <1>1, <1>2, <1>4
  <2>2. f[0] \in S /\ 0 \in 0..N
    BY <1>1, <1>2, <1>3
  <2> QED BY <1>2, <2>1, <2>2, Within
<1>6. PairsPut(table, lines) \in S
  BY <1>1, <1>2, <1>5
<1> QED BY <1>6 DEF S
-----------------------------------------------------------------------------
(* Type correctness: the state in the words of the lemmas above.           *)

WorldOf(h, l, c) == [heap |-> h, locals |-> l, current |-> c, ok |-> TRUE]

\* The blocks that may be on the stack above a heap.
Kept(h) == {b \in Blocks : /\ WorldOf(h, b.locals, b.current) \in Fine
                           /\ b.kind = "object -new" => b.object \in DOMAIN h}

TypedNow ==
    /\ WorldOf(heap, locals, current) \in Fine /\ Len(heap) <= MaxObjects
    /\ environ \in Environs /\ gObjectsInPipe \subseteq DOMAIN heap /\ written \in Texts
    /\ blocks \in Seq(Kept(heap)) /\ Len(blocks) <= MaxBlocks
    /\ commands \in 0..MaxCommands /\ (blocks = <<>> => alive \/ commands > 0)

\* An environment, as the invariant writes it.
LEMMA EnvironIs ==
    ASSUME NEW e
    PROVE  e \in Environs <=> /\ DOMAIN e \subseteq Names \ {<<"">>}
                              /\ e = [a \in DOMAIN e |-> e[a]]
                              /\ \A a \in DOMAIN e : e[a] \in ALine
<1> DEFINE M == Names \ {<<"">>}
<1>1. Environs = UNION {[D -> ALine] : D \in SUBSET M}
  BY DEF Environs
<1> HIDE DEF M
<1>2. ASSUME e \in Environs
      PROVE  DOMAIN e \subseteq M /\ e = [a \in DOMAIN e |-> e[a]]
             /\ \A a \in DOMAIN e : e[a] \in ALine
  <2>1. PICK D \in SUBSET M : e \in [D -> ALine]
    BY <1>1, <1>2
  <2> QED BY <2>1
<1>3. ASSUME DOMAIN e \subseteq M, e = [a \in DOMAIN e |-> e[a]], \A a \in DOMAIN e : e[a] \in ALine
      PROVE  e \in Environs
  <2>1. e \in [DOMAIN e -> ALine] /\ DOMAIN e \in SUBSET M
    BY <1>3
  <2> QED BY <1>1, <2>1
<1> QED BY <1>2, <1>3, Zenon DEF M

\* A heap with other local variables and another current object.
LEMMA WorldOfIs ==
    ASSUME NEW w \in Fine, NEW l \in Pairs(Names, DOMAIN w.heap), NEW c, IsUser(w, c)
    PROVE  WorldOf(w.heap, l, c) \in Fine
<1> DEFINE u == WorldOf(w.heap, l, c)
<1>1. u.heap = w.heap /\ u.locals = l /\ u.current = c /\ u.ok = TRUE
  BY DEF WorldOf
<1>2. \A o : IsUser(u, o) <=> IsUser(w, o)
  BY <1>1 DEF IsUser
<1>3. l \in Pairs(Names, Nat) /\ c \in Nat /\ w.heap \in Seq(Objects)
  <2>1. \A n \in DOMAIN l : l[n][2] \in Nat
    BY PairIs, WorldIs
  <2> QED BY <2>1, PairsIn, UsersAre, WorldIs
<1>4. u \in Worlds
  BY <1>3 DEF WorldOf, Worlds
<1>5. \A o \in DOMAIN w.heap : w.heap[o].type = "object" => IsUser(w, o)
  BY DEF IsUser
<1> HIDE DEF u
<1>6. IsUser(u, Root) /\ IsUser(u, u.current) /\ Native \in DOMAIN u.heap
  BY <1>1, <1>2, WorldIs
<1>7. ASSUME NEW o \in DOMAIN u.heap, u.heap[o].type = "object"
      PROVE  /\ IsUser(u, u.heap[o].parent) /\ (o # Root => u.heap[o].parent < o)
             /\ u.heap[o].items \in Pairs(Names, DOMAIN u.heap)
  BY <1>1, <1>2, <1>5, <1>7, UsersAre
<1> QED BY <1>1, <1>4, <1>6, <1>7, IsFine DEF u

\* The types of the objects there were stay, and that is enough for blocks.
Wider(v, w) ==
    /\ Len(w.heap) >= Len(v.heap)
    /\ \A o \in DOMAIN v.heap : w.heap[o].type = v.heap[o].type

\* In a wider world the objects are of the types they were.
LEMMA WiderUsers ==
    ASSUME NEW v \in Fine, NEW w \in Fine, Wider(v, w)
    PROVE  /\ \A o : IsUser(v, o) => IsUser(w, o)
           /\ DOMAIN v.heap \subseteq DOMAIN w.heap
<1>1. DOMAIN v.heap \subseteq DOMAIN w.heap
  BY WorldIs DEF Wider
<1> QED BY <1>1 DEF Wider, IsUser

\* So the blocks that could wait above the old heap can wait above the new one.
LEMMA KeptOn ==
    ASSUME NEW v \in Fine, NEW w \in Fine, Wider(v, w)
    PROVE  Kept(v.heap) \subseteq Kept(w.heap)
<1>1. SUFFICES ASSUME NEW b \in Kept(v.heap) PROVE b \in Kept(w.heap)
  OBVIOUS
<1> DEFINE u == WorldOf(v.heap, b.locals, b.current)
<1>2. b \in Blocks /\ u \in Fine /\ (b.kind = "object -new" => b.object \in DOMAIN v.heap)
  BY Zenon DEF Kept
<1>3. u.heap = v.heap /\ u.locals = b.locals /\ u.current = b.current
  BY DEF WorldOf
<1> HIDE DEF u
<1>4. IsUser(u, u.current) /\ u.locals \in Pairs(Names, DOMAIN u.heap)
  BY <1>2, WorldIs, Zenon
<1>5. IsUser(v, b.current) /\ b.locals \in Pairs(Names, DOMAIN v.heap)
  BY <1>3, <1>4 DEF IsUser
<1>6. IsUser(w, b.current) /\ DOMAIN v.heap \subseteq DOMAIN w.heap
  BY <1>5, WiderUsers
<1>7. b.locals \in Pairs(Names, DOMAIN w.heap)
  <2> DEFINE V == DOMAIN v.heap
             W == DOMAIN w.heap
             l == b.locals
  <2>1. l \in Pairs(Names, V) /\ V \subseteq W
    BY <1>5, <1>6
  <2> HIDE DEF V, W, l
  <2>2. \A n \in DOMAIN l : l[n][2] \in W
    BY <2>1, PairIs
  <2>3. l \in Pairs(Names, W)
    BY <2>1, <2>2, PairsIn
  <2> QED BY <2>3 DEF W, l
<1>8. WorldOf(w.heap, b.locals, b.current) \in Fine
  BY <1>6, <1>7, WorldOfIs
<1> QED BY <1>2, <1>6, <1>8, Zenon DEF Kept

\* Kept in the words of ObjectsTyped.
LEMMA KeptIs ==
    ASSUME NEW w \in Fine, NEW b
    PROVE  b \in Seq(Kept(w.heap)) <=>
              /\ b \in Seq(Blocks)
              /\ \A n \in DOMAIN b :
                    /\ Sound([w EXCEPT !.current = b[n].current, !.locals = b[n].locals])
                    /\ b[n].kind = "object -new" => b[n].object \in DOMAIN w.heap
<1> DEFINE h == w.heap
           Good(c) == /\ Sound([w EXCEPT !.current = c.current, !.locals = c.locals])
                      /\ c.kind = "object -new" => c.object \in DOMAIN h
<1>1. ASSUME NEW c \in Blocks PROVE c \in Kept(h) <=> Good(c)
  <2> DEFINE u == WorldOf(h, c.locals, c.current)
             x == [w EXCEPT !.current = c.current, !.locals = c.locals]
  <2>1. h \in Seq(Objects) /\ c.locals \in Pairs(Names, Nat) /\ c.current \in Nat
    BY WorldIs, Zenon DEF Blocks
  <2>2. u \in Worlds
    BY <2>1 DEF Worlds, WorldOf
  <2>3. x.heap = h /\ x.locals = c.locals /\ x.current = c.current
    BY WorldIs DEF Worlds
  <2>4. u.heap = h /\ u.locals = c.locals /\ u.current = c.current
    BY DEF WorldOf
  <2> HIDE DEF u, x
  <2>5. \A o : IsUser(x, o) <=> IsUser(u, o)
    BY <2>3, <2>4 DEF IsUser
  <2>6. Sound(x) <=> Sound(u)
    BY <2>3, <2>4, <2>5 DEF Sound
  <2>7. u \in Fine <=> Sound(x)
    BY <2>2, <2>6 DEF Fine
  <2> QED BY <2>7, Zenon DEF Kept, u, x
<1>2. Kept(h) \subseteq Blocks
  BY Zenon DEF Kept
<1> HIDE DEF Good, h
<1> DEFINE B == Blocks
           K == Kept(h)
<1>3. K \subseteq B /\ \A c \in B : c \in K <=> Good(c)
  BY <1>1, <1>2
<1> HIDE DEF B, K
<1>4. ASSUME b \in Seq(K) PROVE b \in Seq(B) /\ \A n \in DOMAIN b : Good(b[n])
  <2>1. \A n \in 1..Len(b) : b[n] \in K
    BY <1>4
  <2>2. \A n \in 1..Len(b) : b[n] \in B /\ Good(b[n])
    BY <1>3, <2>1
  <2> QED BY <1>4, <2>2
<1>5. ASSUME b \in Seq(B), \A n \in DOMAIN b : Good(b[n]) PROVE b \in Seq(K)
  <2>1. \A n \in 1..Len(b) : b[n] \in B /\ Good(b[n])
    BY <1>5
  <2>2. \A n \in 1..Len(b) : b[n] \in K
    BY <1>3, <2>1
  <2> QED BY <1>5, <2>2
<1> QED BY <1>4, <1>5, Zenon DEF B, K, Good, h

\* TypedNow is ObjectsTyped.
LEMMA TypedIs ==
    /\ ObjectsTyped <=> TypedNow
    /\ ObjectsTyped' <=> TypedNow'
<1>1. World = WorldOf(heap, locals, current) /\ World' = WorldOf(heap', locals', current')
  BY DEF World, WorldOf
<1>2. World.heap = heap /\ World'.heap = heap'
  BY DEF World
<1>3. ObjectsTyped <=> TypedNow
  <2>1. CASE World \in Fine
    <3>1. environ \in Environs <=>
            /\ DOMAIN environ \subseteq Names \ {<<"">>}
               /\ environ = [a \in DOMAIN environ |-> environ[a]]
            /\ \A a \in DOMAIN environ : environ[a] \in ALine
      BY EnvironIs, Zenon
    <3>2. blocks \in Seq(Kept(heap)) <=>
            /\ blocks \in Seq(Blocks)
            /\ \A n \in DOMAIN blocks :
                  /\ Sound([World EXCEPT !.current = blocks[n].current,
                            !.locals = blocks[n].locals])
                  /\ blocks[n].kind = "object -new" => blocks[n].object \in DOMAIN heap
      BY <1>2, <2>1, KeptIs, Zenon
    <3>3. World \in Worlds /\ Sound(World)
      BY <2>1, WorldIs
    <3> QED BY <1>1, <2>1, <3>1, <3>2, <3>3, Zenon DEF ObjectsTyped, TypedNow
  <2>2. CASE World \notin Fine
    BY <1>1, <2>2, Zenon DEF ObjectsTyped, TypedNow, Fine
  <2> QED BY <2>1, <2>2
<1>4. ObjectsTyped' <=> TypedNow'
  <2>1. CASE World' \in Fine
    <3>1. environ' \in Environs <=>
            /\ DOMAIN environ' \subseteq Names \ {<<"">>}
               /\ environ' = [a \in DOMAIN environ' |-> environ'[a]]
            /\ \A a \in DOMAIN environ' : environ'[a] \in ALine
      BY EnvironIs, Zenon
    <3>2. blocks' \in Seq(Kept(heap')) <=>
            /\ blocks' \in Seq(Blocks)
            /\ \A n \in DOMAIN blocks' :
                  /\ Sound([World' EXCEPT !.current = blocks'[n].current,
                            !.locals = blocks'[n].locals])
                  /\ blocks'[n].kind = "object -new" => blocks'[n].object \in DOMAIN heap'
      BY <1>2, <2>1, KeptIs, Zenon
    <3>3. World' \in Worlds /\ Sound(World')
      BY <2>1, WorldIs
    <3> QED BY <1>1, <2>1, <3>1, <3>2, <3>3, Zenon DEF ObjectsTyped, TypedNow
  <2>2. CASE World' \notin Fine
    BY <1>1, <2>2, Zenon DEF ObjectsTyped, TypedNow, Fine
  <2> QED BY <2>1, <2>2
<1> QED BY <1>3, <1>4

\* The world of a state with these types.
LEMMA WorldNow ==
    ASSUME TypedNow
    PROVE  /\ World \in Fine /\ World.ok = TRUE /\ World.heap = heap /\ World.locals = locals
           /\ World.current = current /\ Len(heap) <= MaxObjects /\ Len(heap) \in Nat
           /\ DOMAIN heap = 1..Len(heap) /\ World \in Piping
<1>1. World = WorldOf(heap, locals, current)
  BY DEF World, WorldOf
<1>2. World.ok = TRUE /\ World.heap = heap /\ World.locals = locals /\ World.current = current
  BY DEF World
<1>3. World \in Fine
  BY <1>1 DEF TypedNow
<1>4. Len(heap) \in Nat /\ DOMAIN heap = 1..Len(heap)
  BY <1>2, <1>3, WorldIs
<1> QED BY <1>2, <1>3, <1>4 DEF TypedNow, Piping

\* What a command that only adds leaves of every object is what ValueStays asks.
LEMMA GrownStays ==
    ASSUME TypedNow, NEW w, Grown(World, w), heap' = w.heap
    PROVE  ValueStays
<1>1. World \in Fine /\ World.heap = heap
  BY WorldNow
<1>2. Len(heap') >= Len(heap)
  BY <1>1 DEF Grown
<1>3. ASSUME NEW o \in DOMAIN heap
      PROVE  /\ heap'[o].type = heap[o].type
             /\ heap[o].type = "object" =>
                  /\ heap'[o].parent = heap[o].parent /\ heap'[o].name = heap[o].name
                  /\ \A n \in DOMAIN heap[o].items : Has(heap'[o].items, heap[o].items[n][1])
             /\ heap[o].type # "object" => heap'[o] = heap[o]
  <2>1. /\ w.heap[o].type = heap[o].type
        /\ heap[o].type # "object" => w.heap[o] = heap[o]
        /\ heap[o].type = "object" =>
              /\ w.heap[o].parent = heap[o].parent /\ w.heap[o].name = heap[o].name
              /\ \A key : Has(heap[o].items, key) => Has(w.heap[o].items, key)
    BY <1>1 DEF Grown
  <2>2. \A n \in DOMAIN heap[o].items : Has(heap[o].items, heap[o].items[n][1])
    BY DEF Has
  <2> QED BY <2>1, <2>2
<1> QED BY <1>2, <1>3, Zenon DEF ValueStays

\* A world that has lost nothing is wider.
LEMMA GrownWider ==
    ASSUME NEW v, NEW w, Grown(v, w)
    PROVE  Wider(v, w)
BY DEF Grown, Wider

\* The environment of a step whose blocks stay.
Around(h) == /\ current' = current /\ blocks' = blocks /\ environ' \in Environs
             /\ gObjectsInPipe' \subseteq DOMAIN h

\* What a command does to the types.
LEMMA RanTyped ==
    ASSUME TypedNow, NEW w \in Fine, Wider(World, w), NEW out \in Texts,
           NEW command, NEW rcode, Ran(command, w, out, rcode), Around(w.heap)
    PROVE  TypedNow'
<1>1. World \in Fine /\ World.heap = heap /\ World.locals = locals /\ World.current = current
  BY WorldNow
<1>2. /\ Goes /\ Len(w.heap) <= MaxObjects /\ heap' = w.heap /\ locals' = w.locals
      /\ written' = IF blocks = <<>> THEN out ELSE written \o out
      /\ commands' = commands + 1
  BY DEF Ran
<1>3. IsUser(w, current)
  BY <1>1, WiderUsers, WorldIs
<1>4. WorldOf(heap', locals', current') \in Fine
  <2>1. w.locals \in Pairs(Names, DOMAIN w.heap)
    BY WorldIs
  <2>2. WorldOf(w.heap, w.locals, current) \in Fine
    BY <1>3, <2>1, WorldOfIs
  <2> QED BY <1>2, <2>2 DEF Around
<1>5. blocks' \in Seq(Kept(heap')) /\ Len(blocks') <= MaxBlocks
  <2>1. Kept(heap) \subseteq Kept(w.heap)
    BY <1>1, KeptOn
  <2> DEFINE K == Kept(heap)
             J == Kept(w.heap)
  <2>2. blocks \in Seq(K) /\ K \subseteq J /\ Len(blocks) <= MaxBlocks
    BY <2>1 DEF TypedNow
  <2> HIDE DEF K, J
  <2>3. blocks \in Seq(J)
    BY <2>2
  <2> QED BY <1>2, <2>2, <2>3 DEF J, Around
<1>6. written' \in Texts
  <2>1. written \in Texts
    BY DEF TypedNow
  <2> DEFINE S == Words
  <2>2. Texts = Seq(S)
    BY DEF Texts
  <2> HIDE DEF S
  <2>3. written \o out \in Seq(S)
    BY <2>1, <2>2
  <2> QED BY <1>2, <2>2, <2>3
<1>7. commands' \in 0..MaxCommands /\ commands' > 0
  <2>1. commands \in Nat /\ commands < MaxCommands
    BY <1>2 DEF TypedNow, Goes
  <2> QED BY <1>2, <2>1, BoundsAssumption
<1> QED BY <1>2, <1>4, <1>5, <1>6, <1>7 DEF TypedNow, Around

\* For every command that only adds.
LEMMA RanIs ==
    ASSUME TypedNow, NEW w \in Fine, Grown(World, w), NEW out \in Texts,
           NEW command, NEW rcode, Ran(command, w, out, rcode), Around(w.heap)
    PROVE  TypedNow' /\ ValueStays
<1>1. TypedNow'
  BY RanTyped, GrownWider
<1>2. heap' = w.heap
  BY DEF Ran
<1> QED BY <1>1, <1>2, GrownStays
-----------------------------------------------------------------------------
(* What the commands print is text.                                        *)

\* A word is text.
LEMMA WordLine ==
    ASSUME NEW x \in Words
    PROVE  <<x>> \in Texts /\ Line(<<x>>) \in Texts
<1>1. <<x>> \in Texts
  <2> DEFINE W == Words
  <2>1. x \in W
    OBVIOUS
  <2> HIDE DEF W
  <2>2. <<x>> \in Seq(W)
    BY <2>1
  <2> QED BY <2>2 DEF W, Texts
<1> QED BY <1>1, LineIs

\* A number is printed as text.
LEMMA DecimalIs ==
    ASSUME NEW n
    PROVE  Numeral(n) \in Words /\ Decimal(n) \in Texts
<1>1. Numeral(n) \in Words
  BY Zenon DEF Numeral, Words
<1> QED BY <1>1, WordLine DEF Decimal

\* Nothing is text.
LEMMA NoText == <<>> \in Texts /\ <<>> \in ALine /\ Line(<<>>) \in Texts
<1>1. <<>> \in Texts /\ <<>> \in ALine
  BY DEF Texts, ALine
<1> QED BY <1>1, LineIs

\* Two texts end to end are text.
LEMMA JoinedIs ==
    ASSUME NEW s \in Texts, NEW t \in Texts
    PROVE  s \o t \in Texts
<1> DEFINE W == Words
<1>1. s \in Seq(W) /\ t \in Seq(W)
  BY DEF Texts
<1> HIDE DEF W
<1>2. s \o t \in Seq(W)
  BY <1>1
<1> QED BY <1>2 DEF W, Texts

\* So are any number.
LEMMA FlatTexts ==
    ASSUME NEW N \in Nat, NEW q, q = [n \in 1..N |-> q[n]], \A n \in 1..N : q[n] \in Texts
    PROVE  FlattenSeq(q) \in Texts
<1> DEFINE W == Words
           T == Seq(W)
<1>1. T = Texts
  BY DEF Texts
<1> HIDE DEF T
<1>2. q \in Seq(T)
  BY <1>1, SequenceOf
<1> HIDE DEF W
<1>3. FlattenSeq(q) \in T
  BY <1>2, FlatIn DEF T
<1> QED BY <1>1, <1>3

\* All but the last of a sequence.
LEMMA FrontOf ==
    ASSUME NEW S, NEW s \in Seq(S)
    PROVE  Front(s) \in Seq(S)
<1>1. CASE s = <<>>
  BY <1>1 DEF Front
<1>2. CASE s # <<>>
  <2>1. Len(s) - 1 \in 0..Len(s)
    BY <1>2
  <2> QED BY <2>1, FirstPart DEF Front
<1> QED BY <1>1, <1>2

\* What -shift passes on is text.
LEMMA PassedIs ==
    ASSUME NEW lines \in Seq(ALine), NEW n \in Nat \ {0}, NEW shift
    PROVE  Passed(shift, lines, n) \in Texts
<1>1. From(lines, n) \in Seq(ALine)
  BY FromIs
<1>2. Text(From(lines, n)) \in Texts
  BY <1>1, TextIs
<1> QED BY <1>2, NoText DEF Passed

\* What a filter reads is text.
LEMMA FilterIs ==
    ASSUME TypedNow, NEW in \in Filters
    PROVE  in.text \in Texts /\ LinesOf(in.text) \in Seq(ALine) /\ Len(LinesOf(in.text)) \in Nat
<1>1. in.text \in Inputs \cup {written}
  BY DEF Filters
<1>2. in.text \in Texts
  BY <1>1, ArgumentsAssumption DEF TypedNow
<1>3. LinesOf(in.text) \in Seq(ALine)
  BY <1>2, LinesIn
<1> QED BY <1>2, <1>3

\* Whether a command succeeds is no part of the objects.
LEMMA OkIs ==
    ASSUME NEW w \in Fine, NEW b \in BOOLEAN
    PROVE  /\ [w EXCEPT !.ok = b] \in Fine /\ Grown(w, [w EXCEPT !.ok = b])
           /\ [w EXCEPT !.ok = b].heap = w.heap
<1> DEFINE u == [w EXCEPT !.ok = b]
           O == Objects
<1>1. w \in [heap : Seq(O), locals : Pairs(Names, Nat), current : Nat, ok : BOOLEAN]
  BY WorldIs DEF Worlds
<1> HIDE DEF O
<1>2. u \in [heap : Seq(O), locals : Pairs(Names, Nat), current : Nat, ok : BOOLEAN]
  BY <1>1
<1>3. u.heap = w.heap /\ u.locals = w.locals /\ u.current = w.current
  BY <1>1
<1> HIDE DEF u
<1>4. u \in Worlds
  BY <1>2 DEF Worlds, O
<1>5. Sound(u)
  <2>1. Sound(w)
    BY WorldIs
  <2> QED BY <2>1, <1>3 DEF Sound, IsUser
<1> QED BY <1>3, <1>4, <1>5, GrownSame DEF u, Fine

\* What "ary -index" prints is text.
LEMMA IndexedIs ==
    ASSUME NEW items \in Seq(ALine), NEW n \in Int
    PROVE  Indexed(items, n) \in Texts
<1> DEFINE k == IF n < 0 THEN n + Len(items) ELSE n
           A == ALine
<1>1. Indexed(items, n) = IF items = <<>> THEN <<>>
          ELSE IF k \in 0..(Len(items) - 1) THEN Line(items[k + 1]) ELSE Line(<<>>)
  BY DEF Indexed
<1>2. items \in Seq(A)
  OBVIOUS
<1> HIDE DEF k, A
<1>3. k \in 0..(Len(items) - 1) => items[k + 1] \in A
  BY <1>2
<1>4. k \in 0..(Len(items) - 1) => Line(items[k + 1]) \in Texts
  BY <1>3, LineIs DEF A
<1> QED BY <1>1, <1>4, NoText

\* What "hash" prints is text.
LEMMA PairsTextIs ==
    ASSUME NEW table \in Pairs(ALine, ALine)
    PROVE  /\ table \in Seq(Seq(ALine)) /\ Len(table) \in Nat
           /\ FlattenSeq(table) \in Seq(ALine) /\ PairsText(table) \in Texts
<1> DEFINE A == ALine
           T == Seq(A)
<1>1. /\ Len(table) \in Nat /\ DOMAIN table = 1..Len(table)
      /\ \A n \in 1..Len(table) : table[n] = <<table[n][1], table[n][2]>> /\ table[n][1] \in A
         /\ table[n][2] \in A
  BY PairIs
<1>2. table = [n \in 1..Len(table) |-> table[n]]
  <2> DEFINE P == A \X A
  <2>1. table \in Seq(P)
    BY DEF Pairs
  <2> HIDE DEF P
  <2> QED BY <2>1
<1> HIDE DEF A
<1>3. ASSUME NEW n \in 1..Len(table) PROVE table[n] \in T
  <2> DEFINE a == table[n][1]
             b == table[n][2]
  <2>1. a \in A /\ b \in A /\ table[n] = <<a, b>>
    BY <1>1
  <2> HIDE DEF a, b
  <2>2. <<a, b>> \in Seq(A)
    BY <2>1
  <2> QED BY <2>1, <2>2
<1> HIDE DEF T
<1>4. table \in Seq(T)
  BY <1>1, <1>2, <1>3, SequenceOf
<1>5. FlattenSeq(table) \in Seq(A)
  BY <1>4, FlatIn DEF T
<1> QED BY <1>1, <1>4, <1>5, TextIs DEF A, T, PairsText

\* What "typeof" prints is text.
LEMMA KindTextIs ==
    ASSUME NEW x \in Objects
    PROVE  x.type \in Words /\ Kind(x) \in Texts
<1>1. x.type \in Words
  BY KindIs, Zenon DEF Words
<1> QED BY <1>1, WordLine DEF Kind

\* A name with its "::"s is text.
LEMMA WrittenNameIs ==
    ASSUME NEW argument \in Names
    PROVE  Written(argument) \in Texts
<1> DEFINE N == Len(argument)
           c == "::"
           q == [n \in DOMAIN argument |-> IF n = 1 THEN <<argument[1]>> ELSE <<c, argument[n]>>]
           W == Words
<1>1. N \in Nat /\ DOMAIN argument = 1..N /\ argument \in Seq(W) /\ c \in W
  BY NameIs, Zenon DEF Names, Words
<1> HIDE DEF W, c
<1>2. \A n \in 1..N : argument[n] \in W
  BY <1>1
<1> HIDE DEF N
<1>3. \A n \in 1..N : q[n] \in Seq(W)
  BY <1>1, <1>2
<1>4. q = [n \in 1..N |-> q[n]]
  BY <1>1
<1>5. Written(argument) = FlattenSeq(q)
  BY DEF Written, c
<1> HIDE DEF q
<1>6. \A n \in 1..N : q[n] \in Texts
  BY <1>3 DEF Texts, W
<1> QED BY <1>1, <1>4, <1>5, <1>6, FlatTexts

\* What "objinfo" prints is text.
LEMMA ObjectInfoIs ==
    ASSUME NEW x \in Objects
    PROVE  object_info(x) \in Texts
<1> DEFINE a == "Type: "
           b == x.type
           c == Numeral(Counted(x))
           W == Words
<1>1. a \in W /\ b \in W /\ c \in W
  BY KindTextIs, DecimalIs, Zenon DEF Words
<1>2. object_info(x) = Line(<<a, b, c>>)
  BY DEF object_info
<1> HIDE DEF a, b, c, W
<1>3. <<a, b, c>> \in Seq(W)
  BY <1>1
<1> QED BY <1>2, <1>3, LineIs DEF W, Texts

\* The line show writes of an item.
LEMMA ItemTextIs ==
    ASSUME NEW name \in Names, NEW x \in Objects
    PROVE  Line(Written(name) \o <<": ", x.type>>) \in Texts
<1> DEFINE a == ": "
           b == x.type
           W == Words
<1>1. a \in W /\ b \in W
  BY KindTextIs, Zenon DEF Words
<1> HIDE DEF a, b, W
<1>2. <<a, b>> \in Seq(W)
  BY <1>1
<1>3. Written(name) \o <<a, b>> \in Texts
  BY <1>2, WrittenNameIs, JoinedIs DEF W, Texts
<1> QED BY <1>3, LineIs, Zenon DEF a, b

\* What pwo has written when it comes to an object.
CwoFrom(f) ==
    f = [o \in 0..Len(heap) |->
            IF ~IsUser(World, o) THEN <<>>
            ELSE IF o = Root THEN Written(heap[o].name) \o <<"::">>
            ELSE f[heap[o].parent] \o Written(heap[o].name) \o <<"::">>]

\* What "pwo" prints of an object begins with what it prints of its parent.
LEMMA CwoIs ==
    ASSUME TypedNow
    PROVE  \E f : CwoFrom(f) /\ f \in [0..Len(heap) -> Texts] /\ \A o : output_cwo(o) = f[o]
<1> DEFINE N == Len(heap)
           S == Texts
           c == <<"::">>
           name(n) == Written(heap[n].name)
           before == [n \in 1..N |-> IF IsUser(World, n) /\ n # Root THEN heap[n].parent ELSE 0]
           Make == [n \in 1..N |-> [x \in S |-> IF ~IsUser(World, n) THEN <<>>
                        ELSE IF n = Root THEN name(n) \o c ELSE (x \o name(n)) \o c]]
<1>1. N \in Nat /\ <<>> \in S /\ c \in S /\ World \in Fine /\ World.heap = heap
  <2>1. "::" \in Words
    BY DEF Words
  <2> QED BY <2>1, WorldNow, NoText, WordLine
<1>2. \A n \in 1..N : IsUser(World, n) =>
          name(n) \in S /\ (n # Root => heap[n].parent \in 1..N /\ heap[n].parent < n)
  BY <1>1, UsersAre, WrittenNameIs
<1>3. before \in Earlier(N)
  <2>1. \A n \in 1..N : before[n] \in 0..N /\ before[n] < n
    BY <1>1, <1>2
  <2> HIDE DEF N
  <2> QED BY <2>1 DEF Earlier
<1> HIDE DEF c, name, S, N
<1>4. \A n \in 1..N, x \in S : IsUser(World, n) => name(n) \o c \in S /\ (x \o name(n)) \o c \in S
  BY <1>1, <1>2, JoinedIs DEF S
<1>5. Make \in Makes(N, S)
  BY <1>1, <1>4 DEF Makes
<1>6. \A n \in 1..N, x \in S : Make[n][x] = IF ~IsUser(World, n) THEN <<>>
                        ELSE IF n = Root THEN name(n) \o c ELSE (x \o name(n)) \o c
  OBVIOUS
<1>7. \A n \in 1..N : before[n] = IF IsUser(World, n) /\ n # Root THEN heap[n].parent ELSE 0
  OBVIOUS
<1> HIDE DEF Make, before
<1>8. PICK f : Follows(f, N, S, <<>>, before, Make)
  BY <1>1, <1>3, <1>5, Fold
<1>9. f \in [0..N -> S] /\ f[0] = <<>> /\ \A n \in 1..N : f[n] = Make[n][f[before[n]]]
  BY <1>8 DEF Follows
<1>10. ~IsUser(World, 0)
  BY <1>1, WorldIs DEF IsUser
<1>11. CwoFrom(f)
  <2> DEFINE g == [o \in 0..N |-> IF ~IsUser(World, o) THEN <<>>
                        ELSE IF o = Root THEN name(o) \o c
                        ELSE (f[heap[o].parent] \o name(o)) \o c]
  <2>1. ASSUME NEW n \in 0..N PROVE f[n] = g[n]
    <3>1. CASE n = 0
      BY <1>9, <1>10, <3>1
    <3>2. CASE n # 0
      <4>1. n \in 1..N /\ before[n] \in 0..N /\ f[before[n]] \in S
        BY <1>1, <1>3, <1>9, <3>2 DEF Earlier
      <4>2. f[n] = IF ~IsUser(World, n) THEN <<>>
                   ELSE IF n = Root THEN name(n) \o c ELSE (f[before[n]] \o name(n)) \o c
        BY <1>6, <1>9, <4>1
      <4> QED BY <1>7, <4>1, <4>2
    <3> QED BY <3>1, <3>2
  <2>2. DOMAIN f = 0..N /\ f = [n \in 0..N |-> f[n]]
    BY <1>9
  <2>3. f = g
    BY <2>1, <2>2
  <2> QED BY <2>3 DEF CwoFrom, N, name, c
<1> DEFINE from == CHOOSE g : CwoFrom(g)
<1>12. CwoFrom(from)
  BY <1>11
<1>13. \A o : output_cwo(o) = from[o]
  BY DEF output_cwo, CwoFrom
<1> HIDE DEF from
<1>14. from = [o \in 0..N |-> IF ~IsUser(World, o) THEN <<>>
                        ELSE IF o = Root THEN name(o) \o c
                        ELSE (from[heap[o].parent] \o name(o)) \o c]
  BY <1>12 DEF CwoFrom, N, name, c
<1>15. \A n \in 0..N : from[n] = IF ~IsUser(World, n) THEN <<>>
                        ELSE IF n = Root THEN name(n) \o c
                        ELSE (from[heap[n].parent] \o name(n)) \o c
  BY <1>14, Zenon
<1>16. ASSUME NEW n \in 0..N PROVE from[n] \in S
  <2> DEFINE T == {k \in 0..N : from[k] \notin S}
  <2>1. SUFFICES ASSUME T # {} PROVE FALSE
    OBVIOUS
  <2>2. PICK k \in T : \A j \in T : k <= j
    <3>1. T \in SUBSET Nat
      BY <1>1
    <3> HIDE DEF T
    <3> QED BY <2>1, <3>1, LeastIn
  <2>3. k \in 1..N /\ from[k] \notin S /\ IsUser(World, k) /\ k # Root
    <3>1. k \in 0..N /\ from[k] \notin S
      BY <2>2
    <3>2. k # 0
      BY <1>1, <1>10, <1>15, <3>1
    <3>3. IsUser(World, k)
      BY <1>1, <1>15, <3>1
    <3>4. k # Root
      BY <1>1, <1>4, <1>15, <3>1, <3>2, <3>3
    <3> QED BY <1>1, <3>1, <3>2, <3>3, <3>4
  <2>4. heap[k].parent \in 1..N /\ heap[k].parent < k
    BY <1>2, <2>3
  <2>5. from[heap[k].parent] \in S
    BY <2>2, <2>3, <2>4
  <2>6. (from[heap[k].parent] \o name(k)) \o c \in S
    BY <1>4, <2>3, <2>5
  <2> QED BY <1>15, <2>3, <2>6
<1>17. from \in [0..N -> S]
  BY <1>14, <1>16
<1> QED BY <1>12, <1>13, <1>17 DEF S, N

\* What "pwo" prints is text.
LEMMA CwoLine ==
    ASSUME TypedNow
    PROVE  Line(Front(output_cwo(current))) \in Texts
<1>1. PICK f : f \in [0..Len(heap) -> Texts] /\ \A o : output_cwo(o) = f[o]
  BY CwoIs
<1>2. current \in 0..Len(heap)
  <2>1. IsUser(World, current) /\ World \in Fine /\ World.heap = heap
    BY WorldNow, WorldIs
  <2> QED BY <2>1, UsersAre
<1>3. output_cwo(current) \in Texts
  BY <1>1, <1>2
<1>4. Front(output_cwo(current)) \in Texts
  <2> DEFINE W == Words
             s == output_cwo(current)
  <2>1. s \in Seq(W)
    BY <1>3 DEF Texts
  <2> HIDE DEF W, s
  <2>2. Front(s) \in Seq(W)
    BY <2>1, FrontOf
  <2> QED BY <2>2 DEF W, s, Texts
<1> QED BY <1>4, LineIs
-----------------------------------------------------------------------------
(* The steps.                                                              *)

\* A command has arguments, and they are names.
LEMMA ArgsAre ==
    ASSUME NEW args \in Arguments
    PROVE  /\ args \in Seq(Names) /\ args # <<>> /\ Len(args) \in Nat \ {0} /\ args[1] \in Names
           /\ \A n \in 1..Len(args) : args[n] \in Names
           /\ ToSet(args) \subseteq Names
<1>1. args \in Seq(Names) /\ args # <<>>
  BY ArgumentsAssumption
<1> DEFINE K == Names
<1>2. args \in Seq(K) /\ args # <<>>
  BY <1>1
<1> HIDE DEF K
<1>3. Len(args) \in Nat \ {0} /\ DOMAIN args = 1..Len(args)
  BY <1>2
<1>4. \A n \in 1..Len(args) : args[n] \in K
  BY <1>2
<1>5. ToSet(args) \subseteq K
  BY <1>3, <1>4 DEF ToSet
<1> QED BY <1>1, <1>3, <1>4, <1>5 DEF K

\* Each of them is a name.
LEMMA ArgumentsAre ==
    ASSUME NEW argument \in UNION {ToSet(args) : args \in Arguments}
    PROVE  argument \in Names
BY ArgsAre

\* A command that leaves the rest alone keeps it typed.
LEMMA RestAround ==
    ASSUME TypedNow, NEW w \in Fine, Wider(World, w),
           UNCHANGED <<current, environ, gObjectsInPipe, blocks>>
    PROVE  Around(w.heap)
<1>1. DOMAIN heap \subseteq DOMAIN w.heap
  BY WorldNow, WiderUsers
<1> QED BY <1>1 DEF TypedNow, Around

\* A command that makes a world in which nothing is lost, prints text and leaves the
\* rest alone keeps the types, and the values of what was there.
LEMMA RanRest ==
    ASSUME TypedNow, NEW w \in Fine, Grown(World, w), NEW out \in Texts, NEW command, NEW rcode,
           Ran(command, w, out, rcode), UNCHANGED <<current, environ, gObjectsInPipe, blocks>>
    PROVE  TypedNow' /\ ValueStays
<1>1. Around(w.heap)
  BY GrownWider, RestAround
<1> QED BY <1>1, RanIs

\* A command that only writes, whether it succeeds or not.
LEMMA RanWrites ==
    ASSUME TypedNow, NEW ok \in BOOLEAN, NEW out \in Texts, NEW command, NEW rcode,
           Ran(command, [World EXCEPT !.ok = ok], out, rcode),
           UNCHANGED <<current, environ, gObjectsInPipe, blocks>>
    PROVE  TypedNow' /\ ValueStays
<1> DEFINE w == [World EXCEPT !.ok = ok]
<1>1. w \in Fine /\ Grown(World, w)
  BY WorldNow, OkIs
<1> HIDE DEF w
<1>2. Ran(command, w, out, rcode)
  BY DEF w
<1> QED BY <1>1, <1>2, RanRest

\* The commands that print do so.
LEMMA PrintsIs ==
    ASSUME TypedNow, NEW args \in Arguments, NEW types, NEW shown, Shows(World, types, shown),
           NEW name, NEW n, Prints(name, args, n, types, shown)
    PROVE  TypedNow' /\ ValueStays
<1>1. PICK printed \in {Printed(World, args, types, shown)} :
          /\ Ran([Command(name, args, NoPipe) EXCEPT !.n = n], [World EXCEPT !.ok = printed.ok],
                 printed.out, 0)
          /\ Rest
  BY DEF Prints
<1>2. printed \in Printing(World)
  <2> DEFINE S == Printing(World)
  <2>1. args \in Seq(Names) /\ World \in Fine
    BY ArgsAre, WorldNow
  <2>2. PICK f \in [0..Len(args) -> S] : Printed(World, args, types, shown) = f[Len(args)]
    BY <2>1, PrintedIs
  <2> HIDE DEF S
  <2>3. Len(args) \in 0..Len(args)
    BY ArgsAre
  <2>4. f[Len(args)] \in S
    BY <2>2, <2>3
  <2> QED BY <2>2, <2>4 DEF S
<1>3. printed.ok \in BOOLEAN /\ printed.out \in Texts
  BY <1>2 DEF Printing
<1> QED BY <1>1, <1>3, RanWrites DEF Rest

\* And those with -new.
LEMMA PrintsNewIs ==
    ASSUME TypedNow, NEW item, Joins(World, item), NEW rest \in Texts, NEW command, NEW rcode,
           PrintsNew(command, item, rest, rcode)
    PROVE  TypedNow' /\ ValueStays
<1> DEFINE w == Made(World, item)
           out == Line(<<Address(New(World))>>) \o rest
<1>1. Ran(command, w, out, rcode) /\ gObjectsInPipe' = gObjectsInPipe \cup {New(World)}
      /\ UNCHANGED <<current, environ, blocks, alive>>
  BY DEF PrintsNew
<1>2. w \in Fine /\ Grown(World, w) /\ New(World) \in DOMAIN w.heap /\ Len(w.heap) = New(World)
  BY WorldNow, MadeIs
<1> HIDE DEF w
<1>3. New(World) \in 1..MaxObjects
  <2>1. Len(w.heap) <= MaxObjects
    BY <1>1 DEF Ran
  <2>2. New(World) \in Nat /\ New(World) >= 1
    BY WorldNow DEF New
  <2> QED BY <1>2, <2>1, <2>2, BoundsAssumption
<1>4. out \in Texts
  <2>1. Address(New(World)) \in Words
    BY <1>3, AddressAssumption
  <2> QED BY <2>1, WordLine, JoinedIs
<1> HIDE DEF out
<1>5. Around(w.heap)
  <2>1. DOMAIN heap \subseteq DOMAIN w.heap
    BY <1>2, WorldNow, WiderUsers, GrownWider
  <2> QED BY <1>1, <1>2, <2>1 DEF Around, TypedNow
<1> QED BY <1>1, <1>2, <1>4, <1>5, RanIs

\* An object that gets a name.
LEMMA BindNewRuns ==
    ASSUME TypedNow, NEW args \in Arguments, NEW item, Joins(World, item), NEW local \in BOOLEAN,
           NEW out \in Texts, NEW command, NEW rcode,
           Ran(command, BindNew(World, args[1], item, local), out, rcode),
           UNCHANGED <<current, environ, gObjectsInPipe, blocks>>
    PROVE  TypedNow' /\ ValueStays
<1> DEFINE w == BindNew(World, args[1], item, local)
<1>1. w \in Fine /\ Grown(World, w)
  BY WorldNow, ArgsAre, BindNewIs
<1> HIDE DEF w
<1> QED BY <1>1, RanRest DEF w

\* Steps that each only add, one after the other.
LEMMA GrownTo ==
    ASSUME NEW w \in Fine, NEW N \in Nat, NEW f, f[0] = w,
           \A n \in 0..N : f[n] \in Fine, \A n \in 1..N : Grown(f[n - 1], f[n])
    PROVE  \A n \in 0..N : Grown(w, f[n])
<1> DEFINE S == {x \in Fine : Grown(w, x)}
<1>1. f[0] \in S
  BY GrownSame
<1>2. ASSUME NEW n \in (0 + 1)..N, f[n - 1] \in S PROVE f[n] \in S
  <2>1. f[n - 1] \in Fine /\ f[n] \in Fine /\ Grown(w, f[n - 1]) /\ Grown(f[n - 1], f[n])
    BY <1>2
  <2> QED BY <2>1, GrownOn
<1> HIDE DEF S
<1>3. 0 \in 0..N
  OBVIOUS
<1>4. \A n \in 0..N : f[n] \in S
  BY <1>1, <1>2, <1>3, Within
<1> QED BY <1>4 DEF S

\* "| var" loses nothing.
LEMMA VarsGrown ==
    ASSUME NEW w \in Fine, NEW args \in Seq(Names), NEW lines \in Seq(ALine), NEW local \in BOOLEAN
    PROVE  VarsBound(w, args, lines, local) \in Fine /\ Grown(w, VarsBound(w, args, lines, local))
<1> DEFINE N == Len(args)
<1>1. PICK f \in [0..N -> Fine] :
          /\ f[0] = w
          /\ \A n \in 1..N : f[n] = BindNew(f[n - 1], args[n], VarOf(lines, n), local)
          /\ VarsBound(w, args, lines, local) = f[N]
  BY VarsBoundIs
<1>2. N \in Nat /\ \A n \in 1..N : args[n] \in Names
  BY ArgumentIs
<1> HIDE DEF N
<1>3. \A n \in 0..N : f[n] \in Fine
  BY <1>1
<1>4. ASSUME NEW n \in 1..N PROVE Grown(f[n - 1], f[n])
  <2>1. f[n - 1] \in Fine /\ args[n] \in Names /\ n \in Nat \ {0}
        /\ f[n] = BindNew(f[n - 1], args[n], VarOf(lines, n), local)
    BY <1>1, <1>2, <1>3
  <2>2. Joins(f[n - 1], VarOf(lines, n))
    BY <2>1, LineAt, ValueJoins DEF VarOf, LineOr
  <2> QED BY <2>1, <2>2, BindNewIs
<1>5. N \in 0..N
  BY <1>2
<1> QED BY <1>1, <1>2, <1>3, <1>4, <1>5, GrownTo

\* The steps of var keep the types and what was there.
LEMMA VarSteps ==
    ASSUME TypedNow, cmd_var
    PROVE  TypedNow' /\ ValueStays
<1>1. CASE \E args \in Arguments :
            Prints("var", args, 0, {"var"}, [o \in DOMAIN heap |-> Line(heap[o].value)])
  <2> DEFINE shown == [o \in DOMAIN heap |-> Line(heap[o].value)]
  <2>1. Shows(World, {"var"}, shown)
    <3>1. \A o \in DOMAIN heap : heap[o].type = "var" => heap[o].value \in ALine
      BY WorldNow, HeapIs, KindIs
    <3> QED BY <3>1, WorldNow, LineIs DEF Shows
  <2> HIDE DEF shown
  <2>2. PICK args \in Arguments : Prints("var", args, 0, {"var"}, shown)
    BY <1>1 DEF shown
  <2> QED BY <2>1, <2>2, PrintsIs
<1>2. CASE \E args \in Arguments, in \in Filters, local, shift \in BOOLEAN :
            LET lines == LinesOf(in.text)
                w == VarsBound(World, args, lines, local)
            IN  /\ Ran(Shift(Local(Command("| var", args, in), local), shift), w,
                       IF w.ok THEN Passed(shift, lines, Len(args) + 1) ELSE <<>>, ReadCode(in))
                /\ Rest
  <2>1. PICK args \in Arguments, in \in Filters, local, shift \in BOOLEAN :
            LET lines == LinesOf(in.text)
                w == VarsBound(World, args, lines, local)
            IN  /\ Ran(Shift(Local(Command("| var", args, in), local), shift), w,
                       IF w.ok THEN Passed(shift, lines, Len(args) + 1) ELSE <<>>, ReadCode(in))
                /\ Rest
    BY <1>2, Zenon
  <2> DEFINE lines == LinesOf(in.text)
             w == VarsBound(World, args, lines, local)
             out == IF w.ok THEN Passed(shift, lines, Len(args) + 1) ELSE <<>>
  <2>2. lines \in Seq(ALine) /\ args \in Seq(Names) /\ Len(args) + 1 \in Nat \ {0} /\ World \in Fine
    BY FilterIs, ArgsAre, WorldNow
  <2>3. Ran(Shift(Local(Command("| var", args, in), local), shift), w, out, ReadCode(in)) /\ Rest
    BY <2>1, Zenon
  <2> HIDE DEF lines
  <2>4. w \in Fine /\ Grown(World, w)
    BY <2>2, VarsGrown
  <2> HIDE DEF w
  <2>5. out \in Texts
    BY <2>2, PassedIs, NoText
  <2> HIDE DEF out
  <2> QED BY <2>3, <2>4, <2>5, RanRest, Zenon DEF Rest
<1>3. CASE \E in \in Filters, shift \in BOOLEAN :
            LET lines == LinesOf(in.text)
            IN  PrintsNew(Shift(Command("| var -new", <<>>, in), shift),
                          [type |-> "var", value |-> IF lines = <<>> THEN <<>> ELSE lines[1]],
                          Passed(shift, lines, 2), ReadCode(in))
  <2>1. PICK in \in Filters, shift \in BOOLEAN :
            LET lines == LinesOf(in.text)
            IN  PrintsNew(Shift(Command("| var -new", <<>>, in), shift),
                          [type |-> "var", value |-> IF lines = <<>> THEN <<>> ELSE lines[1]],
                          Passed(shift, lines, 2), ReadCode(in))
    BY <1>3, Zenon
  <2> DEFINE lines == LinesOf(in.text)
             line == IF lines = <<>> THEN <<>> ELSE lines[1]
             item == [type |-> "var", value |-> line]
             rest == Passed(shift, lines, 2)
  <2>2. PrintsNew(Shift(Command("| var -new", <<>>, in), shift), item, rest, ReadCode(in))
    BY <2>1, Zenon
  <2>3. lines \in Seq(ALine)
    BY FilterIs
  <2> HIDE DEF lines
  <2>4. line \in ALine
    <3> DEFINE A == ALine
               e == <<>>
    <3>1. lines \in Seq(A) /\ e \in A
      BY <2>3, NoText
    <3> HIDE DEF A
    <3>2. lines # <<>> => lines[1] \in A
      BY <3>1
    <3> QED BY <3>1, <3>2 DEF A
  <2> HIDE DEF line
  <2>5. Joins(World, item)
    BY <2>4, ValueJoins
  <2>6. rest \in Texts
    BY <2>3, PassedIs
  <2> HIDE DEF item, rest
  <2> QED BY <2>2, <2>5, <2>6, PrintsNewIs, Zenon
<1> QED BY <1>1, <1>2, <1>3, Zenon DEF cmd_var

Growers == {"| ary -insert", "| hash -append"}

\* What -insert and -append do: they may make the array or the hash, and then
\* put more into it.
LEMMA GrowsIs ==
    ASSUME TypedNow, NEW type \in Lists, NEW argument \in Names, NEW local \in BOOLEAN,
           NEW to, to = Growing(World, type, argument, local), NEW in, NEW value,
           to.world.ok => value \in Values(type) /\ Len(value) >= Len(Holding(to)),
           NEW command, [command EXCEPT !.out = <<>>].name \in Growers,
           Grows(command, to, value, in)
    PROVE  TypedNow' /\ ValueStays
<1> DEFINE w == IF to.world.ok THEN PutValue(to.world, to.object, value) ELSE to.world
<1>1. Ran(command, w, <<>>, ReadCode(in)) /\ Rest
  BY DEF Grows
<1>2. heap' = w.heap /\ last'.name \in Growers
  BY <1>1 DEF Ran
<1>3. World \in Fine /\ World.ok /\ World.heap = heap /\ Len(heap) \in Nat
      /\ DOMAIN heap = 1..Len(heap)
  BY WorldNow
<1>4. /\ to.world \in Fine /\ Grown(World, to.world)
      /\ to.world.ok => /\ to.object \in DOMAIN to.world.heap
                        /\ to.world.heap[to.object].type = type
                        /\ \/ to.world = World
                           \/ /\ to.object = New(World) /\ Len(to.world.heap) = New(World)
                              /\ to.world.heap[to.object].value = <<>>
  BY <1>3, GrowingIs
<1>5. CASE ~to.world.ok
  <2>1. w = to.world
    BY <1>5
  <2>2. <<>> \in Texts
    BY NoText
  <2> QED BY <1>1, <1>4, <2>1, <2>2, RanRest DEF Rest
<1>6. CASE to.world.ok
  <2> DEFINE v == to.world
             o == to.object
  <2>1. w = PutValue(v, o, value) /\ value \in Values(type) /\ Len(value) >= Len(v.heap[o].value)
    BY <1>6 DEF Holding
  <2>2. /\ v \in Fine /\ o \in DOMAIN v.heap /\ v.heap[o].type = type /\ Grown(World, v)
        /\ \/ v = World
           \/ o = New(World) /\ Len(v.heap) = New(World)
    BY <1>4, <1>6
  <2> HIDE DEF v, o, w
  <2>3. /\ w \in Fine /\ w.current = v.current /\ Len(w.heap) = Len(v.heap)
        /\ DOMAIN w.heap = DOMAIN v.heap
        /\ \A p \in DOMAIN v.heap : p # o => w.heap[p] = v.heap[p]
        /\ w.heap[o].type = type /\ w.heap[o].value = value
    BY <2>1, <2>2, PutValueIs
  <2>4. Wider(World, w)
    <3>1. Wider(World, v) /\ DOMAIN World.heap \subseteq DOMAIN v.heap
      BY <1>3, <2>2, GrownWider, WiderUsers
    <3>2. \A p \in DOMAIN v.heap : w.heap[p].type = v.heap[p].type
      BY <2>2, <2>3
    <3> QED BY <2>3, <3>1, <3>2 DEF Wider
  <2>5. TypedNow'
    <3>1. Around(w.heap)
      BY <1>1, <2>3, <2>4, RestAround DEF Rest
    <3> QED BY <1>1, <2>3, <2>4, <3>1, NoText, RanTyped
  <2>6. ValueStays
    <3>1. CASE v = World
      <4>1. Len(heap') = Len(heap) /\ v.heap = heap
        BY <1>2, <1>3, <2>3, <3>1
      <4>2. ASSUME NEW p \in DOMAIN heap, p # o PROVE heap'[p] = heap[p]
        BY <1>2, <2>3, <4>1, <4>2
      <4>3. /\ heap'[o].type = type /\ heap[o].type = type /\ type # "object"
            /\ Len(heap'[o].value) >= Len(heap[o].value)
        <5>1. type # "object"
          BY DEF Lists
        <5>2. Len(value) >= Len(heap[o].value) /\ heap[o].type = type
          BY <2>1, <2>2, <4>1
        <5> QED BY <1>2, <2>3, <5>1, <5>2
      <4>4. \A p \in DOMAIN heap : \A n \in DOMAIN heap[p].items : Has(heap[p].items,
                                                                       heap[p].items[n][1])
        BY DEF Has
      <4>5. ASSUME NEW p \in DOMAIN heap
            PROVE  /\ heap'[p].type = heap[p].type
                   /\ heap[p].type = "object" =>
                        /\ heap'[p].parent = heap[p].parent /\ heap'[p].name = heap[p].name
                        /\ \A n \in DOMAIN heap[p].items : Has(heap'[p].items, heap[p].items[n][1])
                   /\ heap'[p] # heap[p] =>
                        /\ last'.name \in Growers
                        /\ Len(heap') = Len(heap) /\ Len(heap'[p].value) >= Len(heap[p].value)
        <5>1. CASE p = o
          <6>1. heap[p].type # "object" /\ heap'[p].type = heap[p].type
            BY <4>3, <5>1
          <6> QED BY <1>2, <4>1, <4>3, <5>1, <6>1
        <5>2. CASE p # o
          <6>1. heap'[p] = heap[p]
            BY <4>2, <5>2
          <6> QED BY <4>4, <6>1
        <5> QED BY <5>1, <5>2
      <4>6. Len(heap') >= Len(heap)
        <5> DEFINE a == Len(heap)
                   b == Len(heap')
        <5>1. a \in Nat /\ b = a
          BY <1>3, <4>1
        <5> HIDE DEF a, b
        <5>2. b >= a
          BY <5>1
        <5> QED BY <5>2 DEF a, b
      <4> QED BY <4>5, <4>6, Zenon DEF ValueStays, Growers
    <3>2. CASE v # World
      <4>1. o = New(World) /\ o \notin DOMAIN heap
        <5>1. o = New(World)
          BY <2>2, <3>2
        <5>2. New(World) = Len(heap) + 1
          BY <1>3 DEF New
        <5> DEFINE a == Len(heap)
        <5>3. a \in Nat /\ o = a + 1 /\ DOMAIN heap = 1..a
          BY <1>3, <5>1, <5>2
        <5> HIDE DEF a
        <5> QED BY <5>1, <5>3
      <4>2. Grown(World, w)
        <5>1. DOMAIN World.heap \subseteq DOMAIN v.heap
          BY <1>3, <2>2, GrownWider, WiderUsers
        <5>2. \A p \in DOMAIN World.heap : w.heap[p] = v.heap[p]
          BY <1>3, <2>3, <4>1, <5>1
        <5>3. w.current = World.current /\ Len(w.heap) >= Len(World.heap)
          BY <2>2, <2>3 DEF Grown
        <5> QED BY <2>2, <5>2, <5>3 DEF Grown
      <4> QED BY <1>2, <4>2, GrownStays
    <3> QED BY <3>1, <3>2
  <2> QED BY <2>5, <2>6
<1> QED BY <1>5, <1>6

\* A command keeps its name, whatever it writes.
LEMMA GrowerIs ==
    ASSUME NEW args, NEW in, NEW local, NEW n
    PROVE  /\ [[Local(Command("| ary -insert", args, in), local) EXCEPT !.n = n]
                    EXCEPT !.out = <<>>].name \in Growers
           /\ [Local(Command("| hash -append", args, in), local) EXCEPT !.out =
               <<>>].name \in Growers
BY DEF Local, Command, Growers

\* What the options of ary and hash print is text.
LEMMA ListShows ==
    ASSUME TypedNow
    PROVE  /\ \A type : Shows(World, {type}, [o \in DOMAIN heap |-> Decimal(Len(heap[o].value))])
           /\ \A n \in Int : Shows(World, {"array"},
                                   [o \in DOMAIN heap |-> Indexed(heap[o].value, n)])
           /\ Shows(World, {"array"}, [o \in DOMAIN heap |-> Text(heap[o].value)])
           /\ \A key : Shows(World, {"hash"}, [o \in DOMAIN heap |->
                  Line(IF Has(heap[o].value, key) THEN At(heap[o].value, key) ELSE <<>>)])
           /\ Shows(World, {"hash"}, [o \in DOMAIN heap |-> PairsText(heap[o].value)])
           /\ Shows(World, {"alias"}, [o \in DOMAIN heap |-> Line(heap[o].value)])
           /\ Shows(World, Types, [o \in DOMAIN heap |-> Kind(heap[o])])
<1>1. World \in Fine /\ World.heap = heap
  BY WorldNow
<1>2. \A type : Shows(World, {type}, [o \in DOMAIN heap |-> Decimal(Len(heap[o].value))])
  BY <1>1, DecimalIs DEF Shows
<1>3. \A o \in DOMAIN heap : heap[o].type = "array" => heap[o].value \in Seq(ALine)
  BY <1>1, HeapIs, KindIs
<1>4. ASSUME NEW n \in Int PROVE Shows(World, {"array"},
                                       [o \in DOMAIN heap |-> Indexed(heap[o].value, n)])
  BY <1>1, <1>3, IndexedIs DEF Shows
<1>5. Shows(World, {"array"}, [o \in DOMAIN heap |-> Text(heap[o].value)])
  BY <1>1, <1>3, TextIs DEF Shows
<1>6. \A o \in DOMAIN heap : heap[o].type = "hash" => heap[o].value \in Pairs(ALine, ALine)
  BY <1>1, HeapIs, KindIs
<1>7. ASSUME NEW key
      PROVE  Shows(World, {"hash"}, [o \in DOMAIN heap |->
                 Line(IF Has(heap[o].value, key) THEN At(heap[o].value, key) ELSE <<>>)])
  <2>1. ASSUME NEW t \in Pairs(ALine, ALine)
        PROVE  Line(IF Has(t, key) THEN At(t, key) ELSE <<>>) \in Texts
    <3>1. (IF Has(t, key) THEN At(t, key) ELSE <<>>) \in ALine
      BY AtIn, NoText
    <3> QED BY <3>1, LineIs
  <2> QED BY <1>1, <1>6, <2>1 DEF Shows
<1>8. Shows(World, {"hash"}, [o \in DOMAIN heap |-> PairsText(heap[o].value)])
  BY <1>1, <1>6, PairsTextIs DEF Shows
<1>9. Shows(World, {"alias"}, [o \in DOMAIN heap |-> Line(heap[o].value)])
  <2>1. \A o \in DOMAIN heap : heap[o].type = "alias" => heap[o].value \in Texts
    BY <1>1, HeapIs, KindIs
  <2> QED BY <1>1, <2>1, LineIs DEF Shows
<1>10. Shows(World, Types, [o \in DOMAIN heap |-> Kind(heap[o])])
  BY <1>1, HeapIs, KindTextIs DEF Shows
<1> QED BY <1>2, <1>4, <1>5, <1>7, <1>8, <1>9, <1>10

\* The steps of ary keep the types and change no value but that of the array that
\* -insert adds to.
LEMMA ArySteps ==
    ASSUME TypedNow, cmd_ary
    PROVE  TypedNow' /\ ValueStays
<1>1. CASE \E args \in Arguments :
            Prints("ary -size", args, 0, {"array"},
                   [o \in DOMAIN heap |-> Decimal(Len(heap[o].value))])
  BY <1>1, ListShows, PrintsIs, Zenon
<1>2. CASE \E args \in Arguments, n \in Indexes :
            Prints("ary -index", args, n, {"array"},
                   [o \in DOMAIN heap |-> Indexed(heap[o].value, n)])
  BY <1>2, ListShows, PrintsIs, ArgumentsAssumption, Zenon
<1>3. CASE \E args \in Arguments :
            Prints("ary", args, 0, {"array"}, [o \in DOMAIN heap |-> Text(heap[o].value)])
  BY <1>3, ListShows, PrintsIs
<1>4. CASE \E in \in Filters :
            PrintsNew(Command("| ary -new", <<>>, in),
                      [type |-> "array", value |-> LinesOf(in.text)],
                      <<>>, ReadCode(in))
  BY <1>4, FilterIs, ValueJoins, NoText, PrintsNewIs, Zenon
<1>5. CASE \E args \in Arguments, in \in Filters, local \in BOOLEAN, n \in Indexes \cup {-1} :
            /\ Len(args) = 1
            /\ \E to \in {Growing(World, "array", args[1], local)} :
                  Grows([Local(Command("| ary -insert", args, in), local) EXCEPT !.n = n], to,
                        Inserted(Holding(to), n, LinesOf(in.text)), in)
  <2>1. PICK args \in Arguments, in \in Filters, local \in BOOLEAN, n \in Indexes \cup {-1} :
            /\ Len(args) = 1
            /\ \E to \in {Growing(World, "array", args[1], local)} :
                  Grows([Local(Command("| ary -insert", args, in), local) EXCEPT !.n = n], to,
                        Inserted(Holding(to), n, LinesOf(in.text)), in)
    BY <1>5, Zenon
  <2>2. PICK to \in {Growing(World, "array", args[1], local)} :
            Grows([Local(Command("| ary -insert", args, in), local) EXCEPT !.n = n], to,
                  Inserted(Holding(to), n, LinesOf(in.text)), in)
    BY <2>1, Zenon
  <2> DEFINE type == "array"
             command == [Local(Command("| ary -insert", args, in), local) EXCEPT !.n = n]
             lines == LinesOf(in.text)
             items == Holding(to)
             value == Inserted(items, n, lines)
             argument == args[1]
  <2>3. type \in Lists /\ [command EXCEPT !.out = <<>>].name \in Growers
    <3>1. [command EXCEPT !.out = <<>>].name \in Growers
      BY GrowerIs, Zenon
    <3> QED BY <3>1, Zenon DEF Lists
  <2>4. to = Growing(World, type, argument, local) /\ Grows(command, to, value, in)
    BY <2>2, Zenon
  <2>5. n \in Int /\ lines \in Seq(ALine) /\ argument \in Names
    BY ArgumentsAssumption, FilterIs, ArgsAre
  <2>6. type = "array"
    OBVIOUS
  <2> HIDE DEF type, command, lines, argument
  <2>7. to.world.ok => items \in Seq(ALine)
    <3>1. World \in Fine /\ World.ok
      BY WorldNow
    <3>2. to.world.ok => /\ to.world \in Fine /\ to.object \in DOMAIN to.world.heap
                         /\ to.world.heap[to.object].type = type
      BY <2>3, <2>4, <2>5, <3>1, GrowingIs
    <3> QED BY <2>6, <3>2, HeapIs, KindIs DEF Holding
  <2> HIDE DEF items
  <2>8. to.world.ok => value \in Seq(ALine) /\ Len(value) >= Len(items)
    <3>1. ASSUME to.world.ok
          PROVE  value \in Seq(ALine) /\ \E k \in Nat : Len(value) = Len(items) + k
      <4> DEFINE new == IF lines = <<>> THEN << <<>> >> ELSE lines
      <4>1. items \in Seq(ALine)
        BY <2>7, <3>1
      <4>2. value \in Seq(ALine) /\ Len(new) \in Nat \ {0} /\ Len(value) = Len(items) + Len(new)
        BY <2>5, <4>1, InsertedIs
      <4> HIDE DEF new, value
      <4> QED BY <4>2
    <3>2. to.world.ok => Len(items) \in Nat
      BY <2>7
    <3> DEFINE a == Len(items)
               b == Len(value)
    <3>3. to.world.ok => a \in Nat /\ \E k \in Nat : b = a + k
      BY <3>1, <3>2
    <3> HIDE DEF a, b
    <3>4. to.world.ok => b >= a
      BY <3>3
    <3> QED BY <3>1, <3>4 DEF a, b
  <2> HIDE DEF value
  <2>9. to.world.ok => value \in Values(type) /\ Len(value) >= Len(Holding(to))
    BY <2>6, <2>8 DEF Values, items
  <2> QED BY <2>3, <2>4, <2>5, <2>9, GrowsIs
<1>6. CASE \E args \in Arguments, in \in Filters, local \in BOOLEAN :
            /\ Len(args) = 1
            /\ Ran(Local(Command("| ary", args, in), local),
                   BindNew(World, args[1], [type |-> "array", value |-> LinesOf(in.text)], local),
                   <<>>, ReadCode(in))
            /\ Rest
  BY <1>6, FilterIs, ValueJoins, NoText, BindNewRuns, Zenon DEF Rest
<1> QED BY <1>1, <1>2, <1>3, <1>4, <1>5, <1>6, Zenon DEF cmd_ary

\* So do those of hash, with -append.
LEMMA HashSteps ==
    ASSUME TypedNow, cmd_hash
    PROVE  TypedNow' /\ ValueStays
<1> DEFINE P == Pairs(ALine, ALine)
<1>0. ASSUME NEW in \in Filters PROVE PairsPut(<<>>, LinesOf(in.text)) \in P
  <2>1. <<>> \in P
    BY DEF Pairs, KeysOnce
  <2> HIDE DEF P
  <2>2. LinesOf(in.text) \in Seq(ALine)
    BY FilterIs
  <2> QED BY <2>1, <2>2, PairsPutGrows DEF P
<1>1. CASE \E args \in Arguments :
            Prints("hash -size", args, 0, {"hash"},
                   [o \in DOMAIN heap |-> Decimal(Len(heap[o].value))])
  BY <1>1, ListShows, PrintsIs, Zenon
<1>2. CASE \E args \in Arguments, key \in UNION {ToSet(LinesOf(t)) : t \in Inputs} :
            Prints("hash -key", args, 0, {"hash"}, [o \in DOMAIN heap |->
                   Line(IF Has(heap[o].value, key) THEN At(heap[o].value, key) ELSE <<>>)])
  BY <1>2, ListShows, PrintsIs, Zenon
<1>3. CASE \E args \in Arguments :
            Prints("hash", args, 0, {"hash"}, [o \in DOMAIN heap |-> PairsText(heap[o].value)])
  BY <1>3, ListShows, PrintsIs
<1>4. CASE \E in \in Filters :
            PrintsNew(Command("| hash -new", <<>>, in),
                      [type |-> "hash", value |-> PairsPut(<<>>, LinesOf(in.text))], <<>>,
                        ReadCode(in))
  BY <1>0, <1>4, ValueJoins, NoText, PrintsNewIs, Zenon
<1>5. CASE \E args \in Arguments, in \in Filters, local \in BOOLEAN :
            /\ Len(args) = 1
            /\ \E to \in {Growing(World, "hash", args[1], local)} :
                  Grows(Local(Command("| hash -append", args, in), local), to,
                        PairsPut(Holding(to), LinesOf(in.text)), in)
  <2>1. PICK args \in Arguments, in \in Filters, local \in BOOLEAN :
            /\ Len(args) = 1
            /\ \E to \in {Growing(World, "hash", args[1], local)} :
                  Grows(Local(Command("| hash -append", args, in), local), to,
                        PairsPut(Holding(to), LinesOf(in.text)), in)
    BY <1>5, Zenon
  <2>2. PICK to \in {Growing(World, "hash", args[1], local)} :
            Grows(Local(Command("| hash -append", args, in), local), to,
                  PairsPut(Holding(to), LinesOf(in.text)), in)
    BY <2>1, Zenon
  <2> DEFINE type == "hash"
             command == Local(Command("| hash -append", args, in), local)
             lines == LinesOf(in.text)
             items == Holding(to)
             value == PairsPut(items, lines)
             argument == args[1]
  <2>3. type \in Lists /\ [command EXCEPT !.out = <<>>].name \in Growers
    <3>1. [command EXCEPT !.out = <<>>].name \in Growers
      BY GrowerIs, Zenon
    <3> QED BY <3>1, Zenon DEF Lists
  <2>4. to = Growing(World, type, argument, local) /\ Grows(command, to, value, in)
    BY <2>2, Zenon
  <2>5. lines \in Seq(ALine) /\ argument \in Names
    BY FilterIs, ArgsAre
  <2>6. type = "hash" /\ type # "array"
    OBVIOUS
  <2> HIDE DEF type, command, lines, argument
  <2>7. to.world.ok => items \in P
    <3>1. World \in Fine /\ World.ok
      BY WorldNow
    <3>2. to.world.ok => /\ to.world \in Fine /\ to.object \in DOMAIN to.world.heap
                         /\ to.world.heap[to.object].type = type
      BY <2>3, <2>4, <2>5, <3>1, GrowingIs
    <3> QED BY <2>6, <3>2, HeapIs, KindIs DEF Holding
  <2>8. to.world.ok => value \in P /\ Len(value) >= Len(items)
    BY <2>5, <2>7, PairsPutGrows
  <2> HIDE DEF value, items
  <2>9. to.world.ok => value \in Values(type) /\ Len(value) >= Len(Holding(to))
    BY <2>6, <2>8 DEF Values, items
  <2> QED BY <2>3, <2>4, <2>5, <2>9, GrowsIs
<1>6. CASE \E args \in Arguments, in \in Filters, local \in BOOLEAN :
            /\ Len(args) = 1
            /\ Ran(Local(Command("| hash", args, in), local),
                   BindNew(World, args[1],
                           [type |-> "hash", value |-> PairsPut(<<>>, LinesOf(in.text))], local),
                   <<>>, ReadCode(in))
            /\ Rest
  BY <1>0, <1>6, ValueJoins, NoText, BindNewRuns, Zenon DEF Rest
<1> QED BY <1>1, <1>2, <1>3, <1>4, <1>5, <1>6, Zenon DEF cmd_hash

\* The commands that ask keep the types and what was there.
LEMMA AskingSteps ==
    ASSUME TypedNow, cmd_defined \/ cmd_objinfo \/ cmd_typeof \/ cmd_mshow \/ cmd_pwo
    PROVE  TypedNow' /\ ValueStays
<1>1. CASE cmd_defined
  <2>1. PICK args \in Arguments :
            /\ Ran(Command("defined", args, NoPipe), World, <<>>,
                   IF \A argument \in ToSet(args) : Left(World, argument) THEN 0
                     ELSE RCODE_NFUN_FALSE)
            /\ Rest
    BY <1>1 DEF cmd_defined
  <2>2. World \in Fine /\ Grown(World, World)
    BY WorldNow, GrownSame
  <2> QED BY <2>1, <2>2, NoText, RanRest DEF Rest
<1>2. CASE cmd_objinfo
  <2>0. PICK args \in Arguments, answer \in BOOLEAN : \E at \in {Find(args[1])} :
          LET alias == at.ok /\ heap[at.object].type = "alias"
          IN  /\ Len(args) = 1
              /\ Ran(Command("objinfo", args, NoPipe),
                     [World EXCEPT !.ok = at.ok /\ ~alias /\ answer],
                     IF at.ok /\ ~alias THEN object_info(heap[at.object]) ELSE <<>>, 0)
              /\ alive' = ~alias
              /\ UNCHANGED <<current, environ, gObjectsInPipe, blocks>>
    BY <1>2 DEF cmd_objinfo
  <2>1. PICK at \in {Find(args[1])} :
          LET alias == at.ok /\ heap[at.object].type = "alias"
          IN  /\ Len(args) = 1
              /\ Ran(Command("objinfo", args, NoPipe),
                     [World EXCEPT !.ok = at.ok /\ ~alias /\ answer],
                     IF at.ok /\ ~alias THEN object_info(heap[at.object]) ELSE <<>>, 0)
              /\ alive' = ~alias
              /\ UNCHANGED <<current, environ, gObjectsInPipe, blocks>>
    BY <2>0
  <2> DEFINE alias == at.ok /\ heap[at.object].type = "alias"
             ok == at.ok /\ ~alias /\ answer
             out == IF at.ok /\ ~alias THEN object_info(heap[at.object]) ELSE <<>>
  <2>2. /\ Ran(Command("objinfo", args, NoPipe), [World EXCEPT !.ok = ok], out, 0)
        /\ UNCHANGED <<current, environ, gObjectsInPipe, blocks>>
    BY <2>1
  <2>3. at.ok => heap[at.object] \in Objects
    BY WorldNow, ArgsAre, FoundIs, HeapIs DEF Find
  <2>4. out \in Texts
    BY <2>3, ObjectInfoIs, NoText
  <2>5. ok \in BOOLEAN
    OBVIOUS
  <2> HIDE DEF ok, out
  <2> QED BY <2>2, <2>4, <2>5, RanWrites
<1>3. CASE cmd_typeof
  BY <1>3, ListShows, PrintsIs DEF cmd_typeof, PrintsKinds
<1>4. CASE cmd_mshow
  <2>0. PICK argument \in UNION {ToSet(args) : args \in Arguments} : \E at \in {Find(argument)} :
          LET items == heap[at.object].items
          IN  /\ at.ok /\ heap[at.object].type = "object"
              /\ Ran(Command("show", <<argument>>, NoPipe), World,
                     FlattenSeq([n \in DOMAIN items |->
                         Line(Written(items[n][1]) \o <<": ", heap[items[n][2]].type>>)]), 0)
              /\ Rest
    BY <1>4, Zenon DEF cmd_mshow
  <2>1. PICK at \in {Find(argument)} :
          LET items == heap[at.object].items
          IN  /\ at.ok /\ heap[at.object].type = "object"
              /\ Ran(Command("show", <<argument>>, NoPipe), World,
                     FlattenSeq([n \in DOMAIN items |->
                         Line(Written(items[n][1]) \o <<": ", heap[items[n][2]].type>>)]), 0)
              /\ Rest
    BY <2>0, Zenon
  <2> DEFINE items == heap[at.object].items
             q == [n \in DOMAIN items |-> Line(Written(items[n][1])
                                               \o <<": ", heap[items[n][2]].type>>)]
             U == DOMAIN heap
  <2>2. argument \in Names /\ World \in Fine /\ World.heap = heap /\ Grown(World, World)
    BY ArgumentsAre, WorldNow, GrownSame
  <2>3. at.object \in U /\ heap[at.object].type = "object"
    BY <2>1, <2>2, FoundIs, Zenon DEF Find
  <2>4. items \in Pairs(Names, U)
    BY <2>2, <2>3, UsersAre DEF IsUser
  <2> HIDE DEF items
  <2>5. Len(items) \in Nat /\ DOMAIN items = 1..Len(items)
        /\ \A n \in 1..Len(items) : items[n][1] \in Names /\ items[n][2] \in U
    BY <2>4, PairIs
  <2>6. \A n \in 1..Len(items) : q[n] \in Texts
    BY <2>2, <2>5, HeapIs, ItemTextIs, Zenon
  <2>7. q = [n \in 1..Len(items) |-> q[n]]
    BY <2>5
  <2>8. Ran(Command("show", <<argument>>, NoPipe), World, FlattenSeq(q), 0) /\ Rest
    BY <2>1, Zenon DEF items
  <2> HIDE DEF q
  <2>9. FlattenSeq(q) \in Texts
    BY <2>5, <2>6, <2>7, FlatTexts
  <2> QED BY <2>2, <2>8, <2>9, RanRest DEF Rest
<1>5. CASE cmd_pwo
  <2>1. World \in Fine /\ Grown(World, World)
    BY WorldNow, GrownSame
  <2>2. Ran(Command("pwo", <<>>, NoPipe), World, Line(Front(output_cwo(current))), 0) /\ Rest
    BY <1>5 DEF cmd_pwo
  <2> QED BY <2>1, <2>2, CwoLine, RanRest DEF Rest
<1> QED BY <1>1, <1>2, <1>3, <1>4, <1>5

\* What def prints of a function is text.
LEMMA PomchedIs ==
    ASSUME NEW source \in Texts
    PROVE  Pomched(source) \subseteq Texts
BY LineIs DEF Pomched

\* Defining a function or class loses nothing.
LEMMA EntryIs ==
    ASSUME TypedNow, NEW argument \in Names, NEW source \in Texts, NEW options,
           NEW type, Joins(World, [type |-> type, value |-> source])
    PROVE  /\ entry_fun(type, argument, source, options) \in Fine
           /\ Grown(World, entry_fun(type, argument, source, options))
<1> DEFINE item == [type |-> type, value |-> source]
           b == FALSE
<1>1. World \in Fine /\ b \in BOOLEAN
  BY WorldNow
<1>2. [World EXCEPT !.ok = FALSE] \in Fine /\ Grown(World, [World EXCEPT !.ok = FALSE])
  BY <1>1, OkIs
<1>3. BindNew(World, argument, item, b) \in Fine /\ Grown(World, BindNew(World, argument, item, b))
  <2> HIDE DEF item, b
  <2>1. Joins(World, item)
    BY DEF item
  <2> QED BY <1>1, <2>1, BindNewIs
<1> QED BY <1>2, <1>3, Zenon DEF entry_fun

\* What def and class do with a block, with a text, and without either.
LEMMA DefinesIs ==
    ASSUME TypedNow, NEW name, NEW type,
           \A s \in Texts : Joins(World, [type |-> type, value |-> s]),
           \A x \in Objects : x.type = type => x.value \in Texts,
           Defines(name, type)
    PROVE  TypedNow' /\ ValueStays
<1> USE DEF Rest
<1>1. CASE \E args \in Arguments, source \in Sources,
      options \in {"none", "-inherit", "bad names"} :
            /\ Len(args) = 1
            /\ Ran(Command(name, args, NoPipe), entry_fun(type, args[1], source, options), <<>>, 0)
            /\ Rest
  <2>1. PICK args \in Arguments, source \in Sources, options \in {"none", "-inherit", "bad names"} :
            /\ Ran(Command(name, args, NoPipe), entry_fun(type, args[1], source, options), <<>>, 0)
            /\ Rest
    BY <1>1, Zenon
  <2> DEFINE w == entry_fun(type, args[1], source, options)
  <2>2. source \in Texts
    BY ArgumentsAssumption, Zenon
  <2>3. w \in Fine /\ Grown(World, w)
    BY <2>2, ArgsAre, EntryIs, Zenon
  <2>4. Ran(Command(name, args, NoPipe), w, <<>>, 0)
    BY <2>1, Zenon
  <2> HIDE DEF w
  <2> QED BY <2>1, <2>3, <2>4, NoText, RanRest, Zenon
<1>2. CASE \E args \in Arguments, in \in Filters :
            /\ Len(args) = 1
            /\ Ran(Command(name, args, in),
                   IF in.text \in Unparsable THEN [World EXCEPT !.ok = FALSE]
                   ELSE entry_fun(type, args[1], in.text, "none"), <<>>, ReadCode(in))
            /\ Rest
  <2>1. PICK args \in Arguments, in \in Filters :
            /\ Ran(Command(name, args, in),
                   IF in.text \in Unparsable THEN [World EXCEPT !.ok = FALSE]
                   ELSE entry_fun(type, args[1], in.text, "none"), <<>>, ReadCode(in))
            /\ Rest
    BY <1>2
  <2> DEFINE none == "none"
             v == [World EXCEPT !.ok = FALSE]
             e == entry_fun(type, args[1], in.text, none)
             w == IF in.text \in Unparsable THEN v ELSE e
  <2>2. v \in Fine /\ Grown(World, v)
    BY WorldNow, OkIs
  <2>3. e \in Fine /\ Grown(World, e)
    <3> HIDE DEF none
    <3> QED BY FilterIs, ArgsAre, EntryIs
  <2>4. w \in Fine /\ Grown(World, w)
    <3> HIDE DEF v, e
    <3> QED BY <2>2, <2>3
  <2>5. Ran(Command(name, args, in), w, <<>>, ReadCode(in))
    BY <2>1
  <2> HIDE DEF w
  <2> QED BY <2>1, <2>4, <2>5, NoText, RanRest
<1>3. CASE \E args \in Arguments :
            \E at \in {Find(args[1])} :
            LET found == at.ok /\ heap[at.object].type = type
            IN  /\ Len(args) = 1
                /\ \E out \in IF found THEN Pomched(heap[at.object].value) ELSE {<<>>} :
                       Ran(Command(name, args, NoPipe), [World EXCEPT !.ok = found], out, 0)
                /\ Rest
  <2>1. PICK args \in Arguments :
            \E at \in {Find(args[1])} :
            LET found == at.ok /\ heap[at.object].type = type
            IN  /\ Len(args) = 1
                /\ \E out \in IF found THEN Pomched(heap[at.object].value) ELSE {<<>>} :
                       Ran(Command(name, args, NoPipe), [World EXCEPT !.ok = found], out, 0)
                /\ Rest
    BY <1>3
  <2>2. PICK at \in {Find(args[1])} :
            LET found == at.ok /\ heap[at.object].type = type
            IN  /\ Len(args) = 1
                /\ \E out \in IF found THEN Pomched(heap[at.object].value) ELSE {<<>>} :
                       Ran(Command(name, args, NoPipe), [World EXCEPT !.ok = found], out, 0)
                /\ Rest
    BY <2>1
  <2> DEFINE found == at.ok /\ heap[at.object].type = type
  <2>3. PICK out \in IF found THEN Pomched(heap[at.object].value) ELSE {<<>>} :
            Ran(Command(name, args, NoPipe), [World EXCEPT !.ok = found], out, 0)
    BY <2>2
  <2>4. found \in BOOLEAN /\ Rest
    BY <2>2
  <2>5. found => heap[at.object].value \in Texts
    <3>1. at.ok => heap[at.object] \in Objects
      BY WorldNow, ArgsAre, FoundIs, HeapIs DEF Find
    <3> QED BY <3>1
  <2>6. out \in Texts
    BY <2>3, <2>5, PomchedIs, NoText
  <2> HIDE DEF found
  <2> QED BY <2>3, <2>4, <2>6, RanWrites
<1> QED BY <1>1, <1>2, <1>3, Zenon DEF Defines

\* The steps of def and class keep the types and what was there.
LEMMA DefiningSteps ==
    ASSUME TypedNow, cmd_def \/ cmd_class
    PROVE  TypedNow' /\ ValueStays
<1> DEFINE f == "function"
           c == "class"
<1>1. /\ \A s \in Texts : Joins(World, [type |-> f, value |-> s])
      /\ \A x \in Objects : x.type = f => x.value \in Texts
  BY ValueJoins, KindIs
<1>2. /\ \A s \in Texts : Joins(World, [type |-> c, value |-> s])
      /\ \A x \in Objects : x.type = c => x.value \in Texts
  BY ValueJoins, KindIs
<1> DEFINE d == "def"
<1>3. Defines(d, f) \/ Defines(c, c)
  BY DEF cmd_def, cmd_class
<1> HIDE DEF f, c, d
<1> QED BY <1>1, <1>2, <1>3, DefinesIs

\* So do those of alias.
LEMMA AliasSteps ==
    ASSUME TypedNow, cmd_alias
    PROVE  TypedNow' /\ ValueStays
<1>1. CASE \E args \in Arguments, source \in Sources, local \in BOOLEAN :
            /\ Len(args) = 1
            /\ Ran(Local(Command("alias", args, NoPipe), local),
                   BindNew(World, args[1], [type |-> "alias", value |-> source], local), <<>>, 0)
            /\ Rest
  BY <1>1, ArgumentsAssumption, ValueJoins, NoText, BindNewRuns DEF Rest
<1>2. CASE \E args \in Arguments, in \in Filters, local, survives \in BOOLEAN :
            /\ Len(args) = 1
            /\ LET w == IF in.text \in Unparsable THEN [World EXCEPT !.ok = FALSE]
                        ELSE BindNew(World, args[1], [type |-> "alias", value |-> in.text], local)
               IN  /\ Ran(Local(Command("alias", args, in), local), w, <<>>, 0)
                   /\ w.ok \/ survives
            /\ alive' = survives
            /\ UNCHANGED <<current, environ, gObjectsInPipe, blocks>>
  <2>1. PICK args \in Arguments, in \in Filters, local, survives \in BOOLEAN :
            /\ Len(args) = 1
            /\ LET w == IF in.text \in Unparsable THEN [World EXCEPT !.ok = FALSE]
                        ELSE BindNew(World, args[1], [type |-> "alias", value |-> in.text], local)
               IN  /\ Ran(Local(Command("alias", args, in), local), w, <<>>, 0)
                   /\ w.ok \/ survives
            /\ alive' = survives
            /\ UNCHANGED <<current, environ, gObjectsInPipe, blocks>>
    BY <1>2
  <2> DEFINE v == [World EXCEPT !.ok = FALSE]
             item == [type |-> "alias", value |-> in.text]
             e == BindNew(World, args[1], item, local)
             w == IF in.text \in Unparsable THEN v ELSE e
  <2>2. v \in Fine /\ Grown(World, v)
    BY WorldNow, OkIs
  <2>3. Joins(World, item)
    BY FilterIs, ValueJoins
  <2>4. e \in Fine /\ Grown(World, e)
    <3> HIDE DEF item
    <3> QED BY <2>3, WorldNow, ArgsAre, BindNewIs
  <2>5. w \in Fine /\ Grown(World, w)
    <3> HIDE DEF v, e
    <3> QED BY <2>2, <2>4
  <2>6. /\ Ran(Local(Command("alias", args, in), local), w, <<>>, 0)
        /\ UNCHANGED <<current, environ, gObjectsInPipe, blocks>>
    BY <2>1
  <2> HIDE DEF w
  <2> QED BY <2>5, <2>6, NoText, RanRest
<1>3. CASE \E args \in Arguments :
            Len(args) = 1 /\ Prints("alias", args, 0, {"alias"},
                                    [o \in DOMAIN heap |-> Line(heap[o].value)])
  BY <1>3, ListShows, PrintsIs
<1> QED BY <1>1, <1>2, <1>3 DEF cmd_alias

\* An address is text.
LEMMA AddressLine ==
    ASSUME NEW o \in 1..MaxObjects
    PROVE  Line(<<Address(o)>>) \in Texts
<1>1. Address(o) \in Words
  BY AddressAssumption
<1> QED BY <1>1, WordLine

\* "| ref" loses nothing.
LEMMA RefsGrown ==
    ASSUME NEW w \in Piping, NEW args \in Seq(Names), NEW lines \in Seq(ALine),
           NEW local \in BOOLEAN
    PROVE  RefsBound(w, args, lines, local) \in Fine /\ Grown(w, RefsBound(w, args, lines, local))
<1> DEFINE N == Shorter(lines, args)
<1>1. PICK f \in [0..N -> Piping] :
          /\ f[0] = w
          /\ \A n \in 1..N : f[n] = RefStep(f[n - 1], args, lines, local, n)
          /\ RefsBound(w, args, lines, local) = f[N]
  BY RefsBoundIs
<1>2. N \in Nat /\ \A n \in 1..N : args[n] \in Names
  <2>1. Len(args) \in Nat /\ Len(lines) \in Nat /\ \A n \in 1..Len(args) : args[n] \in Names
    BY ArgumentIs
  <2> QED BY <2>1 DEF Shorter
<1> HIDE DEF N
<1>3. \A n \in 0..N : f[n] \in Piping /\ f[n] \in Fine
  BY <1>1 DEF Piping
<1>4. ASSUME NEW n \in 1..N PROVE Grown(f[n - 1], f[n])
  <2>1. f[n - 1] \in Piping /\ args[n] \in Names /\ f[n] = RefStep(f[n - 1], args, lines, local, n)
    BY <1>1, <1>2, <1>3
  <2> QED BY <2>1, RefStepIs
<1>5. N \in 0..N /\ w \in Fine
  BY <1>2 DEF Piping
<1>6. \A n \in 0..N : f[n] \in Fine
  BY <1>3
<1> QED BY <1>1, <1>2, <1>4, <1>5, <1>6, GrownTo

\* The steps of ref keep the types and what was there, and no more than objects there
\* are can be bound.
LEMMA RefSteps ==
    ASSUME TypedNow, cmd_ref
    PROVE  TypedNow' /\ ValueStays
<1>0. World \in Fine /\ World.heap = heap /\ Len(heap) \in Nat /\ DOMAIN heap = 1..Len(heap)
      /\ Len(heap) <= MaxObjects /\ World \in Piping
  BY WorldNow
<1>1. CASE \E args \in Arguments :
            \E printed \in {Printed(World, args, Types,
                                    [o \in DOMAIN heap |-> Line(<<Address(o)>>)])} :
                /\ Ran(Command("ref", args, NoPipe), [World EXCEPT !.ok = printed.ok], printed.out,
                       0)
                /\ gObjectsInPipe' = gObjectsInPipe \cup printed.of
                /\ UNCHANGED <<current, environ, blocks, alive>>
  <2> DEFINE shown == [o \in DOMAIN heap |-> Line(<<Address(o)>>)]
             S == Printing(World)
  <2>1. Shows(World, Types, shown)
    <3>1. \A o \in DOMAIN heap : o \in 1..MaxObjects
      BY <1>0, BoundsAssumption
    <3> QED BY <1>0, <3>1, AddressLine DEF Shows
  <2> HIDE DEF shown
  <2>2. PICK args \in Arguments : \E printed \in {Printed(World, args, Types, shown)} :
            /\ Ran(Command("ref", args, NoPipe), [World EXCEPT !.ok = printed.ok], printed.out, 0)
            /\ gObjectsInPipe' = gObjectsInPipe \cup printed.of
            /\ UNCHANGED <<current, environ, blocks, alive>>
    BY <1>1 DEF shown
  <2>3. PICK printed \in {Printed(World, args, Types, shown)} :
            /\ Ran(Command("ref", args, NoPipe), [World EXCEPT !.ok = printed.ok], printed.out, 0)
            /\ gObjectsInPipe' = gObjectsInPipe \cup printed.of
            /\ UNCHANGED <<current, environ, blocks, alive>>
    BY <2>2
  <2>4. printed \in S
    <3>1. args \in Seq(Names) /\ Len(args) \in 0..Len(args)
      BY ArgsAre
    <3>2. PICK f \in [0..Len(args) -> S] : Printed(World, args, Types, shown) = f[Len(args)]
      BY <1>0, <2>1, <3>1, PrintedIs
    <3> HIDE DEF S
    <3>3. f[Len(args)] \in S
      BY <3>1, <3>2
    <3> QED BY <3>2, <3>3
  <2>5. printed.ok \in BOOLEAN /\ printed.out \in Texts /\ printed.of \subseteq DOMAIN heap
    BY <1>0, <2>4 DEF Printing
  <2> DEFINE w == [World EXCEPT !.ok = printed.ok]
  <2>6. w \in Fine /\ Grown(World, w) /\ w.heap = heap
    BY <1>0, <2>5, OkIs
  <2>7. Ran(Command("ref", args, NoPipe), w, printed.out, 0)
    BY <2>3
  <2> HIDE DEF w
  <2>8. Around(w.heap)
    BY <2>3, <2>5, <2>6 DEF Around, TypedNow
  <2> QED BY <2>5, <2>6, <2>7, <2>8, RanIs
<1>2. CASE PrintsKinds("ref -type")
  BY <1>2, ListShows, PrintsIs, Zenon DEF PrintsKinds
<1>3. CASE \E in \in Filters :
            LET named == [n \in DOMAIN LinesOf(in.text) |-> AddressOf(LinesOf(in.text)[n])]
                ok == \A n \in DOMAIN named : named[n] # NULL
            IN  /\ Ran(Command("| ref -type", <<>>, in), [World EXCEPT !.ok = ok],
                       FlattenSeq([n \in DOMAIN TakeWhileNot(named,
                                                             NULL) |-> Kind(heap[named[n]])]),
                       ReadCode(in))
                /\ Rest
  <2>1. PICK in \in Filters :
            LET named == [n \in DOMAIN LinesOf(in.text) |-> AddressOf(LinesOf(in.text)[n])]
                ok == \A n \in DOMAIN named : named[n] # NULL
            IN  /\ Ran(Command("| ref -type", <<>>, in), [World EXCEPT !.ok = ok],
                       FlattenSeq([n \in DOMAIN TakeWhileNot(named,
                                                             NULL) |-> Kind(heap[named[n]])]),
                       ReadCode(in))
                /\ Rest
    BY <1>3, Zenon
  <2> DEFINE lines == LinesOf(in.text)
             named == [n \in DOMAIN lines |-> AddressOf(lines[n])]
             ok == \A n \in DOMAIN named : named[n] # NULL
             taken == TakeWhileNot(named, NULL)
             q == [n \in DOMAIN taken |-> Kind(heap[named[n]])]
             S == gObjectsInPipe \cup {NULL}
  <2>2. lines \in Seq(ALine)
    BY FilterIs
  <2>3. ok \in BOOLEAN
    OBVIOUS
  <2>4. /\ Ran(Command("| ref -type", <<>>, in), [World EXCEPT !.ok = ok], FlattenSeq(q),
               ReadCode(in))
        /\ Rest
    BY <2>1, Zenon
  <2> HIDE DEF lines, ok
  <2>5. named \in Seq(S)
    <3>1. Len(lines) \in Nat /\ DOMAIN lines = 1..Len(lines)
      <4> DEFINE A == ALine
      <4>1. lines \in Seq(A)
        BY <2>2
      <4> HIDE DEF A
      <4> QED BY <4>1
    <3>2. \A n \in 1..Len(lines) : named[n] \in S
      BY <3>1, AddressIs
    <3>3. named = [n \in 1..Len(lines) |-> named[n]]
      BY <3>1
    <3> HIDE DEF named, S
    <3> QED BY <3>1, <3>2, <3>3, SequenceOf
  <2> HIDE DEF named
  <2>6. PICK k \in 0..Len(named) : taken = SubSeq(named, 1, k) /\ \A m \in 1..k : named[m] # NULL
    <3> HIDE DEF S
    <3> QED BY <2>5, TakenIs
  <2>7. k \in Nat /\ DOMAIN taken = 1..k /\ \A n \in 1..k : named[n] \in S
    <3> DEFINE Z == S
    <3>1. named \in Seq(Z)
      BY <2>5
    <3> HIDE DEF Z
    <3>2. taken \in Seq(Z) /\ Len(taken) = k /\ Len(named) \in Nat
      BY <2>6, <3>1, FirstPart
    <3>3. \A n \in 1..Len(named) : named[n] \in Z
      BY <3>1
    <3> HIDE DEF taken
    <3>4. k \in Nat /\ DOMAIN taken = 1..k /\ \A n \in 1..k : named[n] \in Z
      BY <2>6, <3>2, <3>3
    <3> QED BY <3>4 DEF Z, taken
  <2> HIDE DEF taken
  <2>8. \A n \in 1..k : q[n] \in Texts
    <3>1. \A n \in 1..k : named[n] \in DOMAIN heap
      BY <2>6, <2>7 DEF TypedNow
    <3> QED BY <1>0, <2>7, <3>1, HeapIs, KindTextIs
  <2>9. q = [n \in 1..k |-> q[n]]
    BY <2>7
  <2> HIDE DEF q
  <2>10. FlattenSeq(q) \in Texts
    BY <2>7, <2>8, <2>9, FlatTexts
  <2> QED BY <2>3, <2>4, <2>10, RanWrites, Zenon DEF Rest
<1>4. CASE \E args \in Arguments, in \in Filters, local, shift \in BOOLEAN :
            LET lines == LinesOf(in.text)
                w == RefsBound(World, args, lines, local)
            IN  /\ Ran(Shift(Local(Command("| ref", args, in), local), shift), w,
                       IF w.ok /\ shift THEN FlattenSeq(From(lines, Shorter(lines, args) + 1))
                         ELSE <<>>,
                       ReadCode(in))
                /\ Rest
  <2>1. PICK args \in Arguments, in \in Filters, local, shift \in BOOLEAN :
            LET lines == LinesOf(in.text)
                w == RefsBound(World, args, lines, local)
            IN  /\ Ran(Shift(Local(Command("| ref", args, in), local), shift), w,
                       IF w.ok /\ shift THEN FlattenSeq(From(lines, Shorter(lines, args) + 1))
                         ELSE <<>>,
                       ReadCode(in))
                /\ Rest
    BY <1>4, Zenon
  <2> DEFINE lines == LinesOf(in.text)
             w == RefsBound(World, args, lines, local)
             over == FlattenSeq(From(lines, Shorter(lines, args) + 1))
             out == IF w.ok /\ shift THEN over ELSE <<>>
  <2>2. Ran(Shift(Local(Command("| ref", args, in), local), shift), w, out, ReadCode(in)) /\ Rest
    BY <2>1, Zenon
  <2>3. lines \in Seq(ALine) /\ Len(lines) \in Nat /\ args \in Seq(Names) /\ Len(args) \in Nat
    BY FilterIs, ArgsAre
  <2> HIDE DEF lines
  <2>4. w \in Fine /\ Grown(World, w)
    BY <1>0, <2>3, RefsGrown
  <2> HIDE DEF w
  <2>5. over \in Texts
    <3> DEFINE m == Shorter(lines, args) + 1
               A == ALine
               z == From(lines, m)
    <3>1. m \in Nat \ {0}
      BY <2>3 DEF Shorter
    <3>2. lines \in Seq(A)
      BY <2>3
    <3> HIDE DEF A, m
    <3>3. z \in Seq(A)
      BY <3>1, <3>2, FromIs
    <3>4. Len(z) \in Nat /\ z = [n \in 1..Len(z) |-> z[n]] /\ \A n \in 1..Len(z) : z[n] \in A
      BY <3>3
    <3> HIDE DEF z
    <3>5. \A n \in 1..Len(z) : z[n] \in Texts
      BY <3>4, LineIs DEF A
    <3>6. FlattenSeq(z) \in Texts
      BY <3>4, <3>5, FlatTexts
    <3> QED BY <3>6 DEF z, m
  <2>6. out \in Texts
    <3> HIDE DEF over
    <3> QED BY <2>5, NoText
  <2> HIDE DEF out
  <2> QED BY <2>2, <2>4, <2>6, RanRest, Zenon DEF Rest
<1> QED BY <1>1, <1>2, <1>3, <1>4, Zenon DEF cmd_ref

\* "| export" leaves an environment.
LEMMA SetAllIn ==
    ASSUME NEW env \in Environs, NEW args \in Seq(Names), NEW lines \in Seq(ALine)
    PROVE  SetAll(env, args, lines) \in Environs
<1> DEFINE S == Environs
<1>1. PICK f \in [0..Len(args) -> S] : SetAll(env, args, lines) = f[Len(args)]
  BY SetAllIs
<1>2. Len(args) \in 0..Len(args)
  BY ArgumentIs
<1> HIDE DEF S
<1>3. f[Len(args)] \in S
  BY <1>1, <1>2
<1> QED BY <1>1, <1>3 DEF S

\* The steps of export and unset keep the types and what was there.
LEMMA EnvironSteps ==
    ASSUME TypedNow, cmd_export \/ cmd_unset
    PROVE  TypedNow' /\ ValueStays
<1>0. World \in Fine /\ World.heap = heap /\ Grown(World, World)
  BY WorldNow, GrownSame
<1>1. CASE \E args \in Arguments :
            /\ Ran(Command("export", args, NoPipe), World,
                   FlattenSeq([n \in DOMAIN args |->
                       IF args[n] \in DOMAIN environ THEN Line(environ[args[n]]) ELSE <<>>]), 0)
            /\ Rest
  <2>1. PICK args \in Arguments :
            /\ Ran(Command("export", args, NoPipe), World,
                   FlattenSeq([n \in DOMAIN args |->
                       IF args[n] \in DOMAIN environ THEN Line(environ[args[n]]) ELSE <<>>]), 0)
            /\ Rest
    BY <1>1
  <2> DEFINE q == [n \in DOMAIN args |-> IF args[n] \in DOMAIN environ THEN Line(environ[args[n]])
                   ELSE <<>>]
  <2>2. \A a \in DOMAIN environ : environ[a] \in ALine
    BY EnvironIs, Zenon DEF TypedNow
  <2>3. \A a \in DOMAIN environ : Line(environ[a]) \in Texts
    BY <2>2, LineIs
  <2>4. Len(args) \in Nat /\ DOMAIN args = 1..Len(args)
    BY ArgsAre, ArgumentIs
  <2>5. \A n \in 1..Len(args) : q[n] \in Texts
    BY <2>3, <2>4, NoText
  <2>6. q = [n \in 1..Len(args) |-> q[n]]
    BY <2>4
  <2>7. Ran(Command("export", args, NoPipe), World, FlattenSeq(q), 0) /\ Rest
    BY <2>1
  <2> HIDE DEF q
  <2>8. FlattenSeq(q) \in Texts
    BY <2>4, <2>5, <2>6, FlatTexts
  <2> QED BY <1>0, <2>7, <2>8, RanRest DEF Rest
<1>2. CASE \E args \in Arguments, in \in Filters, shift \in BOOLEAN :
            LET lines == LinesOf(in.text)
            IN  /\ Ran(Shift(Command("| export", args, in), shift), World,
                       Passed(shift, lines, Len(args) + 1), ReadCode(in))
                /\ environ' = SetAll(environ, args, lines)
                /\ UNCHANGED <<current, gObjectsInPipe, blocks, alive>>
  <2>1. PICK args \in Arguments, in \in Filters, shift \in BOOLEAN :
            LET lines == LinesOf(in.text)
            IN  /\ Ran(Shift(Command("| export", args, in), shift), World,
                       Passed(shift, lines, Len(args) + 1), ReadCode(in))
                /\ environ' = SetAll(environ, args, lines)
                /\ UNCHANGED <<current, gObjectsInPipe, blocks, alive>>
    BY <1>2, Zenon
  <2> DEFINE lines == LinesOf(in.text)
             out == Passed(shift, lines, Len(args) + 1)
  <2>2. /\ Ran(Shift(Command("| export", args, in), shift), World, out, ReadCode(in))
        /\ environ' = SetAll(environ, args, lines)
        /\ UNCHANGED <<current, gObjectsInPipe, blocks, alive>>
    BY <2>1, Zenon
  <2>3. lines \in Seq(ALine) /\ args \in Seq(Names) /\ Len(args) + 1 \in Nat \ {0}
    BY FilterIs, ArgsAre
  <2> HIDE DEF lines
  <2>4. out \in Texts
    BY <2>3, PassedIs
  <2> HIDE DEF out
  <2>5. environ' \in Environs
    BY <2>2, <2>3, SetAllIn, Zenon DEF TypedNow
  <2>6. Around(World.heap)
    BY <1>0, <2>2, <2>5, Zenon DEF Around, TypedNow
  <2> QED BY <1>0, <2>2, <2>4, <2>6, RanIs, Zenon
<1>3. CASE cmd_unset
  <2>1. PICK args \in Arguments :
          LET good == TakeWhileNot(args, <<"">>)
          IN  /\ Ran(Command("unset", args, NoPipe), [World EXCEPT !.ok = good = args], <<>>, 0)
              /\ environ' = [a \in DOMAIN environ \ ToSet(good) |-> environ[a]]
              /\ UNCHANGED <<current, gObjectsInPipe, blocks, alive>>
    BY <1>3, Zenon DEF cmd_unset
  <2> DEFINE good == TakeWhileNot(args, <<"">>)
             ok == good = args
             w == [World EXCEPT !.ok = ok]
             gone == ToSet(good)
             D == DOMAIN environ \ gone
             e == [a \in D |-> environ[a]]
  <2>2. /\ Ran(Command("unset", args, NoPipe), w, <<>>, 0)
        /\ environ' = e /\ UNCHANGED <<current, gObjectsInPipe, blocks, alive>>
    BY <2>1, Zenon
  <2>3. ok \in BOOLEAN
    OBVIOUS
  <2> HIDE DEF ok, gone
  <2>4. w \in Fine /\ Grown(World, w) /\ w.heap = heap
    BY <1>0, <2>3, OkIs
  <2> HIDE DEF w
  <2>5. e \in Environs
    <3> DEFINE M == Names \ {<<"">>}
    <3>1. DOMAIN environ \subseteq M /\ \A a \in DOMAIN environ : environ[a] \in ALine
      BY EnvironIs, Zenon DEF TypedNow
    <3> HIDE DEF M
    <3>2. DOMAIN e = D /\ D \subseteq M /\ \A a \in D : e[a] \in ALine /\ e[a] = environ[a]
      BY <3>1
    <3>3. e = [a \in DOMAIN e |-> e[a]]
      BY <3>2
    <3> HIDE DEF e, D
    <3> QED BY <3>2, <3>3, EnvironIs, Zenon DEF M
  <2> HIDE DEF e
  <2>6. Around(w.heap)
    BY <2>2, <2>4, <2>5 DEF Around, TypedNow
  <2> QED BY <2>2, <2>4, <2>6, NoText, RanIs
<1> QED BY <1>1, <1>2, <1>3, Zenon DEF cmd_export

\* So does the end of a command line.
LEMMA LineEndSteps ==
    ASSUME TypedNow, CommandLineEnds
    PROVE  TypedNow' /\ ValueStays
<1>1. /\ UNCHANGED <<heap, locals, current, environ, blocks, alive, commands>>
      /\ gObjectsInPipe' = {} /\ written' = <<>> /\ commands # 0
  BY DEF CommandLineEnds
<1>2. TypedNow'
  BY <1>1, NoText DEF TypedNow
<1>3. Grown(World, World) /\ heap' = World.heap
  BY <1>1, WorldNow, GrownSame
<1> QED BY <1>2, <1>3, GrownStays

\* Objects made one after the other.
LEMMA ObjectsGrown ==
    ASSUME NEW w \in Fine, NEW args \in Seq(Names), NEW local \in BOOLEAN
    PROVE  ObjectsMade(w, args, local) \in Fine /\ Grown(w, ObjectsMade(w, args, local))
<1> DEFINE N == Len(args)
<1>1. PICK f \in [0..N -> Fine] :
          /\ f[0] = w
          /\ \A n \in 1..N : f[n] = WithObject(f[n - 1], args[n], local)
          /\ ObjectsMade(w, args, local) = f[N]
  BY ObjectsMadeIs
<1>2. N \in Nat /\ \A n \in 1..N : args[n] \in Names
  BY ArgumentIs
<1> HIDE DEF N
<1>3. \A n \in 0..N : f[n] \in Fine
  BY <1>1
<1>4. ASSUME NEW n \in 1..N PROVE Grown(f[n - 1], f[n])
  <2>1. f[n - 1] \in Fine /\ args[n] \in Names /\ f[n] = WithObject(f[n - 1], args[n], local)
    BY <1>1, <1>2, <1>3
  <2> QED BY <2>1, WithObjectIs
<1>5. N \in 0..N
  BY <1>2
<1> QED BY <1>1, <1>2, <1>3, <1>4, <1>5, GrownTo

\* Only the heap counts for what becomes of the objects.
LEMMA HeapStays ==
    ASSUME TypedNow, NEW v, v.heap = heap, NEW w, Grown(v, w), heap' = w.heap
    PROVE  ValueStays
<1> DEFINE x == WorldOf(w.heap, locals, current)
<1>1. World.heap = heap /\ World.current = current
  BY WorldNow
<1>2. x.heap = w.heap /\ x.current = current
  BY DEF WorldOf
<1> HIDE DEF x
<1>3. Grown(World, x)
  BY <1>1, <1>2 DEF Grown
<1> QED BY <1>2, <1>3, GrownStays

\* What the blocks of the actions are.
BlockKinds == {"object", "object -new", "run", "class"}
Unnamed    == "object -new"
BlockOf(kind, args, local, object) ==
    [kind |-> kind, args |-> args, local |-> local, object |-> object,
     current |-> current, locals |-> locals]

\* A record with another field, for the provers.
LEMMA RecordOne ==
    ASSUME NEW k, NEW e, NEW f, NEW z, NEW c, NEW l, NEW object
    PROVE  [[kind |-> k, args |-> e, local |-> f, object |-> z, current |-> c, locals |-> l]
               EXCEPT !.object = object]
           = [kind |-> k, args |-> e, local |-> f, object |-> object, current |-> c, locals |-> l]
<1> DEFINE K == {k}
           A == {e}
           B == {f}
           O == {z, object}
           C == {c}
           V == {l}
           R == [kind : K, args : A, local : B, object : O, current : C, locals : V]
           b == [kind |-> k, args |-> e, local |-> f, object |-> z, current |-> c, locals |-> l]
           d == [kind |-> k, args |-> e, local |-> f, object |-> object, current |-> c,
                 locals |-> l]
<1>1. b \in R /\ d \in R /\ object \in O
  OBVIOUS
<1>2. b.kind = k /\ b.args = e /\ b.local = f /\ b.current = c /\ b.locals = l
  OBVIOUS
<1>3. d.kind = k /\ d.args = e /\ d.local = f /\ d.object = object /\ d.current = c /\ d.locals = l
  OBVIOUS
<1> HIDE DEF K, A, B, O, C, V, b, d
<1>4. [b EXCEPT !.object = object] = d
  BY <1>1, <1>2, <1>3
<1> QED BY <1>4 DEF b, d

\* The blocks that are entered, field by field.
LEMMA BlockForms ==
    /\ \A args, local : [Block("object") EXCEPT !.args = args, !.local = local]
                           = BlockOf("object", args, local, NULL)
    /\ \A object : [Block("object -new") EXCEPT !.object = object]
                       = BlockOf("object -new", <<>>, FALSE, object)
    /\ \A kind : Block(kind) = BlockOf(kind, <<>>, FALSE, NULL)
<1>1. ASSUME NEW args, NEW local
      PROVE  [Block("object") EXCEPT !.args = args, !.local = local] =
             BlockOf("object", args, local, NULL)
  <2> DEFINE k == "object"
             e == <<>>
             f == FALSE
             z == NULL
             b == [kind |-> k, args |-> e, local |-> f, object |-> z, current |-> current,
                   locals |-> locals]
  <2>1. [Block("object") EXCEPT !.args = args, !.local = local] =
        [b EXCEPT !.args = args, !.local = local]
    BY DEF Block
  <2>2. BlockOf("object", args, local, NULL) =
        [kind |-> k, args |-> args, local |-> local, object |-> z,
                                               current |-> current, locals |-> locals]
    BY DEF BlockOf
  <2> DEFINE d == BlockOf("object", args, local, NULL)
             K == {k}
             A == {e, args}
             B == {f, local}
             O == {z}
             C == {current}
             V == {locals}
             R == [kind : K, args : A, local : B, object : O, current : C, locals : V]
  <2>7. d = [kind |-> k, args |-> args, local |-> local, object |-> z, current |-> current,
             locals |-> locals]
    BY <2>2
  <2> HIDE DEF k, e, f, z, d
  <2>3. b \in R /\ d \in R /\ args \in A /\ local \in B
    BY <2>7
  <2>4. b.kind = k /\ b.object = z /\ b.current = current /\ b.locals = locals
    OBVIOUS
  <2>5. d.kind = k /\ d.args = args /\ d.local = local /\ d.object = z /\ d.current = current
        /\ d.locals = locals
    BY <2>7
  <2> HIDE DEF K, A, B, O, C, V, b
  <2>6. [b EXCEPT !.args = args, !.local = local] = d
    BY <2>3, <2>4, <2>5
  <2> QED BY <2>1, <2>6 DEF d
<1>2. ASSUME NEW object
      PROVE  [Block("object -new") EXCEPT !.object = object] =
             BlockOf("object -new", <<>>, FALSE, object)
  <2> DEFINE k == "object -new"
             e == <<>>
             f == FALSE
             z == NULL
             b == [kind |-> k, args |-> e, local |-> f, object |-> z, current |-> current,
                   locals |-> locals]
  <2>1. [Block("object -new") EXCEPT !.object = object] = [b EXCEPT !.object = object]
    BY DEF Block
  <2>2. BlockOf("object -new", <<>>, FALSE, object) =
        [kind |-> k, args |-> e, local |-> f, object |-> object,
                                                     current |-> current, locals |-> locals]
    BY DEF BlockOf
  <2> HIDE DEF k, e, f, z
  <2>3. [b EXCEPT !.object = object] = [kind |-> k, args |-> e, local |-> f, object |-> object,
                                        current |-> current, locals |-> locals]
    BY RecordOne
  <2> QED BY <2>1, <2>2, <2>3, Zenon
<1>3. ASSUME NEW kind PROVE Block(kind) = BlockOf(kind, <<>>, FALSE, NULL)
  BY DEF Block, BlockOf
<1> QED BY <1>1, <1>2, <1>3, Zenon

\* What a block may remember.
LEMMA BlockIs ==
    ASSUME TypedNow, NEW w \in Fine, Wider(World, w),
           NEW kind \in BlockKinds, NEW args \in Seq(Names),
           NEW local \in BOOLEAN, NEW object \in Nat, kind = Unnamed => object \in DOMAIN w.heap
    PROVE  BlockOf(kind, args, local, object) \in Kept(w.heap)
<1> DEFINE b == [kind |-> kind, args |-> args, local |-> local, object |-> object,
                 current |-> current, locals |-> locals]
<1>1. BlockOf(kind, args, local, object) = b
  BY DEF BlockOf
<1>2. World \in Fine /\ World.current = current /\ World.locals = locals /\ World.heap = heap
  BY WorldNow
<1>3. IsUser(w, current) /\ DOMAIN heap \subseteq DOMAIN w.heap
  BY <1>2, WiderUsers, WorldIs
<1>4. locals \in Pairs(Names, DOMAIN w.heap) /\ locals \in Pairs(Names, Nat) /\ current \in Nat
  <2> DEFINE V == DOMAIN heap
             W == DOMAIN w.heap
  <2>1. locals \in Pairs(Names, V) /\ V \subseteq W /\ current \in Nat
    BY <1>2, <1>3, WorldIs
  <2>2. W \subseteq Nat
    <3> DEFINE n == Len(w.heap)
    <3>1. W = 1..n /\ n \in Nat
      BY WorldIs
    <3> HIDE DEF W, n
    <3> QED BY <3>1
  <2> HIDE DEF V, W
  <2>3. \A n \in DOMAIN locals : locals[n][2] \in W
    BY <2>1, PairIs
  <2>4. locals \in Pairs(Names, W) /\ locals \in Pairs(Names, Nat)
    BY <2>1, <2>2, <2>3, PairsIn
  <2> QED BY <2>1, <2>4 DEF W
<1>5. b \in Blocks
  BY <1>4, Zenon DEF Blocks, BlockKinds
<1>6. WorldOf(w.heap, locals, current) \in Fine
  BY <1>3, <1>4, WorldOfIs
<1>7. b.locals = locals /\ b.current = current /\ b.kind = kind /\ b.object = object
  OBVIOUS
<1> HIDE DEF b
<1>8. b \in Kept(w.heap)
  BY <1>5, <1>6, <1>7, Zenon DEF Kept, Unnamed
<1> QED BY <1>1, <1>8

\* The types of a step that begins or ends a block.
LEMMA BlockTyped ==
    ASSUME TypedNow, NEW w \in Fine, Len(w.heap) <= MaxObjects, heap' = w.heap,
           locals' \in Pairs(Names, DOMAIN w.heap), IsUser(w, current'),
           environ' = environ, gObjectsInPipe' \subseteq DOMAIN w.heap, written' \in Texts,
           blocks' \in Seq(Kept(w.heap)), Len(blocks') <= MaxBlocks,
           commands' \in 0..MaxCommands, blocks' = <<>> => alive' \/ commands' > 0
    PROVE  TypedNow'
<1>1. WorldOf(w.heap, locals', current') \in Fine
  BY WorldOfIs
<1> QED BY <1>1 DEF TypedNow

\* A command that begins a block.
LEMMA EntersIs ==
    ASSUME TypedNow, NEW w \in Fine, Grown(World, w), Len(w.heap) <= MaxObjects,
           NEW l \in Pairs(Names, DOMAIN w.heap), NEW object, IsUser(w, object),
           NEW block \in Kept(w.heap), Goes, Len(blocks) < MaxBlocks,
           heap' = w.heap, locals' = l, current' = object, blocks' = Append(blocks, block),
           written' = (IF blocks = <<>> THEN <<>> ELSE written), commands' = commands + 1,
           UNCHANGED <<environ, gObjectsInPipe, alive>>
    PROVE  TypedNow' /\ ValueStays
<1>1. World \in Fine /\ World.heap = heap /\ Wider(World, w) /\ DOMAIN heap \subseteq DOMAIN w.heap
  BY WorldNow, GrownWider, WiderUsers
<1>2. gObjectsInPipe' \subseteq DOMAIN w.heap /\ written' \in Texts
  BY <1>1, NoText DEF TypedNow
<1>3. blocks' \in Seq(Kept(w.heap)) /\ Len(blocks') <= MaxBlocks /\ blocks' # <<>>
  <2> DEFINE K == Kept(heap)
             J == Kept(w.heap)
             b == blocks
             x == block
  <2>1. b \in Seq(K) /\ K \subseteq J /\ x \in J
    BY <1>1, KeptOn DEF TypedNow
  <2> HIDE DEF K, J, b, x
  <2>2. b \in Seq(J) /\ Len(b) \in Nat
    BY <2>1
  <2>3. Append(b, x) \in Seq(J) /\ Append(b, x) # <<>> /\ Len(Append(b, x)) = Len(b) + 1
    BY <2>1, <2>2, AppendProperties
  <2>4. Len(b) < MaxBlocks /\ MaxBlocks \in Nat
    BY BoundsAssumption DEF b
  <2>5. Len(Append(b, x)) <= MaxBlocks
    BY <2>2, <2>3, <2>4
  <2> QED BY <2>3, <2>5 DEF J, b, x
<1>4. commands' \in 0..MaxCommands
  <2>1. commands \in Nat /\ commands < MaxCommands
    BY DEF TypedNow, Goes
  <2> QED BY <2>1, BoundsAssumption
<1>5. TypedNow'
  BY <1>2, <1>3, <1>4, BlockTyped
<1> QED BY <1>5, GrownStays

\* A command that fails before it begins one.
LEMMA RefusedIs ==
    ASSUME TypedNow, Goes, UNCHANGED <<heap, locals, current, blocks>>,
           written' = (IF blocks = <<>> THEN <<>> ELSE written), commands' = commands + 1,
           UNCHANGED <<environ, gObjectsInPipe, alive>>
    PROVE  TypedNow' /\ ValueStays
<1>1. commands' \in 0..MaxCommands /\ commands' > 0
  <2>1. commands \in Nat /\ commands < MaxCommands
    BY DEF TypedNow, Goes
  <2> QED BY <2>1, BoundsAssumption
<1>2. TypedNow'
  BY <1>1, NoText DEF TypedNow
<1>3. Grown(World, World) /\ heap' = World.heap
  BY WorldNow, GrownSame
<1> QED BY <1>2, <1>3, GrownStays

\* object with a block, and run.
LEMMA KindsAre ==
    /\ "object" \in BlockKinds /\ "object -new" \in BlockKinds /\ "run" \in BlockKinds
    /\ "class" \in BlockKinds
    /\ Unnamed = "object -new" /\ "object" # Unnamed /\ "run" # Unnamed /\ "class" # Unnamed
BY DEF BlockKinds, Unnamed

\* The steps of object keep the types and what was there.
LEMMA ObjectSteps ==
    ASSUME TypedNow, cmd_object
    PROVE  TypedNow' /\ ValueStays
<1>0. World \in Fine /\ World.heap = heap /\ World.ok /\ Grown(World, World)
      /\ World.current = current
      /\ World.locals = locals
  BY WorldNow, GrownSame
<1> DEFINE nobody == <<"anonymous">>
<1>6. nobody \in Names
  <2>1. "anonymous" \in Words
    BY DEF Words
  <2> QED BY <2>1, ShortName
<1>1. CASE \E args \in Arguments, local \in BOOLEAN :
            /\ Ran(Local(Command("object", args, NoPipe), local),
                   ObjectsMade(World, args, local), <<>>, 0)
            /\ Rest
  <2>1. PICK args \in Arguments, local \in BOOLEAN :
            /\ Ran(Local(Command("object", args, NoPipe), local),
                   ObjectsMade(World, args, local), <<>>, 0)
            /\ Rest
    BY <1>1
  <2> DEFINE w == ObjectsMade(World, args, local)
  <2>2. w \in Fine /\ Grown(World, w)
    BY <1>0, ArgsAre, ObjectsGrown
  <2> HIDE DEF w
  <2>3. Ran(Local(Command("object", args, NoPipe), local), w, <<>>, 0) /\ Rest
    BY <2>1 DEF w
  <2> QED BY <2>2, <2>3, NoText, RanRest DEF Rest
<1>2. CASE PrintsNew(Command("object -new", <<>>, NoPipe),
                     UserObject(New(World), current, <<"anonymous">>), <<>>, 0)
  <2> DEFINE item == UserObject(New(World), current, nobody)
             c == Command("object -new", <<>>, NoPipe)
  <2>1. Joins(World, item)
    <3> HIDE DEF nobody
    <3> QED BY <1>0, <1>6, UserObjectIs
  <2>2. PrintsNew(c, item, <<>>, 0)
    BY <1>2, Zenon
  <2> HIDE DEF item, c
  <2> QED BY <2>1, <2>2, NoText, PrintsNewIs
<1>3. CASE \E args \in Arguments, local \in BOOLEAN :
            \E w \in {WithObject(World, args[1], local)} :
            /\ Goes /\ Len(blocks) < MaxBlocks /\ Len(w.heap) <= MaxObjects
            /\ \/ w.ok /\ Enters([Block("object") EXCEPT !.args = Tail(args), !.local = local],
                                 w, New(World))
               \/ ~w.ok /\ returned' = FALSE /\ mRCode' = RCODE_NFUN_INVALID_USSING
                  /\ UNCHANGED <<heap, locals, current, blocks>>
            /\ last' = [Command("object (", args, NoPipe) EXCEPT !.local = local]
            /\ written' = IF blocks = <<>> THEN <<>> ELSE written
            /\ commands' = commands + 1
            /\ UNCHANGED <<environ, gObjectsInPipe, alive>>
  <2>1. PICK args \in Arguments, local \in BOOLEAN :
            \E w \in {WithObject(World, args[1], local)} :
            /\ Goes /\ Len(blocks) < MaxBlocks /\ Len(w.heap) <= MaxObjects
            /\ \/ w.ok /\ Enters([Block("object") EXCEPT !.args = Tail(args), !.local = local],
                                 w, New(World))
               \/ ~w.ok /\ returned' = FALSE /\ mRCode' = RCODE_NFUN_INVALID_USSING
                  /\ UNCHANGED <<heap, locals, current, blocks>>
            /\ last' = [Command("object (", args, NoPipe) EXCEPT !.local = local]
            /\ written' = IF blocks = <<>> THEN <<>> ELSE written
            /\ commands' = commands + 1
            /\ UNCHANGED <<environ, gObjectsInPipe, alive>>
    BY <1>3, Zenon
  <2> DEFINE w == WithObject(World, args[1], local)
             rest == Tail(args)
             block == BlockOf("object", rest, local, NULL)
  <2>2. /\ Goes /\ Len(blocks) < MaxBlocks /\ Len(w.heap) <= MaxObjects
        /\ \/ w.ok /\ Enters(block, w, New(World))
           \/ ~w.ok /\ UNCHANGED <<heap, locals, current, blocks>>
        /\ written' = (IF blocks = <<>> THEN <<>> ELSE written)
        /\ commands' = commands + 1
        /\ UNCHANGED <<environ, gObjectsInPipe, alive>>
    BY <2>1, BlockForms, Zenon
  <2>3. /\ w \in Fine /\ Grown(World, w)
        /\ w.ok => IsUser(w, New(World))
    BY <1>0, ArgsAre, WithObjectIs
  <2>4. rest \in Seq(Names)
    <3> DEFINE K == Names
    <3>1. args \in Seq(K) /\ args # <<>>
      BY ArgsAre
    <3> HIDE DEF K
    <3>2. Tail(args) \in Seq(K)
      BY <3>1
    <3> QED BY <3>2 DEF K
  <2> HIDE DEF w, rest
  <2>5. block \in Kept(w.heap)
    <3> DEFINE k == "object"
    <3>1. k \in BlockKinds /\ k # Unnamed
      BY KindsAre, Zenon
    <3> HIDE DEF k
    <3>2. NULL \in Nat /\ Wider(World, w)
      BY <2>3, GrownWider DEF NULL
    <3>3. BlockOf(k, rest, local, NULL) \in Kept(w.heap)
      BY <2>3, <2>4, <3>1, <3>2, BlockIs
    <3> QED BY <3>3 DEF k
  <2> HIDE DEF block
  <2>6. CASE w.ok /\ Enters(block, w, New(World))
    <3>1. w.locals \in Pairs(Names, DOMAIN w.heap)
      BY <2>3, WorldIs
    <3>2. /\ heap' = w.heap /\ locals' = w.locals /\ current' = New(World)
          /\ blocks' = Append(blocks, block)
      BY <2>6 DEF Enters
    <3> QED BY <2>2, <2>3, <2>5, <2>6, <3>1, <3>2, EntersIs
  <2>7. CASE ~w.ok /\ UNCHANGED <<heap, locals, current, blocks>>
    BY <2>2, <2>7, RefusedIs
  <2> QED BY <2>2, <2>6, <2>7
<1>4. CASE LET w == Made(World, UserObject(New(World), current, <<"anonymous">>)) IN
            /\ Goes /\ Len(blocks) < MaxBlocks /\ Len(w.heap) <= MaxObjects
            /\ Enters([Block("object -new") EXCEPT !.object = New(World)], w, New(World))
            /\ last' = Command("object (", <<>>, NoPipe)
            /\ written' = IF blocks = <<>> THEN <<>> ELSE written
            /\ commands' = commands + 1
            /\ UNCHANGED <<environ, gObjectsInPipe, alive>>
  <2> DEFINE item == UserObject(New(World), current, nobody)
             w == Made(World, item)
             block == BlockOf("object -new", <<>>, FALSE, New(World))
  <2>1. /\ Goes /\ Len(blocks) < MaxBlocks /\ Len(w.heap) <= MaxObjects
        /\ Enters(block, w, New(World))
        /\ written' = (IF blocks = <<>> THEN <<>> ELSE written)
        /\ commands' = commands + 1
        /\ UNCHANGED <<environ, gObjectsInPipe, alive>>
    BY <1>4, BlockForms, Zenon
  <2>2. Joins(World, item) /\ item.type = "object"
    <3> HIDE DEF nobody
    <3> QED BY <1>0, <1>6, UserObjectIs
  <2> HIDE DEF item
  <2>3. /\ w \in Fine /\ Grown(World, w) /\ New(World) \in DOMAIN w.heap
        /\ w.heap[New(World)] = item
    BY <1>0, <2>2, MadeIs
  <2> HIDE DEF w
  <2>4. IsUser(w, New(World))
    BY <2>2, <2>3 DEF IsUser
  <2>5. block \in Kept(w.heap)
    <3> DEFINE k == "object -new"
               e == <<>>
               f == FALSE
    <3>4. k \in BlockKinds
      BY KindsAre, Zenon
    <3>5. e \in Seq(Names) /\ f \in BOOLEAN
      OBVIOUS
    <3> HIDE DEF k, e, f
    <3>1. k \in BlockKinds /\ e \in Seq(Names) /\ f \in BOOLEAN
      BY <3>4, <3>5
    <3>2. New(World) \in Nat /\ Wider(World, w)
      BY <2>3, GrownWider, HeapIs
    <3>3. BlockOf(k, e, f, New(World)) \in Kept(w.heap)
      BY <2>3, <3>1, <3>2, BlockIs
    <3> QED BY <3>3, Zenon DEF k, e, f
  <2> HIDE DEF block
  <2>6. w.locals \in Pairs(Names, DOMAIN w.heap)
    BY <2>3, WorldIs
  <2>7. /\ heap' = w.heap /\ locals' = w.locals /\ current' = New(World)
        /\ blocks' = Append(blocks, block)
    BY <2>1 DEF Enters
  <2> QED BY <2>1, <2>3, <2>4, <2>5, <2>6, <2>7, EntersIs
<1> QED BY <1>1, <1>2, <1>3, <1>4, Zenon DEF cmd_object

\* So do those of run, of an object and of a class.
LEMMA RunSteps ==
    ASSUME TypedNow, cmd_mrun
    PROVE  TypedNow' /\ ValueStays
<1>0. World \in Fine /\ World.heap = heap /\ Grown(World, World) /\ World.current = current
      /\ World.locals = locals /\ Len(heap) <= MaxObjects
  BY WorldNow, GrownSame
<1>1. PICK argument \in UNION {ToSet(args) : args \in Arguments} :
        \E at \in {Find(argument)} :
        /\ Goes /\ Len(blocks) < MaxBlocks
        /\ at.ok /\ heap[at.object].type = "object"
        /\ \/ Enters(Block("run"), World, at.object)
           \/ \E class \in UNION {ToSet(args) : args \in Arguments} :
                /\ Len(class) = 1
                /\ LET item == access_object(World, class)
                   IN  \/ /\ Typed(World, item) = "class"
                          /\ Enters(Block("class"), [World EXCEPT !.locals = <<>>], at.object)
                       \/ /\ Typed(World, item) # "class"
                          /\ returned' = FALSE /\ mRCode' = RCODE_NFUN_INVALID_USSING
                          /\ UNCHANGED <<heap, locals, current, blocks>>
        /\ last' = Command("run", <<argument>>, NoPipe)
        /\ written' = IF blocks = <<>> THEN <<>> ELSE written
        /\ commands' = commands + 1
        /\ UNCHANGED <<environ, gObjectsInPipe, alive>>
  BY DEF cmd_mrun
<1>2. PICK at \in {Find(argument)} :
        /\ Goes /\ Len(blocks) < MaxBlocks
        /\ at.ok /\ heap[at.object].type = "object"
        /\ \/ Enters(Block("run"), World, at.object)
           \/ \E class \in UNION {ToSet(args) : args \in Arguments} :
                /\ Len(class) = 1
                /\ LET item == access_object(World, class)
                   IN  \/ /\ Typed(World, item) = "class"
                          /\ Enters(Block("class"), [World EXCEPT !.locals = <<>>], at.object)
                       \/ /\ Typed(World, item) # "class"
                          /\ returned' = FALSE /\ mRCode' = RCODE_NFUN_INVALID_USSING
                          /\ UNCHANGED <<heap, locals, current, blocks>>
        /\ written' = (IF blocks = <<>> THEN <<>> ELSE written)
        /\ commands' = commands + 1
        /\ UNCHANGED <<environ, gObjectsInPipe, alive>>
  BY <1>1
<1> DEFINE o == at.object
           r == BlockOf("run", <<>>, FALSE, NULL)
           c == BlockOf("class", <<>>, FALSE, NULL)
           none == [World EXCEPT !.locals = <<>>]
<1>3. IsUser(World, o)
  <2>1. at.object \in DOMAIN World.heap
    BY <1>0, <1>2, ArgumentsAre, FoundIs DEF Find
  <2> QED BY <1>0, <1>2, <2>1 DEF IsUser
<1>4. r \in Kept(World.heap) /\ c \in Kept(World.heap)
  <2> DEFINE e == <<>>
             f == FALSE
             k == "run"
             m == "class"
  <2>1. k \in BlockKinds /\ k # Unnamed /\ m \in BlockKinds /\ m # Unnamed
    BY KindsAre, Zenon
  <2>2. e \in Seq(Names) /\ f \in BOOLEAN
    OBVIOUS
  <2>3. NULL \in Nat /\ Wider(World, World)
    BY <1>0, GrownWider DEF NULL
  <2> HIDE DEF e, f, k, m
  <2>4. BlockOf(k, e, f, NULL) \in Kept(World.heap) /\ BlockOf(m, e, f, NULL) \in Kept(World.heap)
    BY <1>0, <2>1, <2>2, <2>3, BlockIs
  <2> QED BY <2>4 DEF e, f, k, m
<1>5. none.heap = heap /\ none.locals = <<>>
  BY DEF World
<1>6. /\ Goes /\ Len(blocks) < MaxBlocks
      /\ \/ Enters(r, World, o)
         \/ Enters(c, none, o)
         \/ UNCHANGED <<heap, locals, current, blocks>>
      /\ written' = (IF blocks = <<>> THEN <<>> ELSE written)
      /\ commands' = commands + 1
      /\ UNCHANGED <<environ, gObjectsInPipe, alive>>
  BY <1>2, BlockForms, Zenon
<1> HIDE DEF r, c, o, none
<1>7. CASE Enters(r, World, o)
  <2>1. World.locals \in Pairs(Names, DOMAIN World.heap)
    BY <1>0, WorldIs
  <2>2. /\ heap' = World.heap /\ locals' = World.locals /\ current' = o
        /\ blocks' = Append(blocks, r)
    BY <1>7 DEF Enters
  <2> QED BY <1>0, <1>3, <1>4, <1>6, <2>1, <2>2, EntersIs
<1>8. CASE Enters(c, none, o)
  <2> DEFINE e == <<>>
  <2>1. e \in Pairs(Names, DOMAIN World.heap)
    BY DEF Pairs, KeysOnce
  <2>2. /\ heap' = World.heap /\ locals' = e /\ current' = o
        /\ blocks' = Append(blocks, c)
    BY <1>0, <1>5, <1>8 DEF Enters
  <2> HIDE DEF e
  <2> QED BY <1>0, <1>3, <1>4, <1>6, <2>1, <2>2, EntersIs
<1>9. CASE UNCHANGED <<heap, locals, current, blocks>>
  BY <1>6, <1>9, RefusedIs
<1> QED BY <1>6, <1>7, <1>8, <1>9

\* The way back out of a block.
LEMMA BackIs ==
    ASSUME TypedNow, blocks # <<>>, NEW rcode, NEW ok, NEW out \in Texts,
           NEW made, made \subseteq DOMAIN heap, Back(rcode, ok, out, made),
           UNCHANGED <<heap, environ, alive, commands>>, alive
    PROVE  TypedNow' /\ ValueStays
<1> DEFINE b == Innermost
<1>1. World \in Fine /\ World.heap = heap /\ World.locals = locals /\ Len(heap) <= MaxObjects
      /\ Grown(World, World)
  BY WorldNow, GrownSame
<1>2. /\ b \in Kept(heap) /\ Front(blocks) \in Seq(Kept(heap)) /\ Len(Front(blocks)) <= MaxBlocks
  <2> DEFINE K == Kept(heap)
             s == blocks
             n == Len(blocks)
  <2>1. s \in Seq(K) /\ s # <<>> /\ n <= MaxBlocks
    BY DEF TypedNow
  <2> HIDE DEF K
  <2>2. n \in Nat \ {0} /\ s[n] \in K
    BY <2>1
  <2>3. n - 1 \in 0..n
    BY <2>2
  <2>4. Front(s) \in Seq(K) /\ Len(Front(s)) = n - 1
    BY <2>1, <2>3, FirstPart DEF Front
  <2>5. Len(Front(s)) <= MaxBlocks
    <3> HIDE DEF n, s
    <3> QED BY <2>1, <2>2, <2>4, BoundsAssumption
  <2> QED BY <2>2, <2>4, <2>5 DEF Innermost, Last, K
<1> HIDE DEF b
<1>3. IsUser(World, b.current) /\ b.locals \in Pairs(Names, DOMAIN heap)
  <2> DEFINE u == WorldOf(heap, b.locals, b.current)
  <2>1. u \in Fine
    BY <1>2, Zenon DEF Kept
  <2>2. u.heap = heap /\ u.locals = b.locals /\ u.current = b.current
    BY DEF WorldOf
  <2> HIDE DEF u
  <2>3. IsUser(u, b.current) /\ b.locals \in Pairs(Names, DOMAIN heap)
    BY <2>1, <2>2, WorldIs
  <2> QED BY <1>1, <2>2, <2>3 DEF IsUser
<1>4. /\ current' = b.current /\ locals' \in {b.locals, locals} /\ blocks' = Front(blocks)
      /\ written' = written \o out /\ gObjectsInPipe' = gObjectsInPipe \cup made
  BY DEF Back, b
<1>5. locals' \in Pairs(Names, DOMAIN heap)
  BY <1>1, <1>3, <1>4, WorldIs
<1>6. written' \in Texts
  BY <1>4, JoinedIs DEF TypedNow
<1>7. gObjectsInPipe' \subseteq DOMAIN heap /\ commands' \in 0..MaxCommands
  BY <1>4 DEF TypedNow
<1>8. TypedNow'
  BY <1>1, <1>2, <1>3, <1>4, <1>5, <1>6, <1>7, BlockTyped
<1> QED BY <1>1, <1>8, GrownStays

\* The block that runs can be left: what it comes back to is there still.
LEMMA InnermostIs ==
    ASSUME TypedNow, blocks # <<>>
    PROVE  /\ Innermost \in Kept(heap) /\ Innermost \in Blocks
           /\ IsUser(World, Innermost.current)
           /\ WorldOf(heap, locals, Innermost.current) \in Fine
           /\ Innermost.kind = "object -new" => Innermost.object \in DOMAIN heap
<1> DEFINE b == Innermost
<1>1. b \in Kept(heap)
  <2> DEFINE K == Kept(heap)
             s == blocks
  <2>1. s \in Seq(K) /\ s # <<>>
    BY DEF TypedNow
  <2> HIDE DEF K
  <2>2. s[Len(s)] \in K
    BY <2>1
  <2> QED BY <2>2 DEF Innermost, Last, K
<1>2. b \in Blocks /\ (b.kind = "object -new" => b.object \in DOMAIN heap)
  BY <1>1, Zenon DEF Kept
<1>3. World \in Fine /\ World.heap = heap /\ World.locals = locals
  BY WorldNow
<1> HIDE DEF b
<1>4. IsUser(World, b.current)
  <2> DEFINE u == WorldOf(heap, b.locals, b.current)
  <2>1. u \in Fine
    BY <1>1, Zenon DEF Kept
  <2>2. u.heap = heap /\ u.current = b.current
    BY DEF WorldOf
  <2> HIDE DEF u
  <2>3. IsUser(u, b.current)
    BY <2>1, <2>2, WorldIs
  <2> QED BY <1>3, <2>2, <2>3 DEF IsUser
<1>5. WorldOf(heap, locals, b.current) \in Fine
  <2>1. locals \in Pairs(Names, DOMAIN heap)
    BY <1>3, WorldIs
  <2>2. WorldOf(World.heap, locals, b.current) \in Fine
    BY <1>3, <1>4, <2>1, WorldOfIs
  <2> QED BY <1>3, <2>2
<1> QED BY <1>1, <1>2, <1>4, <1>5, Zenon DEF b

\* A world with another current object, for the provers.
LEMMA RecordWorld ==
    ASSUME NEW h, NEW l, NEW c, NEW d
    PROVE  [[heap |-> h, locals |-> l, current |-> c, ok |-> TRUE] EXCEPT !.current = d] =
           WorldOf(h, l, d)
<1> DEFINE H == {h}
           L == {l}
           C == {c, d}
           R == [heap : H, locals : L, current : C, ok : BOOLEAN]
           b == [heap |-> h, locals |-> l, current |-> c, ok |-> TRUE]
           e == WorldOf(h, l, d)
<1>1. b \in R /\ e \in R /\ d \in C
  BY DEF WorldOf
<1>2. b.heap = h /\ b.locals = l /\ b.ok = TRUE
  OBVIOUS
<1>3. e.heap = h /\ e.locals = l /\ e.current = d /\ e.ok = TRUE
  BY DEF WorldOf
<1> HIDE DEF H, L, C, b, e
<1>4. [b EXCEPT !.current = d] = e
  BY <1>1, <1>2, <1>3
<1> QED BY <1>4 DEF b, e

\* The block of an object made for a name: on to the next name.
LEMMA NextObjectIs ==
    ASSUME TypedNow, blocks # <<>>, Innermost.args # <<>>,
           NEW w, w = WithObject([World EXCEPT !.current = Innermost.current],
                                 Innermost.args[1], Innermost.local),
           w.ok, Len(w.heap) <= MaxObjects,
           heap' = w.heap, locals' = w.locals, current' = New(World),
           blocks' = [blocks EXCEPT ![Len(blocks)].args = Tail(@)],
           UNCHANGED <<written, gObjectsInPipe, environ, alive, commands>>
    PROVE  TypedNow' /\ ValueStays
<1> DEFINE b == Innermost
           u == WorldOf(heap, locals, b.current)
           n == Len(blocks)
           K == Kept(heap)
           J == Kept(w.heap)
           x == [b EXCEPT !.args = Tail(@)]
           N == Names
<1>1. [World EXCEPT !.current = b.current] = u
  BY RecordWorld DEF World
<1>2. b \in K /\ b \in Blocks /\ u \in Fine /\ b.args # <<>>
  BY InnermostIs, Zenon
<1>3. b.args \in Seq(N) /\ b.local \in BOOLEAN /\ u.heap = heap /\ u.current = b.current
  BY <1>2, Zenon DEF Blocks, WorldOf
<1>4. b.args[1] \in N /\ Tail(b.args) \in Seq(N)
  <2> DEFINE s == b.args
  <2>1. s \in Seq(N) /\ s # <<>>
    BY <1>2, <1>3
  <2> HIDE DEF s, N
  <2>2. s[1] \in N /\ Tail(s) \in Seq(N)
    BY <2>1
  <2> QED BY <2>2 DEF s
<1> HIDE DEF u
<1>5. /\ w = WithObject(u, b.args[1], b.local) /\ w \in Fine /\ Grown(u, w) /\ IsUser(w, New(u))
      /\ New(u) = New(World)
  <2>1. w = WithObject(u, b.args[1], b.local)
    BY <1>1
  <2>2. w \in Fine /\ Grown(u, w) /\ (w.ok => IsUser(w, New(u)))
    BY <1>2, <1>3, <1>4, <2>1, WithObjectIs
  <2>3. New(u) = New(World)
    BY <1>3, WorldNow DEF New
  <2> QED BY <2>1, <2>2, <2>3
<1>6. K \subseteq J /\ DOMAIN heap \subseteq DOMAIN w.heap
  <2>1. Wider(u, w)
    BY <1>5, GrownWider
  <2> QED BY <1>2, <1>3, <1>5, <2>1, KeptOn, WiderUsers
<1>7. x \in J
  <2>1. x \in Blocks /\ x.kind = b.kind /\ x.current = b.current /\ x.locals = b.locals
        /\ x.object = b.object
    <3> DEFINE D == {"object", "object -new", "run", "class"}
               V == Pairs(Names, Nat)
               A == Seq(N)
               t == Tail(b.args)
    <3>1. b \in [kind : D, args : A, local : BOOLEAN, object : Nat, current : Nat, locals : V]
      BY <1>2, Zenon DEF Blocks
    <3>2. t \in A /\ x = [b EXCEPT !.args = t]
      BY <1>4
    <3>5. Blocks = [kind : D, args : A, local : BOOLEAN, object : Nat, current : Nat, locals : V]
      BY DEF Blocks
    <3> HIDE DEF D, V, A, t, b, x
    <3>3. x \in [kind : D, args : A, local : BOOLEAN, object : Nat, current : Nat, locals : V]
      BY <3>1, <3>2
    <3>4. x.kind = b.kind /\ x.current = b.current /\ x.locals = b.locals /\ x.object = b.object
      BY <3>1, <3>2
    <3> QED BY <3>3, <3>4, <3>5
  <2>2. b \in J
    BY <1>2, <1>6
  <2> HIDE DEF x, b
  <2> QED BY <2>1, <2>2, Zenon DEF Kept
<1>8. blocks' \in Seq(J) /\ Len(blocks') = n /\ n <= MaxBlocks /\ blocks' # <<>>
  <2> DEFINE s == blocks
             r == blocks'
  <2>1. s \in Seq(K) /\ s # <<>> /\ n = Len(s) /\ n <= MaxBlocks
    BY DEF TypedNow
  <2>2. r = [s EXCEPT ![n] = x]
    BY DEF Innermost, Last
  <2> HIDE DEF s, r, n, K, J, x
  <2>3. s \in Seq(J)
    BY <1>6, <2>1
  <2>4. n \in 1..Len(s)
    BY <2>1
  <2>5. r \in Seq(J) /\ Len(r) = Len(s)
    BY <1>7, <2>2, <2>3, <2>4
  <2>6. r # <<>>
    BY <2>1, <2>4, <2>5
  <2> QED BY <2>1, <2>5, <2>6 DEF r
<1>9. TypedNow'
  <2>1. w.locals \in Pairs(Names, DOMAIN w.heap)
    BY <1>5, WorldIs
  <2>2. gObjectsInPipe' \subseteq DOMAIN w.heap /\ written' \in Texts
        /\ commands' \in 0..MaxCommands
    BY <1>6 DEF TypedNow
  <2> QED BY <1>5, <1>8, <2>1, <2>2, BlockTyped
<1> QED BY <1>3, <1>5, <1>9, HeapStays

\* The ends of blocks, good and bad, keep the types and what was there.
LEMMA BlockSteps ==
    ASSUME TypedNow, BlockEnds \/ BlockFails
    PROVE  TypedNow' /\ ValueStays
<1>0. ASSUME blocks # <<>>, alive, NEW ok, Back(mRCode, ok, <<>>, {}),
             UNCHANGED <<heap, environ, alive, commands>>
      PROVE  TypedNow' /\ ValueStays
  <2> DEFINE e == <<>>
             none == {}
  <2>1. e \in Texts /\ none \subseteq DOMAIN heap
    BY NoText
  <2>2. Back(mRCode, ok, e, none)
    BY <1>0
  <2> HIDE DEF e, none
  <2> QED BY <1>0, <2>1, <2>2, BackIs
<1>1. CASE BlockFails
  <2>1. /\ blocks # <<>> /\ alive /\ Back(mRCode, FALSE, <<>>, {})
        /\ UNCHANGED <<heap, environ, alive, commands>>
    BY <1>1 DEF BlockFails
  <2> QED BY <1>0, <2>1
<1>2. CASE BlockEnds
  <2>1. /\ blocks # <<>> /\ alive /\ UNCHANGED <<environ, alive, commands>>
    BY <1>2, Zenon DEF BlockEnds
  <2>2. CASE Back(mRCode, TRUE, <<>>, {}) /\ UNCHANGED heap
    BY <1>0, <2>1, <2>2
  <2>3. CASE Innermost.kind = "object -new"
             /\ Back(mRCode, TRUE, Line(<<Address(Innermost.object)>>), {Innermost.object})
                /\ UNCHANGED heap
    <3>1. Innermost.object \in DOMAIN heap
      BY <2>1, <2>3, InnermostIs, Zenon
    <3>2. Innermost.object \in 1..MaxObjects
      <4> DEFINE n == Len(heap)
                 o == Innermost.object
      <4>1. n \in Nat /\ n <= MaxObjects /\ o \in 1..n
        BY <3>1, WorldNow
      <4> HIDE DEF n, o
      <4>2. o \in 1..MaxObjects
        BY <4>1, BoundsAssumption
      <4> QED BY <4>2 DEF o
    <3>3. Line(<<Address(Innermost.object)>>) \in Texts
      BY <3>2, AddressLine
    <3> QED BY <2>1, <2>3, <3>1, <3>3, BackIs, Zenon
  <2>4. CASE \E next \in {WithObject([World EXCEPT !.current = Innermost.current],
                                     Innermost.args[1], Innermost.local)} :
                /\ Innermost.args # <<>> /\ next.ok /\ Len(next.heap) <= MaxObjects
                /\ heap' = next.heap /\ locals' = next.locals /\ current' = New(World)
                /\ blocks' = [blocks EXCEPT ![Len(blocks)].args = Tail(@)]
                /\ UNCHANGED <<returned, written, gObjectsInPipe>>
    BY <2>1, <2>4, NextObjectIs
  <2>5. CASE Back(mRCode, FALSE, <<>>, {}) /\ UNCHANGED heap
    BY <1>0, <2>1, <2>5
  <2> QED BY <1>2, <2>2, <2>3, <2>4, <2>5, Zenon DEF BlockEnds
<1> QED BY <1>1, <1>2
-----------------------------------------------------------------------------
(* What is printed can be read again.                                      *)

\* One element more of a sequence.
LEMMA OneMore ==
    ASSUME NEW S, NEW s \in Seq(S), NEW k \in 0..(Len(s) - 1)
    PROVE  /\ SubSeq(s, 1, k) \in Seq(S) /\ s[k + 1] \in S
           /\ SubSeq(s, 1, k + 1) = Append(SubSeq(s, 1, k), s[k + 1])
<1> DEFINE m == k + 1
           N == Len(s)
           a == SubSeq(s, 1, k)
<1>1. N \in Nat /\ m \in 1..N /\ m - 1 = k /\ k \in 0..N /\ 1 \in 1..N /\ m \in 1..N
  OBVIOUS
<1>2. s[m] \in S /\ a \in Seq(S)
  BY <1>1, FirstPart
<1> HIDE DEF m, N, a
<1>3. SubSeq(s, 1, m) = SubSeq(s, 1, m - 1) \o <<s[m]>>
  BY <1>1, SubSeqRecursiveSecond DEF N
<1>4. Append(a, s[m]) = a \o <<s[m]>>
  BY <1>2, AppendIsConcat
<1> QED BY <1>1, <1>2, <1>3, <1>4 DEF m, a

\* FlatIs in short: f is what the first sequences end to end are.
FlatBy(f, q, S) ==
    /\ f \in [0..Len(q) -> Seq(S)]
    /\ f[0] = <<>> /\ \A n \in 1..Len(q) : f[n] = f[n - 1] \o q[n]
    /\ FlattenSeq(q) = f[Len(q)]
Begins(a, S) == {s \in Seq(S) : Len(a) <= Len(s) /\ \A k \in 1..Len(a) : s[k] = a[k]}
Stands(f, q, n) ==
    /\ Len(f[n]) = Len(f[n - 1]) + Len(q[n]) /\ Len(f[n - 1]) \in Nat /\ Len(q[n]) \in Nat
    /\ Len(f[n]) <= Len(FlattenSeq(q))
    /\ \A k \in 1..Len(q[n]) : FlattenSeq(q)[Len(f[n - 1]) + k] = q[n][k]

\* Where each sequence is in all of them end to end.
LEMMA FlatAt ==
    ASSUME NEW S, NEW q \in Seq(Seq(S)), NEW f, FlatBy(f, q, S), NEW n \in 1..Len(q)
    PROVE  Stands(f, q, n)
<1> DEFINE N == Len(q)
           T == Seq(S)
           a == f[n]
           b == f[n - 1]
           B == Begins(a, S)
<1>1. q \in Seq(T) /\ N \in Nat /\ n \in 1..N /\ n \in 0..N /\ n - 1 \in 0..N /\ N \in 0..N
  OBVIOUS
<1>2. f \in [0..N -> T] /\ \A m \in 1..N : f[m] = f[m - 1] \o q[m]
  BY DEF FlatBy
<1> HIDE DEF T
<1>21. \A m \in 1..N : q[m] \in T
  BY <1>1
<1>3. a \in T /\ b \in T /\ a = b \o q[n]
  BY <1>1, <1>2
<1> HIDE DEF a, b, N
<1>4. Len(a) = Len(b) + Len(q[n]) /\ Len(b) \in Nat /\ Len(q[n]) \in Nat
      /\ \A k \in 1..Len(q[n]) : a[Len(b) + k] = q[n][k]
  <2> DEFINE c == q[n]
  <2>1. b \in Seq(S) /\ c \in Seq(S) /\ a = b \o c
    BY <1>1, <1>21, <1>3 DEF T
  <2> HIDE DEF c
  <2>2. Len(a) = Len(b) + Len(c) /\ Len(b) \in Nat /\ Len(c) \in Nat
    BY <2>1, ConcatProperties
  <2>3. \A k \in 1..Len(c) : a[Len(b) + k] = c[k]
    BY <2>1
  <2> QED BY <2>2, <2>3 DEF c
<1>5. f[n] \in B
  <2>1. a \in Seq(S) /\ Len(a) <= Len(a)
    BY <1>3 DEF T
  <2> QED BY <2>1 DEF Begins, a
<1>6. ASSUME NEW m \in (n + 1)..N, f[m - 1] \in B PROVE f[m] \in B
  <2> DEFINE x == f[m - 1]
             c == q[m]
  <2>1. m \in 1..N /\ m - 1 \in 0..N
    BY <1>1
  <2>2. x \in T /\ c \in T /\ f[m] = x \o c
    BY <1>1, <1>2, <1>21, <2>1
  <2>3. Len(a) <= Len(x) /\ \A k \in 1..Len(a) : x[k] = a[k]
    BY <1>6 DEF Begins
  <2> HIDE DEF x, c
  <2>4. x \o c \in Seq(S) /\ Len(x \o c) = Len(x) + Len(c) /\ Len(x) \in Nat /\ Len(c) \in Nat
    BY <2>2, ConcatProperties DEF T
  <2>5. \A k \in 1..Len(x) : (x \o c)[k] = x[k]
    BY <2>2 DEF T
  <2>6. Len(a) \in Nat
    BY <1>3 DEF T
  <2> DEFINE y == x \o c
             l == Len(a)
             i == Len(x)
  <2>7. y \in Seq(S) /\ Len(y) >= i /\ i \in Nat /\ l \in Nat /\ l <= i
    BY <2>3, <2>4, <2>6
  <2>8. f[m] = y /\ (\A k \in 1..i : y[k] = x[k]) /\ \A k \in 1..l : x[k] = a[k]
    BY <2>2, <2>3, <2>5
  <2> HIDE DEF y, i
  <2>9. (\A k \in 1..l : y[k] = a[k]) /\ l <= Len(y)
    <3> HIDE DEF l
    <3>1. Len(y) \in Nat
      BY <2>7
    <3> QED BY <2>7, <2>8, <3>1
  <2> QED BY <2>7, <2>8, <2>9 DEF Begins
<1> HIDE DEF B
<1>7. \A m \in n..N : f[m] \in B
  BY <1>1, <1>5, <1>6, Within
<1>8. f[N] \in B /\ FlattenSeq(q) = f[N]
  <2>1. N \in n..N
    BY <1>1
  <2> QED BY <1>7, <2>1 DEF FlatBy, N
<1> DEFINE t == FlattenSeq(q)
<1>9. Len(a) <= Len(t) /\ \A k \in 1..Len(a) : t[k] = a[k]
  BY <1>8 DEF B, Begins
<1> HIDE DEF t
<1>10. \A k \in 1..Len(q[n]) : t[Len(b) + k] = q[n][k]
  <2> DEFINE c == q[n]
             i == Len(b)
             j == Len(c)
  <2> HIDE DEF c
  <2>1. Len(a) = i + j /\ i \in Nat /\ j \in Nat /\ \A k \in 1..j : a[i + k] = c[k]
    BY <1>4 DEF c
  <2> HIDE DEF i, j
  <2>2. \A k \in 1..j : i + k \in 1..Len(a)
    BY <2>1
  <2> QED BY <1>9, <2>1, <2>2 DEF c, i, j
<1> QED BY <1>4, <1>9, <1>10 DEF a, b, t, Stands

ReadBy(f, text) ==
    /\ f \in [0..Len(text) -> ReadSoFar]
    /\ f[0] = [all |-> <<>>, now |-> <<>>]
    /\ \A n \in 1..Len(text) : f[n] = ReadMore(f[n - 1], text[n])
    /\ LinesOf(text) = WholeOf(f[Len(text)])
SoFar(a, b) == [all |-> a, now |-> b]
HasLine(text, p, s) ==
    /\ p + Len(s) + 1 <= Len(text)
    /\ (\A k \in 1..Len(s) : text[p + k] = s[k]) /\ text[p + Len(s) + 1] = End

Whole(f, p, a) == f[p] = SoFar(a, <<>>)

\* One word more, by its parts.
LEMMA ReadOne ==
    ASSUME NEW a \in Seq(ALine), NEW b \in ALine, NEW c \in Words
    PROVE  ReadMore(SoFar(a, b), c) = IF c = End THEN SoFar(Append(a, b), <<>>)
                                      ELSE SoFar(a, Append(b, c))
<1> DEFINE so == SoFar(a, b)
           T == Seq(ALine)
           A == ALine
           m == ReadMore(so, c)
<1>1. so \in ReadSoFar /\ so.all = a /\ so.now = b
  BY DEF SoFar, ReadSoFar
<1>2. CASE c = End
  BY <1>1, <1>2 DEF ReadMore, SoFar
<1>3. CASE c # End
  <2> HIDE DEF so
  <2>1. m \in ReadSoFar /\ m.all = a /\ m.now = Append(b, c)
    BY <1>1, <1>3, ReadMoreIs
  <2> HIDE DEF m
  <2>2. m \in [all : T, now : A]
    BY <2>1 DEF ReadSoFar
  <2> HIDE DEF T, A
  <2>3. m = [all |-> m.all, now |-> m.now]
    BY <2>2
  <2> QED BY <1>3, <2>1, <2>3 DEF SoFar, m, so
<1> QED BY <1>2, <1>3

\* A line of a text, behind what has been read of it.
LEMMA LineRead ==
    ASSUME NEW text \in Texts, NEW f, ReadBy(f, text), NEW a \in Seq(ALine), NEW s \in ALine,
           NEW p \in Nat, HasLine(text, p, s), Whole(f, p, a)
    PROVE  Whole(f, p + Len(s) + 1, Append(a, s))
<1> USE DEF Whole
<1> DEFINE V == Words \ {End}
           W == Words
           L == Len(s)
           N == Len(text)
           b(k) == SubSeq(s, 1, k)
           T == {k \in 0..L : f[p + k] = SoFar(a, b(k))}
<1>1. s \in Seq(V) /\ L \in Nat /\ N \in Nat /\ text \in Seq(W)
  BY DEF ALine, Texts
<1>0. p + L + 1 <= N /\ (\A k \in 1..L : text[p + k] = s[k]) /\ text[p + L + 1] = End
  BY DEF HasLine
<1>2. \A n \in 1..N : f[n] = ReadMore(f[n - 1], text[n])
  BY DEF ReadBy
<1>3. \A k \in 0..L : b(k) \in ALine
  <2> HIDE DEF V
  <2>1. \A k \in 0..L : b(k) \in Seq(V)
    BY <1>1, FirstPart
  <2> QED BY <2>1 DEF ALine, V
<1>4. \A k \in 0..(L - 1) : b(k + 1) = Append(b(k), s[k + 1]) /\ s[k + 1] \in V
  <2> HIDE DEF V
  <2> QED BY <1>1, OneMore
<1>5. b(0) = <<>> /\ b(L) = s
  <2> HIDE DEF V
  <2>1. b(0) \in Seq(V) /\ Len(b(0)) = 0
    BY <1>1, FirstPart
  <2>2. b(L) = s
    BY <1>1, SubSeqFull
  <2> DEFINE z == b(0)
  <2>3. z \in Seq(V) /\ Len(z) = 0
    BY <2>1
  <2> HIDE DEF z
  <2>4. z = <<>>
    BY <2>3
  <2> QED BY <2>2, <2>4 DEF z
<1>6. 0 \in T
  <2> HIDE DEF b
  <2>1. p + 0 = p /\ 0 \in 0..L
    BY <1>1
  <2>2. f[p + 0] = SoFar(a, b(0))
    BY <1>5, <2>1
  <2> QED BY <2>1, <2>2
<1>7. ASSUME NEW k \in 0..(L - 1), k \in T PROVE k + 1 \in T
  <2>1. f[p + k] = SoFar(a, b(k)) /\ k \in 0..L
    BY <1>7
  <2> HIDE DEF T
  <2>2. p + (k + 1) \in 1..N /\ (p + (k + 1)) - 1 = p + k /\ k + 1 \in 1..L /\ k + 1 \in 0..L
    BY <1>0, <1>1
  <2>3. text[p + (k + 1)] = s[k + 1]
    BY <1>0, <2>2
  <2>4. f[p + (k + 1)] = ReadMore(f[p + k], s[k + 1])
    BY <1>2, <2>2, <2>3
  <2>5. s[k + 1] \in Words /\ s[k + 1] # End /\ b(k) \in ALine /\ b(k + 1) = Append(b(k), s[k + 1])
    BY <1>3, <1>4, <2>1
  <2> DEFINE c == s[k + 1]
             d == b(k)
             e == b(k + 1)
  <2>6. /\ c \in Words /\ c # End /\ d \in ALine /\ e = Append(d, c)
        /\ f[p + (k + 1)] = ReadMore(SoFar(a, d), c)
    BY <2>1, <2>4, <2>5
  <2> HIDE DEF c, d, e
  <2>7. f[p + (k + 1)] = SoFar(a, e)
    BY <2>6, ReadOne
  <2> QED BY <2>2, <2>7 DEF T, e
<1> HIDE DEF T, b, L, N
<1>8. 0..L \subseteq T
  BY <1>1, <1>6, <1>7, Upto
<1>9. f[p + L] = SoFar(a, s)
  <2>1. L \in T
    BY <1>1, <1>8
  <2> QED BY <1>5, <2>1 DEF T
<1>10. p + L + 1 \in 1..N /\ (p + L + 1) - 1 = p + L
  BY <1>0, <1>1
<1>11. f[p + L + 1] = ReadMore(SoFar(a, s), End)
  BY <1>0, <1>2, <1>9, <1>10
<1>12. End \in Words
  BY DEF Words
<1> QED BY <1>11, <1>12, ReadOne DEF L

\* The lines of a text made of lines are these.
LEMMA LinesOfText ==
    ASSUME NEW lines \in Seq(ALine)
    PROVE  LinesOf(Text(lines)) = lines
<1> DEFINE A == ALine
           W == Words
           N == Len(lines)
           q == [n \in DOMAIN lines |-> Line(lines[n])]
           t == FlattenSeq(q)
<1>1. N \in Nat /\ DOMAIN lines = 1..N /\ \A n \in 1..N : lines[n] \in A
  <2>1. lines \in Seq(A)
    OBVIOUS
  <2> HIDE DEF A
  <2> QED BY <2>1
<1>2. t \in Texts /\ t = Text(lines) /\ q \in Seq(Seq(W)) /\ Len(q) = N
  BY TextIs DEF Text
<1>3. \A n \in 1..N : q[n] = Line(lines[n])
  BY <1>1
<1> HIDE DEF W, q, A, N, t
<1>4. PICK g \in [0..Len(q) -> Seq(W)] :
          /\ g[0] = <<>> /\ \A n \in 1..Len(q) : g[n] = g[n - 1] \o q[n]
          /\ FlattenSeq(q) = g[Len(q)]
  BY <1>2, FlatIs
<1>5. FlatBy(g, q, W)
  BY <1>4 DEF FlatBy
<1>6. PICK f \in [0..Len(t) -> ReadSoFar] :
          /\ f[0] = [all |-> <<>>, now |-> <<>>]
          /\ \A n \in 1..Len(t) : f[n] = ReadMore(f[n - 1], t[n])
          /\ LinesOf(t) = WholeOf(f[Len(t)])
  BY <1>2, LinesOfIs
<1>7. ReadBy(f, t)
  BY <1>6 DEF ReadBy
<1> DEFINE a(n) == SubSeq(lines, 1, n)
           T == {n \in 0..N : f[Len(g[n])] = SoFar(a(n), <<>>)}
<1>8. \A n \in 0..N : a(n) \in Seq(A) /\ Len(a(n)) = n
  BY FirstPart DEF A, N
<1>9. 0 \in T
  <2> DEFINE z == a(0)
  <2>1. z \in Seq(A) /\ Len(z) = 0
    BY <1>1, <1>8
  <2>2. z = <<>>
    <3> HIDE DEF z
    <3> QED BY <2>1
  <2>3. Len(g[0]) = 0
    BY <1>4
  <2> QED BY <1>1, <1>6, <2>2, <2>3 DEF SoFar
<1>10. ASSUME NEW n \in 0..(N - 1), n \in T PROVE n + 1 \in T
  <2>1. f[Len(g[n])] = SoFar(a(n), <<>>)
    BY <1>10
  <2> HIDE DEF T
  <2> DEFINE m == n + 1
             s == lines[m]
             p == Len(g[n])
             L == Len(s)
             b == a(n)
  <2>2. m \in 1..N /\ m - 1 = n /\ m \in 0..N /\ n \in 0..N
    BY <1>1
  <2>3. s \in ALine /\ q[m] = Line(s) /\ Len(Line(s)) = L + 1 /\ L \in Nat
    <3>1. s \in ALine /\ q[m] = Line(s)
      BY <1>1, <1>3, <2>2 DEF A
    <3>2. Len(Line(s)) = L + 1
      BY <3>1, LineIs
    <3>3. L \in Nat
      BY <3>1 DEF ALine
    <3> QED BY <3>1, <3>2, <3>3
  <2>4. /\ Len(g[m]) = p + Len(q[m]) /\ p \in Nat /\ Len(g[m]) <= Len(t)
        /\ \A k \in 1..Len(q[m]) : t[p + k] = q[m][k]
    <3> HIDE DEF m
    <3>1. m \in 1..Len(q) /\ m - 1 = n /\ q \in Seq(Seq(W))
      BY <1>2, <2>2
    <3>2. /\ Len(g[m]) = Len(g[m - 1]) + Len(q[m]) /\ Len(g[m - 1]) \in Nat /\ Len(g[m]) <= Len(t)
          /\ \A k \in 1..Len(q[m]) : t[Len(g[m - 1]) + k] = q[m][k]
      <4>1. Stands(g, q, m)
        BY <1>5, <3>1, FlatAt
      <4> QED BY <4>1 DEF Stands, t
    <3> QED BY <3>1, <3>2
  <2>5. (\A k \in 1..L : Line(s)[k] = s[k]) /\ Line(s)[L + 1] = End
    <3> DEFINE V == Words \ {End}
               e == End
    <3>1. s \in Seq(W) /\ e \in W
      BY <2>3, LineIs, Zenon DEF W, Texts, Words
    <3> HIDE DEF e, s
    <3>2. (\A k \in 1..L : Append(s, e)[k] = s[k]) /\ Append(s, e)[L + 1] = e
      BY <3>1, AppendProperties
    <3> QED BY <3>2 DEF Line, e
  <2>6. b \in Seq(ALine)
    BY <1>8, <2>2 DEF A
  <2>7. a(m) = Append(b, s)
    <3>1. lines \in Seq(A) /\ n \in 0..(Len(lines) - 1)
      BY DEF A, N
    <3> QED BY <3>1, OneMore
  <2>8. p + L + 1 <= Len(t) /\ (\A k \in 1..L : t[p + k] = s[k]) /\ t[p + L + 1] = End
    <3> DEFINE x == Line(s)
    <3>1. Len(q[m]) = L + 1 /\ q[m] = x
      BY <2>3
    <3> HIDE DEF s, L, p, x
    <3>2. Len(g[m]) = p + (L + 1) /\ L \in Nat /\ p \in Nat /\ L + 1 \in 1..(L + 1)
      BY <2>3, <2>4, <3>1
    <3>3. p + L + 1 <= Len(t) /\ p + (L + 1) = p + L + 1
      BY <2>4, <3>2
    <3>4. \A k \in 1..(L + 1) : t[p + k] = x[k]
      BY <2>4, <3>1
    <3>5. \A k \in 1..L : k \in 1..(L + 1)
      BY <3>2
    <3>6. t[p + (L + 1)] = x[L + 1]
      BY <3>2, <3>4
    <3> QED BY <2>5, <3>3, <3>4, <3>5, <3>6 DEF x
  <2>9. Whole(f, p, b)
    BY <2>1 DEF Whole
  <2>10. Len(g[m]) = p + L + 1
    <3> DEFINE l == Len(q[m])
    <3>1. l = L + 1 /\ Len(g[m]) = p + l
      BY <2>3, <2>4
    <3>2. L \in Nat /\ p \in Nat
      BY <2>3, <2>4
    <3> HIDE DEF L, p, s, l, m
    <3> QED BY <3>1, <3>2
  <2> HIDE DEF m, s, p, b
  <2>13. HasLine(t, p, s)
    BY <2>8 DEF HasLine
  <2>14. s \in ALine /\ p \in Nat /\ t \in Texts
    BY <1>2, <2>3, <2>4
  <2>11. Whole(f, p + L + 1, Append(b, s))
    BY <1>7, <2>6, <2>9, <2>13, <2>14, LineRead, Zenon
  <2>12. f[Len(g[m])] = SoFar(a(m), <<>>)
    BY <2>7, <2>10, <2>11 DEF Whole
  <2> QED BY <2>2, <2>12 DEF T, m
<1> HIDE DEF T
<1>11. 0..N \subseteq T
  BY <1>1, <1>9, <1>10, Upto
<1>12. f[Len(t)] = SoFar(lines, <<>>)
  <2>1. N \in T
    BY <1>1, <1>11
  <2>2. f[Len(g[N])] = SoFar(a(N), <<>>)
    BY <2>1 DEF T
  <2>3. a(N) = lines
    BY SubSeqFull DEF N
  <2> QED BY <1>2, <1>4, <2>2, <2>3 DEF t
<1> QED BY <1>2, <1>6, <1>12 DEF WholeOf, SoFar

\* The lines -index reads one by one are those printed together, from either end.
LEMMA ArrayReads ==
    ASSUME NEW items \in Seq(ALine)
    PROVE  /\ FlattenSeq([n \in DOMAIN items |-> Indexed(items, n - 1 + 0)]) = Text(items)
           /\ FlattenSeq([n \in DOMAIN items |-> Indexed(items, n - 1 + (-Len(items)))])
                  = Text(items)
<1> DEFINE A == ALine
           N == Len(items)
<1>1. N \in Nat /\ DOMAIN items = 1..N /\ (N # 0 => items # <<>>)
  <2>1. items \in Seq(A)
    OBVIOUS
  <2> HIDE DEF A
  <2> QED BY <2>1
<1>2. ASSUME NEW n \in 1..N, NEW k \in Int, k = n - 1 \/ k = n - 1 - N
      PROVE  Indexed(items, k) = Line(items[n])
  <2> DEFINE i == IF k < 0 THEN k + Len(items) ELSE k
  <2>1. Indexed(items, k) = IF items = <<>> THEN <<>>
          ELSE IF i \in 0..(Len(items) - 1) THEN Line(items[i + 1]) ELSE Line(<<>>)
    BY DEF Indexed
  <2>2. i = n - 1 /\ N # 0
    BY <1>1, <1>2
  <2> HIDE DEF i, N
  <2>3. i \in 0..(N - 1) /\ i + 1 = n
    BY <1>1, <2>2
  <2> QED BY <1>1, <2>1, <2>2, <2>3 DEF N
<1> DEFINE M == -N
<1>3. M \in Int /\ \A n \in 1..N : /\ n - 1 + 0 \in Int /\ n - 1 + M \in Int
                                   /\ n - 1 + 0 = n - 1 /\ n - 1 + M = n - 1 - N
  BY <1>1
<1> HIDE DEF M
<1>4. [n \in 1..N |-> Indexed(items, n - 1 + 0)] = [n \in 1..N |-> Line(items[n])]
  <2>1. \A n \in 1..N : Indexed(items, n - 1 + 0) = Line(items[n])
    BY <1>2, <1>3
  <2> QED BY <2>1, Zenon
<1>5. [n \in 1..N |-> Indexed(items, n - 1 + M)] = [n \in 1..N |-> Line(items[n])]
  <2>1. \A n \in 1..N : Indexed(items, n - 1 + M) = Line(items[n])
    BY <1>2, <1>3
  <2> QED BY <2>1, Zenon
<1>6. Text(items) = FlattenSeq([n \in 1..N |-> Line(items[n])])
  BY <1>1 DEF Text
<1> QED BY <1>1, <1>4, <1>5, <1>6 DEF M

\* The text of a hash has its keys and items by turns.
LEMMA TableFlat ==
    ASSUME NEW table \in Pairs(ALine, ALine), NEW lines, lines = FlattenSeq(table)
    PROVE  /\ Len(lines) = 2 * Len(table)
           /\ \A n \in 1..Len(table) : /\ lines[2 * n - 1] = table[n][1]
                                       /\ lines[2 * n] = table[n][2]
<1> DEFINE A == ALine
           N == Len(table)
<1>1. table \in Seq(Seq(A)) /\ N \in Nat /\ lines \in Seq(A)
  BY PairsTextIs
<1>2. \A n \in 1..N : table[n] = <<table[n][1], table[n][2]>>
  BY PairIs
<1> HIDE DEF A
<1>3. PICK f \in [0..Len(table) -> Seq(A)] :
          /\ f[0] = <<>> /\ \A n \in 1..Len(table) : f[n] = f[n - 1] \o table[n]
          /\ FlattenSeq(table) = f[Len(table)]
  BY <1>1, FlatIs
<1>4. FlatBy(f, table, A)
  BY <1>3 DEF FlatBy
<1>5. \A n \in 1..N : Stands(f, table, n)
  BY <1>1, <1>4, FlatAt
<1>6. \A n \in 1..N : Len(table[n]) = 2
  <2> TAKE n \in 1..N
  <2> DEFINE a == table[n][1]
             b == table[n][2]
             c == table[n]
  <2>1. c = <<a, b>>
    BY <1>2
  <2> HIDE DEF a, b, c
  <2>2. Len(c) = 2
    BY <2>1
  <2> QED BY <2>2 DEF c
<1> DEFINE T == {n \in 0..N : Len(f[n]) = 2 * n}
<1>7. 0 \in T
  <2>1. Len(f[0]) = 0
    BY <1>3
  <2> QED BY <1>1, <2>1
<1>8. ASSUME NEW n \in 0..(N - 1), n \in T PROVE n + 1 \in T
  <2> DEFINE m == n + 1
             l == Len(f[m])
             k == Len(f[n])
             c == Len(table[m])
  <2>1. k = 2 * n
    BY <1>8
  <2> HIDE DEF T
  <2>2. m \in 1..N /\ m \in 0..N /\ m - 1 = n /\ n \in Nat
    BY <1>1
  <2>3. l = Len(f[m - 1]) + c /\ c = 2
    <3> HIDE DEF m
    <3> QED BY <1>5, <1>6, <2>2 DEF Stands
  <2>4. l = k + c
    BY <2>2, <2>3
  <2> HIDE DEF l, k, c
  <2>5. l = 2 * m
    BY <2>1, <2>2, <2>3, <2>4
  <2> QED BY <2>2, <2>5 DEF T, l
<1>9. 0..N \subseteq T
  <2> HIDE DEF T
  <2> QED BY <1>1, <1>7, <1>8, Upto
<1>10. \A n \in 0..N : Len(f[n]) = 2 * n
  BY <1>9
<1>11. Len(lines) = 2 * N
  <2>1. N \in 0..N
    BY <1>1
  <2> QED BY <1>3, <1>10, <2>1
<1> HIDE DEF T, N
<1>12. ASSUME NEW n \in 1..N
       PROVE  lines[2 * n - 1] = table[n][1] /\ lines[2 * n] = table[n][2]
  <2> DEFINE i == Len(f[n - 1])
  <2>1. n - 1 \in 0..N
    BY <1>1
  <2>2. i = 2 * (n - 1)
    BY <1>10, <2>1
  <2>3. \A k \in 1..2 : lines[i + k] = table[n][k]
    BY <1>5, <1>6 DEF Stands
  <2> HIDE DEF i
  <2>4. i + 1 = 2 * n - 1 /\ i + 2 = 2 * n
    BY <1>1, <2>2
  <2>5. lines[i + 1] = table[n][1] /\ lines[i + 2] = table[n][2]
    BY <2>3
  <2> QED BY <2>4, <2>5
<1> QED BY <1>11, <1>12 DEF N

\* A new key adds its pair, and nothing else.
LEMMA PutAdds ==
    ASSUME NEW K, NEW S, NEW t \in Pairs(K, S), NEW key \in K, NEW item \in S, ~Has(t, key)
    PROVE  ToSet(Put(t, key, item)) = ToSet(t) \cup {<<key, item>>}
<1> DEFINE P == K \X S
           x == <<key, item>>
           u == <<x>> \o t
<1>1. t \in Seq(P) /\ x \in P
  BY DEF Pairs
<1>2. Put(t, key, item) = u
  BY DEF Put
<1> HIDE DEF P, x
<1>3. /\ u \in Seq(P) /\ Len(u) = Len(t) + 1 /\ u[1] = x
      /\ \A n \in 1..Len(t) : u[n + 1] = t[n]
      /\ \A n \in 2..(Len(t) + 1) : u[n] = t[n - 1]
  BY <1>1, InFront
<1> HIDE DEF u
<1>4. DOMAIN t = 1..Len(t) /\ Len(t) \in Nat /\ DOMAIN u = 1..(Len(t) + 1)
  BY <1>1, <1>3
<1> DEFINE L == Len(t)
<1> HIDE DEF L
<1>5. ToSet(u) = {u[n] : n \in 1..(L + 1)} /\ ToSet(t) = {t[n] : n \in 1..L} /\ L \in Nat
  BY <1>4 DEF ToSet, L
<1>6. ASSUME NEW y \in ToSet(u) PROVE y \in ToSet(t) \cup {x}
  <2>1. PICK n \in 1..(L + 1) : y = u[n]
    BY <1>5
  <2>2. CASE n = 1
    BY <1>3, <2>1, <2>2
  <2>3. CASE n # 1
    <3>1. n \in 2..(L + 1) /\ n - 1 \in 1..L
      BY <1>5, <2>3
    <3> QED BY <1>3, <1>5, <2>1, <3>1 DEF L
  <2> QED BY <2>2, <2>3
<1>7. ASSUME NEW y \in ToSet(t) \cup {x} PROVE y \in ToSet(u)
  <2>1. CASE y = x
    <3>1. 1 \in 1..(L + 1)
      BY <1>5
    <3> QED BY <1>3, <1>5, <2>1, <3>1
  <2>2. CASE y \in ToSet(t)
    <3>1. PICK n \in 1..L : y = t[n]
      BY <1>5, <2>2
    <3>2. n + 1 \in 1..(L + 1)
      BY <1>5
    <3> QED BY <1>3, <1>5, <3>1, <3>2 DEF L
  <2> QED BY <2>1, <2>2
<1>8. ToSet(u) = ToSet(t) \cup {x}
  BY <1>6, <1>7
<1> QED BY <1>2, <1>8 DEF x

\* A hash made of the text of another has the same items.
LEMMA HashReads ==
    ASSUME NEW table \in Pairs(ALine, ALine)
    PROVE  ToSet(PairsPut(<<>>, LinesOf(PairsText(table)))) = ToSet(table)
<1> DEFINE A == ALine
           N == Len(table)
           lines == FlattenSeq(table)
           S == Pairs(ALine, ALine)
           L == Len(lines)
           e == <<>>
<1>1. lines \in Seq(ALine) /\ N \in Nat
  BY PairsTextIs
<1>2. LinesOf(PairsText(table)) = lines
  BY <1>1, LinesOfText DEF PairsText
<1>3. /\ DOMAIN table = 1..N /\ KeysOnce(table)
      /\ \A n \in 1..N : table[n] = <<table[n][1], table[n][2]>> /\ table[n][1] \in A
                         /\ table[n][2] \in A
  BY PairIs
<1>4. L = 2 * N /\ \A n \in 1..N : lines[2 * n - 1] = table[n][1] /\ lines[2 * n] = table[n][2]
  BY TableFlat
<1>5. e \in S /\ ToSet(e) = {}
  <2>1. <<>> \in Seq(ALine \X ALine) /\ KeysOnce(<<>>)
    BY DEF KeysOnce
  <2>2. ToSet(<<>>) = {}
    BY DEF ToSet
  <2> QED BY <2>1, <2>2 DEF Pairs
<1> HIDE DEF lines, L, e, N
<1>6. (L + 1) \div 2 = N
  BY <1>1, <1>4
<1>7. PICK f \in [0..((Len(lines) + 1) \div 2) -> Pairs(ALine, ALine)] :
          /\ f[0] = e
          /\ \A n \in 1..((Len(lines) + 1) \div 2) : f[n] = PairStep(f[n - 1], lines, n)
          /\ PairsPut(e, lines) = f[((Len(lines) + 1) \div 2)]
  BY <1>1, <1>5, PairsPutIs
<1>8. /\ f \in [0..N -> S] /\ f[0] = e /\ PairsPut(e, lines) = f[N]
      /\ \A n \in 1..N : f[n] = PairStep(f[n - 1], lines, n)
  BY <1>6, <1>7 DEF L
<1> DEFINE D(m) == {table[i] : i \in 1..m}
           T == {m \in 0..N : ToSet(f[m]) = D(m)}
<1>9. 0 \in T
  <2>1. D(0) = {}
    OBVIOUS
  <2> QED BY <1>1, <1>5, <1>8, <2>1
<1> HIDE DEF A
<1>10. ASSUME NEW n \in 0..(N - 1), n \in T PROVE n + 1 \in T
  <2> DEFINE m == n + 1
             k == table[m][1]
             x == table[m][2]
             t == f[n]
  <2>1. ToSet(t) = D(n)
    BY <1>10
  <2> HIDE DEF T
  <2>2. m \in 1..N /\ m \in 0..N /\ m - 1 = n /\ n \in 0..N /\ n \in Nat
    BY <1>1
  <2>3. t \in S /\ k \in A /\ x \in A /\ table[m] = <<k, x>>
    BY <1>3, <1>8, <2>2
  <2>4. f[m] = Put(t, k, x)
    <3> HIDE DEF m
    <3>1. 2 * m <= Len(lines)
      BY <1>1, <1>4, <2>2 DEF L
    <3>2. f[m] = PairStep(f[m - 1], lines, m) /\ lines[2 * m - 1] = k /\ lines[2 * m] = x
      BY <1>4, <1>8, <2>2
    <3> HIDE DEF k, x
    <3> QED BY <2>2, <3>1, <3>2 DEF PairStep
  <2>5. ~Has(t, k)
    <3>1. SUFFICES ASSUME Has(t, k) PROVE FALSE
      OBVIOUS
    <3>2. PICK j \in DOMAIN t : t[j][1] = k
      BY <3>1 DEF Has
    <3>3. t[j] \in ToSet(t)
      BY DEF ToSet
    <3>4. PICK i \in 1..n : t[j] = table[i]
      BY <2>1, <3>3
    <3>5. i \in DOMAIN table /\ m \in DOMAIN table /\ i # m
      <4>1. DOMAIN table = 1..N /\ m \in 1..N /\ m - 1 = n
        BY <1>3, <2>2
      <4>2. i \in Nat /\ i <= n /\ 1 <= i
        BY <2>2
      <4> HIDE DEF m
      <4>3. i # m /\ i \in 1..N
        BY <1>1, <4>1, <4>2
      <4> QED BY <4>1, <4>3
    <3>6. table[i][1] = table[m][1]
      BY <3>2, <3>4
    <3> QED BY <1>3, <3>5, <3>6 DEF KeysOnce
  <2>6. ToSet(f[m]) = ToSet(t) \cup {<<k, x>>}
    <3> HIDE DEF k, x, t, m
    <3> QED BY <2>3, <2>4, <2>5, PutAdds DEF A
  <2>7. D(m) = D(n) \cup {table[m]}
    BY <2>2
  <2>8. ToSet(f[m]) = D(m)
    BY <2>1, <2>3, <2>6, <2>7
  <2> QED BY <2>2, <2>8 DEF T
<1> HIDE DEF T
<1>11. 0..N \subseteq T
  BY <1>1, <1>9, <1>10, Upto
<1>12. ToSet(f[N]) = D(N)
  <2>1. N \in T
    BY <1>1, <1>11
  <2> QED BY <2>1 DEF T
<1>13. ToSet(table) = D(N)
  BY <1>3 DEF ToSet
<1> QED BY <1>2, <1>8, <1>12, <1>13 DEF e
-----------------------------------------------------------------------------
(* A name under which nothing is changed is looked up as before.           *)

\* The objects that were there are of the types they were, and so are their parents.
Alike(v, w) ==
    /\ w.current = v.current
    /\ \A o \in DOMAIN v.heap :
          /\ o \in DOMAIN w.heap /\ w.heap[o].type = v.heap[o].type
          /\ v.heap[o].type = "object" => w.heap[o].parent = v.heap[o].parent

\* Where nothing is lost they are.
LEMMA GrownAlike ==
    ASSUME NEW v \in Fine, NEW w \in Fine, Grown(v, w)
    PROVE  Alike(v, w)
<1>1. /\ DOMAIN v.heap = 1..Len(v.heap) /\ DOMAIN w.heap = 1..Len(w.heap)
      /\ Len(v.heap) \in Nat /\ Len(w.heap) \in Nat
  BY WorldIs
<1>2. Len(w.heap) >= Len(v.heap)
  BY DEF Grown
<1>3. \A o \in DOMAIN v.heap : o \in DOMAIN w.heap
  BY <1>1, <1>2
<1> QED BY <1>3 DEF Grown, Alike

\* What an object has under a name: an item of its own, or what its parent has.
LEMMA InheritedAt ==
    ASSUME NEW w \in Fine, NEW name, NEW o, IsUser(w, o)
    PROVE  Inherited(w, name)[o] = IF uobject_item(w, o, name) # NULL \/ o = Root
                                   THEN uobject_item(w, o, name)
                                   ELSE Inherited(w, name)[w.heap[o].parent]
<1> DEFINE N == Len(w.heap)
           from == Inherited(w, name)
           item(n) == uobject_item(w, n, name)
<1>1. o \in 0..N
  <2>1. o \in 1..N /\ N \in Nat
    BY UsersAre, WorldIs
  <2> HIDE DEF N
  <2> QED BY <2>1
<1>2. from = [n \in 0..N |-> IF ~IsUser(w, n) THEN NULL
                             ELSE IF item(n) # NULL \/ n = Root THEN item(n)
                             ELSE from[w.heap[n].parent]]
  BY InheritedIs DEF InheritedFrom
<1> HIDE DEF from, item, N
<1>3. from[o] = IF ~IsUser(w, o) THEN NULL
                ELSE IF item(o) # NULL \/ o = Root THEN item(o) ELSE from[w.heap[o].parent]
  BY <1>1, <1>2, Zenon
<1>4. from[o] = IF item(o) # NULL \/ o = Root THEN item(o) ELSE from[w.heap[o].parent]
  BY <1>3
<1> QED BY <1>4 DEF from, item

\* Every object has under such a name what it had.
LEMMA InheritedSame ==
    ASSUME NEW v \in Fine, NEW w \in Fine, Alike(v, w), NEW J, Same(v, w, J), NEW j \in J,
           NEW o, IsUser(v, o)
    PROVE  Inherited(w, <<j>>)[o] = Inherited(v, <<j>>)[o]
<1> DEFINE name == <<j>>
           f == Inherited(v, name)
           g == Inherited(w, name)
           T == {k \in Nat : IsUser(v, k) /\ g[k] # f[k]}
<1>1. ASSUME NEW k, IsUser(v, k)
      PROVE  /\ k \in Nat /\ IsUser(w, k) /\ w.heap[k].parent = v.heap[k].parent
             /\ IsUser(v, v.heap[k].parent) /\ (k # Root => v.heap[k].parent < k)
             /\ uobject_item(w, k, name) = uobject_item(v, k, name)
  <2>1. k \in Nat /\ IsUser(v, v.heap[k].parent) /\ (k # Root => v.heap[k].parent < k)
    BY <1>1, UsersAre
  <2>2. IsUser(w, k) /\ w.heap[k].parent = v.heap[k].parent
    BY <1>1 DEF Alike, IsUser
  <2>3. uobject_item(w, k, name) = uobject_item(v, k, name)
    BY <1>1 DEF Same
  <2> QED BY <2>1, <2>2, <2>3
<1> HIDE DEF name
<1>2. ASSUME NEW k, IsUser(v, k)
      PROVE  /\ f[k] = IF uobject_item(v, k, name) # NULL \/ k = Root
                       THEN uobject_item(v, k, name) ELSE f[v.heap[k].parent]
             /\ g[k] = IF uobject_item(v, k, name) # NULL \/ k = Root
                       THEN uobject_item(v, k, name) ELSE g[v.heap[k].parent]
  <2>1. IsUser(w, k) /\ w.heap[k].parent = v.heap[k].parent
        /\ uobject_item(w, k, name) = uobject_item(v, k, name)
    BY <1>1, <1>2
  <2> QED BY <1>2, <2>1, InheritedAt
<1> HIDE DEF f, g
<1>3. T = {}
  <2> SUFFICES ASSUME T # {} PROVE FALSE
    OBVIOUS
  <2>1. T \in SUBSET Nat
    OBVIOUS
  <2>2. PICK k \in T : \A n \in T : k <= n
    <3> HIDE DEF T
    <3> QED BY <2>1, LeastIn
  <2>3. IsUser(v, k) /\ g[k] # f[k] /\ k \in Nat
    BY <2>2
  <2> DEFINE p == v.heap[k].parent
  <2>4. g[p] # f[p] /\ k # Root
    BY <1>2, <2>3
  <2>5. IsUser(v, p) /\ p < k /\ p \in Nat
    BY <1>1, <2>3, <2>4
  <2>6. p \in T
    BY <2>4, <2>5
  <2> QED BY <2>2, <2>3, <2>5, <2>6
<1>4. o \in Nat
  BY <1>1
<1> QED BY <1>3, <1>4 DEF f, g, name

\* So access_object finds what it found.
LEMMA AccessSame ==
    ASSUME NEW v \in Fine, NEW w \in Fine, Alike(v, w), NEW J, Same(v, w, J), NEW j \in J
    PROVE  access_object(w, <<j>>) = access_object(v, <<j>>)
<1>1. w.current = v.current /\ IsUser(v, v.current)
  BY WorldIs DEF Alike
<1>2. Inherited(w, <<j>>)[v.current] = Inherited(v, <<j>>)[v.current]
  BY <1>1, InheritedSame
<1>3. /\ Has(w.locals, <<j>>) <=> Has(v.locals, <<j>>)
      /\ Has(v.locals, <<j>>) => At(w.locals, <<j>>) = At(v.locals, <<j>>)
  BY DEF Same
<1> QED BY <1>1, <1>2, <1>3 DEF access_object

\* And the walk along an argument goes where it went.
LEMMA OnwardSame ==
    ASSUME NEW v \in Fine, NEW w \in Fine, Alike(v, w), NEW J, Same(v, w, J), NEW name \in J,
           NEW at \in Spots(v)
    PROVE  Onward(w, at, name) = Onward(v, at, name)
<1> DEFINE item(u) == IF name = "" THEN Root ELSE IF at.first THEN access_object(u, <<name>>)
                      ELSE uobject_item(u, at.object, <<name>>)
<1>1. CASE ~at.ok
  BY <1>1 DEF Onward
<1>2. CASE at.ok
  <2>1. IsUser(v, at.object)
    BY <1>2 DEF Spots
  <2>2. item(w) = item(v)
    <3>1. access_object(w, <<name>>) = access_object(v, <<name>>)
      BY AccessSame
    <3>2. uobject_item(w, at.object, <<name>>) = uobject_item(v, at.object, <<name>>)
      BY <2>1 DEF Same
    <3> QED BY <3>1, <3>2, Zenon
  <2>3. item(v) \in Finds(v)
    <3>1. access_object(v, <<name>>) \in Finds(v)
      BY AccessIs
    <3>2. uobject_item(v, at.object, <<name>>) \in Finds(v)
      BY <2>1, ItemIs
    <3>3. Root \in Finds(v)
      BY WorldIs DEF IsUser, Finds
    <3> QED BY <3>1, <3>2, <3>3, Zenon
  <2>4. \A u : Onward(u, at, name) = IF name = "" /\ ~at.first THEN [at EXCEPT !.ok = FALSE]
                                     ELSE SpotOf(u, item(u))
    BY <1>2 DEF Onward
  <2> DEFINE x == item(v)
  <2>5. x \in Finds(v) /\ item(w) = x
    BY <2>2, <2>3, Zenon
  <2> HIDE DEF x
  <2>6. Typed(w, x) = Typed(v, x)
    BY <2>5, Zenon DEF Alike, Typed, Finds
  <2>7. SpotOf(w, x) = SpotOf(v, x)
    BY <2>6 DEF SpotOf
  <2> HIDE DEF item
  <2> QED BY <2>4, <2>5, <2>7, Zenon DEF x
<1> QED BY <1>1, <1>2

\* With such names in front of the last "::" the prefix is what it was.
LEMMA PrefixSame ==
    ASSUME NEW v \in Fine, NEW w \in Fine, Alike(v, w), NEW J, Same(v, w, J),
           NEW argument \in Names, \A n \in 1..(Len(argument) - 1) : argument[n] \in J
    PROVE  Prefix(w, argument) = Prefix(v, argument)
<1> DEFINE N == Len(argument) - 1
<1>1. PICK f : /\ Prefix(v, argument) = f[N] /\ N \in Nat
               /\ f \in [0..N -> Spots(v)] /\ f[0] = AtFirst(v)
               /\ \A n \in 1..N : f[n] = Onward(v, f[n - 1], argument[n])
  BY PrefixIs
<1>2. PICK g : /\ Prefix(w, argument) = g[N]
               /\ g[0] = AtFirst(w)
               /\ \A n \in 1..N : g[n] = Onward(w, g[n - 1], argument[n])
  BY PrefixIs
<1>3. \A n \in 1..N : argument[n] \in J
  OBVIOUS
<1> HIDE DEF N
<1> DEFINE T == {n \in 0..N : g[n] = f[n]}
<1>4. 0 \in T
  <2>1. g[0] = f[0]
    BY <1>1, <1>2 DEF AtFirst, Alike
  <2> QED BY <1>1, <2>1
<1>5. ASSUME NEW n \in 0..(N - 1), n \in T PROVE n + 1 \in T
  <2> DEFINE m == n + 1
  <2>1. m \in 1..N /\ m \in 0..N /\ m - 1 = n /\ n \in 0..N
    BY <1>1
  <2>2. g[n] = f[n] /\ f[n] \in Spots(v)
    BY <1>1, <1>5, <2>1
  <2> HIDE DEF m
  <2>3. f[m] = Onward(v, f[n], argument[m]) /\ g[m] = Onward(w, f[n], argument[m])
    BY <1>1, <1>2, <2>1, <2>2
  <2>4. argument[m] \in J
    BY <1>3, <2>1
  <2>5. g[m] = f[m]
    BY <2>2, <2>3, <2>4, OnwardSame
  <2> QED BY <2>1, <2>5 DEF m
<1>6. 0..N \subseteq T
  <2> HIDE DEF T
  <2> QED BY <1>1, <1>4, <1>5, Upto
<1>7. N \in T
  BY <1>1, <1>6
<1> QED BY <1>1, <1>2, <1>7

\* An argument is its front names and the last one.
LEMMA PartsAre ==
    ASSUME NEW argument \in Names
    PROVE  /\ \A n \in 1..(Len(argument) - 1) :
                  argument[n] \in ToSet(Front(argument)) /\ argument[n] \in ToSet(argument)
           /\ Last(argument) \in ToSet(argument) /\ Len(argument) \in Nat \ {0}
           /\ Len(argument) = 1 => argument = <<Last(argument)>>
<1>1. argument \in Seq(Words) /\ Len(argument) \in Nat \ {0} /\ DOMAIN argument = 1..Len(argument)
  <2>1. argument \in Seq(Words)
    BY DEF Names
  <2> QED BY <2>1, NameIs
<1> DEFINE N == Len(argument) - 1
           S == Words
<1>2. /\ Front(argument) \in Seq(S) /\ Len(Front(argument)) = N
      /\ \A k \in 1..N : Front(argument)[k] = argument[k]
  <2>1. Front(argument) = SubSeq(argument, 1, N)
    BY DEF Front
  <2>2. N \in 0..Len(argument)
    BY <1>1
  <2> HIDE DEF S, N
  <2> QED BY <1>1, <2>1, <2>2, FirstPart DEF S
<1>3. \A n \in 1..N : n \in 1..Len(argument)
  BY <1>1
<1>4. \A n \in 1..N : argument[n] \in ToSet(argument)
  BY <1>1, <1>3 DEF ToSet
<1>5. \A n \in 1..N : argument[n] \in ToSet(Front(argument))
  <2> DEFINE s == Front(argument)
  <2>1. DOMAIN s = 1..N /\ \A k \in 1..N : s[k] = argument[k]
    <3>1. Len(s) = N /\ s \in Seq(S)
      BY <1>2
    <3> HIDE DEF s, S, N
    <3> QED BY <1>2, <3>1 DEF s
  <2> HIDE DEF s, N
  <2>2. \A n \in 1..N : argument[n] \in ToSet(s)
    BY <2>1 DEF ToSet
  <2> QED BY <2>2 DEF s
<1>6. Last(argument) \in ToSet(argument)
  BY <1>1 DEF Last, ToSet
<1>7. Len(argument) = 1 => argument = <<Last(argument)>>
  BY <1>1 DEF Last
<1> QED BY <1>1, <1>4, <1>5, <1>6, <1>7

\* An argument all of whose names stay the same leads to what it led to.
LEMMA FoundSame ==
    ASSUME NEW v \in Fine, NEW w \in Fine, Alike(v, w), NEW argument \in Names,
           Same(v, w, ToSet(argument))
    PROVE  get_object_from_argument(w, argument) = get_object_from_argument(v, argument)
<1> DEFINE at == Prefix(v, argument)
           name == <<Last(argument)>>
           item(u) == IF at.first THEN access_object(u, name) ELSE uobject_item(u, at.object, name)
           J == ToSet(argument)
<1>1. Prefix(w, argument) = at
  <2>1. \A n \in 1..(Len(argument) - 1) : argument[n] \in J
    BY PartsAre
  <2> HIDE DEF J
  <2> QED BY <2>1, PrefixSame DEF J
<1>2. at.ok => IsUser(v, at.object)
  BY FrontIs DEF Spots
<1>3. at.ok => item(w) = item(v)
  <2>1. Last(argument) \in J
    BY PartsAre
  <2>2. access_object(w, name) = access_object(v, name)
    <3> HIDE DEF J
    <3> QED BY <2>1, AccessSame DEF J
  <2>3. at.ok => uobject_item(w, at.object, name) = uobject_item(v, at.object, name)
    BY <1>2, <2>1 DEF Same
  <2> QED BY <2>2, <2>3
<1>4. \A u : Prefix(u, argument) = at =>
          get_object_from_argument(u, argument) =
              IF at.ok THEN [ok |-> item(u) # NULL, object |-> item(u)]
              ELSE [ok |-> FALSE, object |-> at.object]
  BY DEF get_object_from_argument
<1> QED BY <1>1, <1>3, <1>4

\* Only an argument without "::" is looked up in the local variables.
LEMMA FirstIsShort ==
    ASSUME NEW w \in Fine, NEW argument \in Names
    PROVE  /\ Prefix(w, argument).first <=> Len(argument) = 1
           /\ Len(argument) = 1 => Prefix(w, argument) = AtFirst(w)
<1> DEFINE N == Len(argument) - 1
<1>1. PICK f : /\ Prefix(w, argument) = f[N] /\ N \in Nat
               /\ f \in [0..N -> Spots(w)] /\ f[0] = AtFirst(w)
               /\ \A n \in 1..N : f[n] = Onward(w, f[n - 1], argument[n])
  BY PrefixIs
<1>2. ASSUME NEW at \in Spots(w), NEW name PROVE ~Onward(w, at, name).first
  <2>1. at.first => at.ok
    BY DEF Spots
  <2>2. at \in [ok : BOOLEAN, object : Finds(w), first : BOOLEAN]
    BY DEF Spots
  <2>3. CASE ~at.ok
    BY <2>1, <2>3 DEF Onward
  <2>4. CASE at.ok /\ name = "" /\ ~at.first
    <3>1. Onward(w, at, name) = [at EXCEPT !.ok = FALSE]
      BY <2>4, Zenon DEF Onward
    <3>2. [at EXCEPT !.ok = FALSE].first = at.first
      BY <2>2
    <3> QED BY <2>4, <3>1, <3>2, Zenon
  <2>5. CASE at.ok /\ ~(name = "" /\ ~at.first)
    <3>1. \E x : Onward(w, at, name) = SpotOf(w, x)
      BY <2>5, Zenon DEF Onward
    <3>2. \A x : SpotOf(w, x).first = FALSE
      BY DEF SpotOf
    <3> QED BY <3>1, <3>2
  <2> QED BY <2>3, <2>4, <2>5, Zenon
<1>3. CASE N = 0
  <2>1. Prefix(w, argument) = AtFirst(w) /\ AtFirst(w).first = TRUE
    BY <1>1, <1>3 DEF AtFirst
  <2> QED BY <1>1, <1>3, <2>1, PartsAre
<1>4. CASE N # 0
  <2>1. N \in 1..N /\ N - 1 \in 0..N /\ Len(argument) # 1
    BY <1>1, <1>4, PartsAre
  <2> HIDE DEF N
  <2>2. f[N - 1] \in Spots(w) /\ f[N] = Onward(w, f[N - 1], argument[N])
    BY <1>1, <2>1
  <2> QED BY <1>1, <1>2, <2>1, <2>2
<1> QED BY <1>3, <1>4
-----------------------------------------------------------------------------
(* What is bound is found.                                                 *)

\* No local variable hides what is put into objects, and a local name is one without "::".
ReadableIn(w, argument, local) ==
    /\ ~local /\ Len(argument) = 1 => ~Has(w.locals, argument)
    /\ local => Len(argument) = 1

\* Of a lookup that finds something.
Finding(w, argument, object) ==
    get_object_from_argument(w, argument) = [ok |-> TRUE, object |-> object]

\* An item behind the prefix is what is found.
LEMMA AnswerIs ==
    ASSUME NEW w \in Fine, NEW argument \in Names, Prefix(w, argument).ok, NEW object,
           object # NULL,
           object = IF Prefix(w, argument).first THEN access_object(w, <<Last(argument)>>)
                    ELSE uobject_item(w, Prefix(w, argument).object, <<Last(argument)>>)
    PROVE  Finding(w, argument, object)
<1> DEFINE item == IF Prefix(w, argument).first THEN access_object(w, <<Last(argument)>>)
                   ELSE uobject_item(w, Prefix(w, argument).object, <<Last(argument)>>)
           b == item # NULL
<1>1. get_object_from_argument(w, argument) = [ok |-> item # NULL, object |-> item]
  BY FindIs
<1>2. item = object
  OBVIOUS
<1>3. b = TRUE
  BY <1>2
<1>4. get_object_from_argument(w, argument) = [ok |-> b, object |-> item]
  BY <1>1
<1> HIDE DEF b, item
<1> QED BY <1>2, <1>3, <1>4 DEF Finding

\* What is bound to an argument is found under it, unless the name is one of those in
\* front of its own "::" or a local variable hides it.
LEMMA BoundFound ==
    ASSUME NEW v \in Fine, NEW w \in Fine, NEW argument \in Names, NEW object \in DOMAIN v.heap,
           NEW local \in BOOLEAN, Bound(v, w, argument, object, local),
           ReadableIn(w, argument, local), Last(argument) \notin ToSet(Front(argument))
    PROVE  Finding(w, argument, object)
<1> DEFINE key == <<Last(argument)>>
           at == Prefix(v, argument)
<1>1. object # NULL
  BY HeapIs
<1>2. CASE local
  <2>1. w = PutLocal(v, argument, object) /\ Len(argument) = 1 /\ argument = key
    BY <1>2, PartsAre DEF Bound, ReadableIn
  <2>2. Prefix(w, argument) = AtFirst(w)
    BY <2>1, FirstIsShort
  <2>3. Prefix(w, argument).ok = TRUE /\ Prefix(w, argument).first = TRUE
    BY <2>2 DEF AtFirst
  <2>4. Has(w.locals, argument) /\ At(w.locals, argument) = object
    BY <2>1, PutLocalIs
  <2>5. access_object(w, key) = object
    BY <2>1, <2>4 DEF access_object
  <2> QED BY <1>1, <2>3, <2>5, AnswerIs
<1>3. CASE ~local
  <2>1. at.ok /\ w = PutItem(v, at.object, key, object)
    BY <1>3 DEF Bound
  <2>2. IsUser(v, at.object) /\ (at.first => at.object = v.current) /\ key \in Names
    BY <2>1, FrontIs, NameIs DEF Spots
  <2> DEFINE J == ToSet(Front(argument))
  <2>3. /\ Grown(v, w) /\ w.locals = v.locals /\ w.current = v.current
        /\ uobject_item(w, at.object, key) = object
        /\ \A p, k : IsUser(v, p) /\ k # key => uobject_item(w, p, k) = uobject_item(v, p, k)
    <3> HIDE DEF key, at
    <3> QED BY <2>1, <2>2, PutItemIs
  <2>4. \A j \in J : <<j>> # key
    OBVIOUS
  <2>5. Same(v, w, J)
    BY <2>3, <2>4 DEF Same
  <2>6. Alike(v, w)
    BY <2>3, GrownAlike
  <2>7. Prefix(w, argument) = at
    <3>1. \A n \in 1..(Len(argument) - 1) : argument[n] \in J
      BY PartsAre
    <3> HIDE DEF J
    <3> QED BY <2>5, <2>6, <3>1, PrefixSame
  <2>8. CASE at.first
    <3>1. Len(argument) = 1 /\ argument = key
      BY <2>8, FirstIsShort, PartsAre
    <3>2. ~Has(w.locals, key)
      BY <1>3, <3>1 DEF ReadableIn
    <3>3. access_object(w, key) = Inherited(w, key)[at.object]
      BY <2>2, <2>3, <2>8, <3>2 DEF access_object
    <3>4. IsUser(w, at.object)
      BY <2>2, <2>3, <2>8, WorldIs
    <3>5. Inherited(w, key)[at.object] = object
      BY <1>1, <2>3, <3>4, InheritedAt
    <3> QED BY <1>1, <2>1, <2>7, <2>8, <3>3, <3>5, AnswerIs
  <2>9. CASE ~at.first
    BY <1>1, <2>1, <2>3, <2>7, <2>9, AnswerIs
  <2> QED BY <2>8, <2>9
<1> QED BY <1>2, <1>3

\* Putting into the local table changes nothing under other names.
SameBut(p, q, key) ==
    \A k : k # key => (Has(p, k) <=> Has(q, k)) /\ (Has(q, k) => At(p, k) = At(q, k))

\* The heap stays, and the table but for the name that is put.
LEMMA PutLocalSame ==
    ASSUME NEW w \in Fine, NEW key \in Names, NEW x \in DOMAIN w.heap
    PROVE  /\ PutLocal(w, key, x).heap = w.heap
           /\ SameBut(PutLocal(w, key, x).locals, w.locals, key)
<1> DEFINE u == PutLocal(w, key, x)
<1>1. u.heap = w.heap
  BY PutLocalIs
<1>2. ASSUME NEW k, k # key
      PROVE  (Has(u.locals, k) <=> Has(w.locals, k))
             /\ (Has(w.locals, k) => At(u.locals, k) = At(w.locals, k))
  BY <1>2, PutLocalIs
<1> HIDE DEF u
<1>3. SameBut(u.locals, w.locals, key)
  BY <1>2 DEF SameBut
<1> QED BY <1>1, <1>3 DEF u

\* Binding an argument changes nothing under other names.
LEMMA BindSame ==
    ASSUME NEW v \in Fine, NEW w, NEW argument \in Names, NEW object \in DOMAIN v.heap,
           NEW local \in BOOLEAN, Bound(v, w, argument, object, local),
           NEW J, Last(argument) \notin J
    PROVE  Same(v, w, J) /\ (~local => w.locals = v.locals)
<1> DEFINE key == <<Last(argument)>>
           at == Prefix(v, argument)
<1>1. CASE local
  <2>1. w = PutLocal(v, argument, object)
    BY <1>1 DEF Bound
  <2>2. w.heap = v.heap /\ SameBut(w.locals, v.locals, argument)
    BY <2>1, PutLocalSame
  <2>3. ASSUME NEW j \in J PROVE <<j>> # argument
    <3>1. Last(<<j>>) = j
      BY DEF Last
    <3> QED BY <3>1
  <2>4. \A o, k : uobject_item(w, o, k) = uobject_item(v, o, k)
    BY <2>2 DEF uobject_item
  <2> QED BY <1>1, <2>2, <2>3, <2>4 DEF Same, SameBut
<1>2. CASE ~local
  <2>1. at.ok /\ w = PutItem(v, at.object, key, object)
    BY <1>2 DEF Bound
  <2>2. IsUser(v, at.object) /\ key \in Names
    BY <2>1, FrontIs, NameIs DEF Spots
  <2>3. \A j \in J : <<j>> # key
    OBVIOUS
  <2>4. /\ w.locals = v.locals
        /\ \A p, k : IsUser(v, p) /\ k # key => uobject_item(w, p, k) = uobject_item(v, p, k)
    <3> HIDE DEF key, at
    <3> QED BY <2>1, <2>2, PutItemIs
  <2> QED BY <2>3, <2>4 DEF Same
<1> QED BY <1>1, <1>2

\* What is found under an argument, and what it is if it is not an object to put items into.
SeenAt(w, argument, object, x) ==
    /\ Finding(w, argument, object) /\ object \in DOMAIN w.heap
    /\ w.heap[object].type = x.type /\ (x.type # "object" => w.heap[object] = x)

\* A new object that was bound is found and is what was made.
LEMMA NewFound ==
    ASSUME NEW w \in Fine, NEW argument \in Names, NEW x, Joins(w, x), NEW local \in BOOLEAN,
           NEW b, b = BindNew(w, argument, x, local), b.ok,
           ReadableIn(b, argument, local), Last(argument) \notin ToSet(Front(argument))
    PROVE  SeenAt(b, argument, New(w), x)
<1> DEFINE m == Made(w, x)
           o == New(w)
<1>1. b \in Fine /\ w.ok /\ Bound(m, b, argument, o, local)
  BY BindNewIs
<1>2. m \in Fine /\ o \in DOMAIN m.heap /\ m.heap[o] = x /\ m.ok
  BY <1>1, MadeIs
<1>3. b = Bind(m, argument, o, local)
  BY DEF BindNew
<1> HIDE DEF m, o
<1>4. Grown(m, b)
  BY <1>2, <1>3, BindIs
<1>5. Finding(b, argument, o)
  BY <1>1, <1>2, BoundFound
<1>6. o \in DOMAIN b.heap
  BY <1>1, <1>2, <1>4, GrownAlike DEF Alike
<1>7. b.heap[o].type = x.type /\ (x.type # "object" => b.heap[o] = x)
  BY <1>2, <1>4 DEF Grown
<1> QED BY <1>5, <1>6, <1>7 DEF SeenAt, o

\* And changes nothing under other names.
LEMMA NewSame ==
    ASSUME NEW w \in Fine, NEW argument \in Names, NEW x, Joins(w, x), NEW local \in BOOLEAN,
           NEW b, b = BindNew(w, argument, x, local), b.ok, NEW J, Last(argument) \notin J
    PROVE  Same(w, b, J)
<1> DEFINE m == Made(w, x)
           o == New(w)
<1>1. b \in Fine /\ w.ok /\ Bound(m, b, argument, o, local)
  BY BindNewIs
<1>2. m \in Fine /\ o \in DOMAIN m.heap /\ Grown(w, m) /\ Same(w, m, J)
  BY <1>1, MadeIs
<1> HIDE DEF m, o
<1>3. Same(m, b, J)
  BY <1>1, <1>2, BindSame
<1> QED BY <1>1, <1>2, <1>3, SameOn

\* Without -local no local variable changes.
LEMMA NewLocals ==
    ASSUME NEW w \in Fine, NEW argument \in Names, NEW x, Joins(w, x),
           NEW local \in BOOLEAN, ~local, NEW b, b = BindNew(w, argument, x, local), b.ok
    PROVE  b.locals = w.locals
<1> DEFINE m == Made(w, x)
           o == New(w)
           J == {}
<1>1. Last(argument) \notin J
  OBVIOUS
<1> HIDE DEF J
<1>2. b \in Fine /\ w.ok /\ Bound(m, b, argument, o, local)
  BY BindNewIs
<1>3. m \in Fine /\ o \in DOMAIN m.heap /\ m.locals = w.locals
  BY <1>2, MadeIs
<1> HIDE DEF m, o
<1>4. b.locals = m.locals
  BY <1>1, <1>2, <1>3, BindSame
<1> QED BY <1>3, <1>4

\* What was found is found as long as its names stay the same.
LEMMA KeptFound ==
    ASSUME NEW N \in Nat, NEW M \in 0..N, NEW f, \A k \in 0..N : f[k] \in Fine,
           NEW argument \in Names, NEW object, NEW x, SeenAt(f[M], argument, object, x),
           \A m \in (M + 1)..N :
               Grown(f[m - 1], f[m]) /\ Same(f[m - 1], f[m], ToSet(argument))
    PROVE  SeenAt(f[N], argument, object, x)
<1> DEFINE S == {u \in Fine : SeenAt(u, argument, object, x)}
           J == ToSet(argument)
<1>1. f[M] \in S
  OBVIOUS
<1>2. ASSUME NEW m \in (M + 1)..N, f[m - 1] \in S PROVE f[m] \in S
  <2> DEFINE v == f[m - 1]
             w == f[m]
  <2>1. m \in 0..N
    OBVIOUS
  <2>2. v \in Fine /\ w \in Fine /\ Grown(v, w) /\ Same(v, w, J) /\ SeenAt(v, argument, object, x)
    BY <1>2, <2>1
  <2> HIDE DEF v, w, J
  <2>3. Alike(v, w)
    BY <2>2, GrownAlike
  <2>4. Finding(w, argument, object)
    <3>1. get_object_from_argument(w, argument) = get_object_from_argument(v, argument)
      BY <2>2, <2>3, FoundSame DEF J
    <3> QED BY <2>2, <3>1 DEF SeenAt, Finding
  <2>5. object \in DOMAIN w.heap
    BY <2>2, <2>3 DEF Alike, SeenAt
  <2>6. w.heap[object].type = x.type /\ (x.type # "object" => w.heap[object] = x)
    BY <2>2 DEF Grown, SeenAt
  <2> QED BY <2>2, <2>4, <2>5, <2>6 DEF SeenAt, w
<1> HIDE DEF S
<1>3. \A m \in M..N : f[m] \in S
  BY <1>1, <1>2, Within
<1>4. f[N] \in S
  BY <1>3
<1> QED BY <1>4 DEF S

\* What the worlds of a command that binds several names have in common: none recovers from
\* a failure, and the local table stays as it is.
FineTo(f, N)               == \A k \in 0..N : f[k] \in Fine
FailsOn(f, N)              == \A m \in 1..N : ~f[m - 1].ok => ~f[m].ok
LocalsKept(f, M, N, local) == \A m \in (M + 1)..N : ~local => f[m].locals = f[m - 1].locals

\* A command that has succeeded has not failed before.
LEMMA OkBefore ==
    ASSUME NEW N \in Nat, NEW f, FineTo(f, N), FailsOn(f, N), f[N].ok, NEW M \in 0..N
    PROVE  f[M].ok
<1> USE DEF FineTo, FailsOn
<1> DEFINE S == {u \in Fine : ~u.ok}
<1>1. SUFFICES ASSUME ~f[M].ok PROVE FALSE
  OBVIOUS
<1>2. f[M] \in S
  BY <1>1
<1>3. ASSUME NEW m \in (M + 1)..N, f[m - 1] \in S PROVE f[m] \in S
  <2>1. m \in 1..N /\ m \in 0..N
    OBVIOUS
  <2> QED BY <1>3, <2>1
<1> HIDE DEF S
<1>4. \A m \in M..N : f[m] \in S
  BY <1>2, <1>3, Within
<1>5. f[N] \in S
  BY <1>4
<1> QED BY <1>5 DEF S

\* What can be read at the end could be read before.
LEMMA ReadableBefore ==
    ASSUME NEW N \in Nat, NEW M \in 0..N, NEW f, FineTo(f, N), NEW argument,
           NEW local \in BOOLEAN, LocalsKept(f, M, N, local), ReadableIn(f[N], argument, local)
    PROVE  ReadableIn(f[M], argument, local)
<1> USE DEF FineTo, LocalsKept
<1>1. CASE local
  BY <1>1 DEF ReadableIn
<1>2. CASE ~local
  <2> DEFINE l == f[M].locals
             S == {u \in Fine : u.locals = l}
  <2>1. f[M] \in S
    OBVIOUS
  <2> HIDE DEF l
  <2>2. ASSUME NEW m \in (M + 1)..N, f[m - 1] \in S PROVE f[m] \in S
    <3>1. m \in 0..N
      OBVIOUS
    <3> QED BY <1>2, <2>2, <3>1
  <2> HIDE DEF S
  <2>3. \A m \in M..N : f[m] \in S
    BY <2>1, <2>2, Within
  <2>4. f[N] \in S
    BY <2>3
  <2> QED BY <1>2, <2>4 DEF S, l, ReadableIn
<1> QED BY <1>1, <1>2

\* What is written later takes the place of an argument.
OverIn(args, n) ==
    \/ Last(args[n]) \in ToSet(Front(args[n]))
    \/ \E m \in DOMAIN args : m > n /\ Last(args[m]) \in ToSet(args[n])

\* The worlds "| var" goes through.
VarsBy(f, w, args, lines, local, b) ==
    /\ f \in [0..Len(args) -> Fine] /\ f[0] = w
    /\ \A m \in 1..Len(args) : f[m] = BindNew(f[m - 1], args[m], VarOf(lines, m), local)
    /\ b = f[Len(args)]

\* There are such worlds, one for each name it is given.
LEMMA VarsBoundBy ==
    ASSUME NEW w \in Fine, NEW args \in Seq(Names), NEW lines \in Seq(ALine), NEW local \in BOOLEAN
    PROVE  \E f : VarsBy(f, w, args, lines, local, VarsBound(w, args, lines, local))
<1>1. PICK f \in [0..Len(args) -> Fine] :
          /\ f[0] = w
          /\ \A n \in 1..Len(args) : f[n] = BindNew(f[n - 1], args[n], VarOf(lines, n), local)
          /\ VarsBound(w, args, lines, local) = f[Len(args)]
  BY VarsBoundIs
<1>2. VarsBy(f, w, args, lines, local, VarsBound(w, args, lines, local))
  BY <1>1 DEF VarsBy
<1> QED BY <1>2

\* "| var": every argument that is not hidden leads to a variable with its line.
LEMMA VarsFound ==
    ASSUME NEW w \in Fine, NEW args \in Seq(Names), NEW lines \in Seq(ALine), NEW local \in BOOLEAN,
           NEW b, b = VarsBound(w, args, lines, local), b.ok,
           NEW n \in 1..Len(args), ReadableIn(b, args[n], local), ~OverIn(args, n)
    PROVE  \E object : SeenAt(b, args[n], object, VarOf(lines, n))
<1> DEFINE N == Len(args)
<1>0. PICK f : VarsBy(f, w, args, lines, local, b)
  BY VarsBoundBy
<1>1. /\ f \in [0..N -> Fine] /\ f[0] = w
      /\ \A m \in 1..N : f[m] = BindNew(f[m - 1], args[m], VarOf(lines, m), local)
      /\ b = f[N]
  BY <1>0 DEF VarsBy
<1>2. N \in Nat /\ DOMAIN args = 1..N /\ n \in 1..N /\ \A m \in 1..N : args[m] \in Names
  BY ArgumentIs
<1> HIDE DEF N
<1>3. ASSUME NEW m \in 1..N
      PROVE  /\ f[m - 1] \in Fine /\ f[m] \in Fine /\ Joins(f[m - 1], VarOf(lines, m))
             /\ f[m] = BindNew(f[m - 1], args[m], VarOf(lines, m), local)
             /\ Grown(f[m - 1], f[m]) /\ (~f[m - 1].ok => ~f[m].ok)
  <2>1. m - 1 \in 0..N /\ m \in 0..N /\ m \in Nat \ {0}
    BY <1>2
  <2>2. LineOr(lines, m) \in ALine
    BY <2>1, LineAt DEF LineOr
  <2>3. Joins(f[m - 1], VarOf(lines, m))
    BY <2>2, ValueJoins DEF VarOf
  <2>4. f[m - 1] \in Fine /\ f[m] = BindNew(f[m - 1], args[m], VarOf(lines, m), local)
    BY <1>1, <2>1
  <2>5. args[m] \in Names
    BY <1>2
  <2> DEFINE v == f[m - 1]
             a == args[m]
             x == VarOf(lines, m)
  <2> HIDE DEF v, a, x
  <2>6. v \in Fine /\ a \in Names /\ Joins(v, x)
    BY <2>3, <2>4, <2>5 DEF v, a, x
  <2>7. /\ Grown(v, BindNew(v, a, x, local)) /\ BindNew(v, a, x, local) \in Fine
        /\ ~v.ok => BindNew(v, a, x, local) = v
    BY <2>6, BindNewIs
  <2> QED BY <2>3, <2>4, <2>7 DEF v, a, x
<1>4. \A M \in 0..N : f[M].ok
  <2>1. FineTo(f, N) /\ f[N].ok
    BY <1>1 DEF FineTo
  <2>2. FailsOn(f, N)
    BY <1>3 DEF FailsOn
  <2> QED BY <1>2, <2>1, <2>2, OkBefore
<1>5. ReadableIn(f[n], args[n], local)
  <2>1. ASSUME NEW m \in (n + 1)..N, ~local PROVE f[m].locals = f[m - 1].locals
    <3>1. m \in 1..N /\ m \in 0..N
      BY <1>2
    <3>2. /\ f[m - 1] \in Fine /\ f[m] \in Fine /\ Joins(f[m - 1], VarOf(lines, m))
          /\ f[m] = BindNew(f[m - 1], args[m], VarOf(lines, m), local) /\ f[m].ok
          /\ args[m] \in Names
      BY <1>2, <1>3, <1>4, <3>1
    <3> DEFINE v == f[m - 1]
               u == f[m]
               x == VarOf(lines, m)
    <3> HIDE DEF v, u, x
    <3>3. u.locals = v.locals
      BY <2>1, <3>2, NewLocals DEF v, u, x
    <3> QED BY <3>3 DEF v, u
  <2>2. n \in 0..N /\ FineTo(f, N)
    BY <1>1, <1>2 DEF FineTo
  <2> DEFINE c == args[n]
  <2> HIDE DEF c
  <2>3. ReadableIn(f[N], c, local)
    BY <1>1 DEF c
  <2>5. LocalsKept(f, n, N, local)
    BY <2>1 DEF LocalsKept
  <2>4. ReadableIn(f[n], c, local)
    BY <1>2, <2>2, <2>3, <2>5, ReadableBefore, Zenon
  <2> QED BY <2>4 DEF c
<1> DEFINE a == args[n]
           x == VarOf(lines, n)
           v == f[n - 1]
           o == New(v)
<1>6. SeenAt(f[n], a, o, x)
  <2> DEFINE u == f[n]
  <2>1. /\ v \in Fine /\ a \in Names /\ Joins(v, x) /\ u = BindNew(v, a, x, local) /\ u.ok
        /\ ReadableIn(u, a, local) /\ Last(a) \notin ToSet(Front(a))
    <3>1. n \in 0..N
      BY <1>2
    <3> QED BY <1>2, <1>3, <1>4, <1>5, <3>1 DEF OverIn
  <2> HIDE DEF u, v, a, x
  <2> QED BY <2>1, NewFound DEF u
<1>7. ASSUME NEW m \in (n + 1)..N
      PROVE  Grown(f[m - 1], f[m]) /\ Same(f[m - 1], f[m], ToSet(a))
  <2>1. m \in 1..N /\ m > n /\ m \in 0..N
    BY <1>2
  <2>2. Last(args[m]) \notin ToSet(a)
    BY <1>2, <2>1 DEF OverIn
  <2> DEFINE J == ToSet(a)
             u == f[m]
             t == f[m - 1]
             c == args[m]
             y == VarOf(lines, m)
  <2>3. /\ t \in Fine /\ c \in Names /\ Joins(t, y) /\ u = BindNew(t, c, y, local) /\ u.ok
        /\ Last(c) \notin J /\ Grown(t, u)
    BY <1>2, <1>3, <1>4, <2>1, <2>2
  <2> HIDE DEF J, u, t, c, y
  <2>4. Same(t, u, J)
    BY <2>3, NewSame
  <2> QED BY <2>3, <2>4 DEF J, u, t
<1>8. n \in 0..N /\ a \in Names /\ \A k \in 0..N : f[k] \in Fine
  BY <1>1, <1>2
<1> HIDE DEF a, o, x
<1>9. SeenAt(f[N], a, o, x)
  BY <1>2, <1>6, <1>7, <1>8, KeptFound
<1> QED BY <1>1, <1>9 DEF a, x

\* "| ref": every argument that is not hidden leads to the object of its line.
LEMMA RefsFound ==
    ASSUME NEW w \in Piping, NEW args \in Seq(Names), NEW lines \in Seq(ALine),
           NEW local \in BOOLEAN, NEW b, b = RefsBound(w, args, lines, local), b.ok,
           NEW n \in 1..Shorter(lines, args), ReadableIn(b, args[n], local), ~OverIn(args, n)
    PROVE  Finding(b, args[n], AddressOf(lines[n]))
<1> DEFINE N == Shorter(lines, args)
<1>1. PICK f \in [0..N -> Piping] :
          /\ f[0] = w
          /\ \A m \in 1..N : f[m] = RefStep(f[m - 1], args, lines, local, m)
          /\ b = f[N]
  BY RefsBoundIs
<1>2. /\ Len(args) \in Nat /\ DOMAIN args = 1..Len(args) /\ N \in 0..Len(args) /\ n \in 1..N
      /\ \A m \in 1..N : args[m] \in Names
  <2>1. Len(args) \in Nat /\ DOMAIN args = 1..Len(args)
        /\ \A m \in 1..Len(args) : args[m] \in Names
    BY ArgumentIs
  <2>2. Len(lines) \in Nat
    <3> DEFINE A == ALine
    <3>1. lines \in Seq(A)
      OBVIOUS
    <3> HIDE DEF A
    <3> QED BY <3>1
  <2>3. N \in 0..Len(args)
    BY <2>1, <2>2 DEF Shorter
  <2> HIDE DEF N
  <2> QED BY <2>1, <2>3 DEF N
<1> HIDE DEF N
<1>3. ASSUME NEW m \in 1..N
      PROVE  /\ f[m - 1] \in Fine /\ f[m] \in Fine /\ Grown(f[m - 1], f[m])
             /\ (~f[m - 1].ok => ~f[m].ok)
             /\ f[m].ok => /\ AddressOf(lines[m]) \in DOMAIN f[m - 1].heap
                           /\ Bound(f[m - 1], f[m], args[m], AddressOf(lines[m]), local)
  <2> DEFINE v == f[m - 1]
             u == f[m]
  <2>1. m - 1 \in 0..N /\ m \in 0..N
    BY <1>2
  <2>2. v \in Piping /\ u = RefStep(v, args, lines, local, m) /\ args[m] \in Names
    BY <1>1, <1>2, <2>1
  <2> HIDE DEF v, u
  <2>3. /\ u \in Piping /\ Grown(v, u)
        /\ u.ok => /\ AddressOf(lines[m]) # NULL
                   /\ Bound(v, u, args[m], AddressOf(lines[m]), local)
    BY <2>2, RefStepIs
  <2>4. u.ok => AddressOf(lines[m]) \in DOMAIN v.heap
    BY <2>2, <2>3, AddressIs DEF Piping
  <2>5. ~v.ok => ~u.ok
    BY <2>3 DEF Bound
  <2> QED BY <2>2, <2>3, <2>4, <2>5 DEF v, u, Piping
<1>4. (\A k \in 0..N : f[k] \in Fine) /\ N \in Nat /\ n \in 0..N
  BY <1>1, <1>2 DEF Piping
<1>5. \A M \in 0..N : f[M].ok
  <2>1. FineTo(f, N) /\ f[N].ok
    BY <1>1, <1>4 DEF FineTo
  <2>2. FailsOn(f, N)
    BY <1>3 DEF FailsOn
  <2> QED BY <1>4, <2>1, <2>2, OkBefore
<1>6. ASSUME NEW m \in 1..N, NEW J, Last(args[m]) \notin J
      PROVE  Same(f[m - 1], f[m], J) /\ (~local => f[m].locals = f[m - 1].locals)
  <2> DEFINE v == f[m - 1]
             u == f[m]
             a == args[m]
             o == AddressOf(lines[m])
  <2>1. m \in 0..N
    BY <1>4
  <2>2. v \in Fine /\ a \in Names /\ o \in DOMAIN v.heap /\ Bound(v, u, a, o, local)
        /\ Last(a) \notin J
    BY <1>2, <1>3, <1>5, <1>6, <2>1
  <2> HIDE DEF v, u, a, o
  <2>3. Same(v, u, J) /\ (~local => u.locals = v.locals)
    BY <2>2, BindSame
  <2> QED BY <2>3 DEF v, u
<1>7. ReadableIn(f[n], args[n], local)
  <2>1. ASSUME NEW m \in (n + 1)..N PROVE ~local => f[m].locals = f[m - 1].locals
    <3> DEFINE J == {}
    <3>1. m \in 1..N /\ Last(args[m]) \notin J
      BY <1>4
    <3> HIDE DEF J
    <3> QED BY <1>6, <3>1
  <2> DEFINE c == args[n]
  <2> HIDE DEF c
  <2>2. ReadableIn(f[N], c, local)
    BY <1>1 DEF c, N
  <2>4. FineTo(f, N) /\ LocalsKept(f, n, N, local)
    BY <1>4, <2>1 DEF FineTo, LocalsKept
  <2>3. ReadableIn(f[n], c, local)
    BY <1>4, <2>2, <2>4, ReadableBefore, Zenon
  <2> QED BY <2>3 DEF c
<1> DEFINE a == args[n]
           o == AddressOf(lines[n])
           x == f[n].heap[o]
<1>8. a \in Names /\ SeenAt(f[n], a, o, x)
  <2> DEFINE u == f[n]
             v == f[n - 1]
  <2>1. /\ v \in Fine /\ u \in Fine /\ a \in Names /\ o \in DOMAIN v.heap /\ Grown(v, u)
        /\ Bound(v, u, a, o, local) /\ ReadableIn(u, a, local) /\ Last(a) \notin ToSet(Front(a))
    BY <1>2, <1>3, <1>4, <1>5, <1>7 DEF OverIn
  <2> HIDE DEF u, v, a, o
  <2>2. Finding(u, a, o)
    BY <2>1, BoundFound
  <2>3. o \in DOMAIN u.heap
    BY <2>1, GrownAlike DEF Alike
  <2> QED BY <2>1, <2>2, <2>3 DEF SeenAt, u
<1>9. ASSUME NEW m \in (n + 1)..N
      PROVE  Grown(f[m - 1], f[m]) /\ Same(f[m - 1], f[m], ToSet(a))
  <2>1. m \in 1..N /\ m > n /\ m \in DOMAIN args
    BY <1>2, <1>4
  <2>2. Last(args[m]) \notin ToSet(a)
    BY <2>1 DEF OverIn
  <2> HIDE DEF a
  <2> QED BY <1>3, <1>6, <2>1, <2>2
<1> HIDE DEF a, o, x
<1>10. SeenAt(f[N], a, o, x)
  BY <1>4, <1>8, <1>9, KeptFound
<1> QED BY <1>1, <1>10 DEF a, o, SeenAt

\* "| export": every variable that is not set again has its line; setenv takes no empty name.
LEMMA SetFound ==
    ASSUME NEW env \in Environs, NEW args \in Seq(Names), NEW lines \in Seq(ALine),
           NEW b, b = SetAll(env, args, lines), NEW n \in 1..Len(args),
           \A m \in 1..Len(args) : m > n => args[m] # args[n]
    PROVE  /\ args[n] \in DOMAIN b <=> Exported(args[n])
           /\ Exported(args[n]) => b[args[n]] = LineOr(lines, n)
<1> DEFINE N == Len(args)
<1>1. PICK f \in [0..N -> Environs] :
          /\ f[0] = env
          /\ \A m \in 1..N : f[m] = SetStep(f[m - 1], args, lines, m)
          /\ b = f[N]
  BY SetAllIs
<1>2. N \in Nat /\ n \in 1..N /\ \A m \in 1..N : args[m] \in Names
  BY ArgumentIs
<1> HIDE DEF N
<1> DEFINE a == args[n]
           l == LineOr(lines, n)
<1>3. ASSUME ~Exported(a) PROVE a \notin DOMAIN b
  <2>1. b \in Environs
    BY <1>1, <1>2
  <2>2. a = <<"">>
    BY <1>3, Zenon DEF Exported
  <2> QED BY <2>1, <2>2, EnvironIs, Zenon
<1>4. ASSUME Exported(a) PROVE a \in DOMAIN b /\ b[a] = l
  <2> DEFINE S == {e \in Environs : a \in DOMAIN e /\ e[a] = l}
  <2>1. f[n] \in S
    <3>1. n \in 0..N /\ n - 1 \in 0..N
      BY <1>2
    <3>2. f[n] = SetStep(f[n - 1], args, lines, n) /\ f[n] \in Environs
      BY <1>1, <1>2, <3>1
    <3> DEFINE e == f[n - 1]
    <3>3. f[n] = [c \in DOMAIN e \cup {a} |-> IF c # a THEN e[c] ELSE l]
      BY <1>4, <3>2 DEF SetStep
    <3> HIDE DEF e, a, l
    <3>4. a \in DOMAIN f[n] /\ f[n][a] = l
      BY <3>3
    <3> QED BY <3>2, <3>4
  <2>2. ASSUME NEW m \in (n + 1)..N, f[m - 1] \in S PROVE f[m] \in S
    <3>1. m \in 1..N /\ m \in 0..N /\ m > n
      BY <1>2
    <3>2. f[m] = SetStep(f[m - 1], args, lines, m) /\ f[m] \in Environs
      BY <1>1, <3>1
    <3> DEFINE e == f[m - 1]
               d == args[m]
               k == LineOr(lines, m)
    <3>3. d # a /\ e \in S /\ (f[m] = IF Exported(d)
              THEN [c \in DOMAIN e \cup {d} |-> IF c # d THEN e[c] ELSE k] ELSE e)
      BY <2>2, <3>1, <3>2 DEF SetStep, N
    <3> HIDE DEF e, d, k, a, l
    <3>4. a \in DOMAIN f[m] /\ f[m][a] = l
      BY <3>3
    <3> QED BY <3>2, <3>4
  <2> HIDE DEF S
  <2>3. n \in 0..N
    BY <1>2
  <2>4. \A m \in n..N : f[m] \in S
    BY <1>2, <2>1, <2>2, <2>3, Within
  <2>5. f[N] \in S
    BY <1>2, <2>4
  <2> QED BY <1>1, <2>5 DEF S
<1> QED BY <1>3, <1>4
-----------------------------------------------------------------------------
(* What -shift passes on.                                                  *)

\* Three sequences end to end.
Threefold(T) == \A s, t, u \in T : (s \o t) \o u = s \o (t \o u)

\* It does not matter which two are joined first.
LEMMA ConcatThree == ASSUME NEW S PROVE Threefold(Seq(S))
<1>1. ASSUME NEW s \in Seq(S), NEW t \in Seq(S), NEW u \in Seq(S)
      PROVE  (s \o t) \o u = s \o (t \o u)
  BY ConcatAssociative
<1> QED BY <1>1 DEF Threefold

\* One sequence more in front of others.
HasFront(r, x, q) == Len(r) = Len(q) + 1 /\ r[1] = x /\ \A n \in 1..Len(q) : r[n + 1] = q[n]

\* Flattened, it comes in front of the others flattened.
LEMMA FlatCons ==
    ASSUME NEW S, NEW x \in Seq(S), NEW q \in Seq(Seq(S)), NEW r \in Seq(Seq(S)),
           HasFront(r, x, q)
    PROVE  FlattenSeq(r) = x \o FlattenSeq(q)
<1> USE DEF HasFront
<1> DEFINE T == Seq(S)
           N == Len(q)
           M == N + 1
<1>1. q \in Seq(T) /\ r \in Seq(T) /\ N \in Nat /\ M \in Nat /\ Len(r) = M
  <2>1. q \in Seq(T) /\ r \in Seq(T)
    OBVIOUS
  <2> HIDE DEF T
  <2> QED BY <2>1
<1>2. PICK f \in [0..N -> T] :
          /\ f[0] = <<>> /\ \A n \in 1..N : f[n] = f[n - 1] \o q[n]
          /\ FlattenSeq(q) = f[N]
  BY FlatIs
<1>3. PICK g \in [0..M -> T] :
          /\ g[0] = <<>> /\ \A n \in 1..M : g[n] = g[n - 1] \o r[n]
          /\ FlattenSeq(r) = g[M]
  <2>1. PICK g \in [0..Len(r) -> T] :
            /\ g[0] = <<>> /\ \A n \in 1..Len(r) : g[n] = g[n - 1] \o r[n]
            /\ FlattenSeq(r) = g[Len(r)]
    BY FlatIs
  <2> HIDE DEF T, M
  <2> QED BY <1>1, <2>1
<1>4. \A n \in 1..N : q[n] \in T
  <2> HIDE DEF T
  <2> QED BY <1>1
<1>5. \A n \in 1..N : r[n + 1] = q[n]
  OBVIOUS
<1> HIDE DEF T, N
<1> DEFINE U == {n \in 0..N : g[n + 1] = x \o f[n]}
<1>6. 0 \in U
  <2>1. g[1] = <<>> \o x
    <3>1. 1 \in 1..M /\ 1 - 1 = 0
      BY <1>1
    <3> HIDE DEF M
    <3>2. g[1] = g[1 - 1] \o r[1]
      BY <1>3, <3>1
    <3> QED BY <1>3, <3>1, <3>2
  <2>2. <<>> \o x = x /\ x \o <<>> = x
    BY ConcatEmptySeq
  <2>3. g[0 + 1] = g[1]
    OBVIOUS
  <2>4. g[0 + 1] = x \o f[0]
    BY <1>2, <2>1, <2>2, <2>3
  <2> QED BY <1>1, <2>4
<1>7. ASSUME NEW n \in 0..(N - 1), n \in U PROVE n + 1 \in U
  <2> DEFINE m == n + 1
             k == m + 1
  <2>1. m \in 1..N /\ m \in 0..N /\ m - 1 = n /\ n \in 0..N /\ k \in 1..M /\ k - 1 = m
    BY <1>1
  <2>2. g[m] = x \o f[n]
    BY <1>7
  <2>3. r[k] = q[m]
    BY <1>5, <2>1
  <2> HIDE DEF k, M
  <2>4. g[k] = g[m] \o q[m]
    <3>1. g[k] = g[k - 1] \o r[k]
      BY <1>3, <2>1
    <3> HIDE DEF m
    <3> QED BY <2>1, <2>3, <3>1
  <2> HIDE DEF m
  <2>5. f[m] = f[n] \o q[m] /\ f[n] \in T /\ q[m] \in T
    <3>1. f[m] = f[m - 1] \o q[m]
      BY <1>2, <2>1
    <3> QED BY <1>2, <1>4, <2>1, <3>1
  <2>6. (x \o f[n]) \o q[m] = x \o (f[n] \o q[m])
    <3>1. Threefold(T) /\ x \in T
      BY ConcatThree DEF T
    <3> QED BY <2>5, <3>1, Zenon DEF Threefold
  <2>7. g[k] = x \o f[m]
    BY <2>2, <2>4, <2>5, <2>6
  <2> QED BY <2>1, <2>7 DEF k, m
<1>8. 0..N \subseteq U
  <2> HIDE DEF U
  <2> QED BY <1>1, <1>6, <1>7, Upto
<1>9. g[M] = x \o f[N]
  BY <1>1, <1>8
<1> QED BY <1>2, <1>3, <1>9

\* A line in front of the text of others.
LEMMA TextCons ==
    ASSUME NEW l \in ALine, NEW lines \in Seq(ALine)
    PROVE  Line(l) \o Text(lines) = Text(<<l>> \o lines) /\ <<l>> \o lines \in Seq(ALine)
<1> DEFINE more == <<l>> \o lines
           A == ALine
           q == [n \in DOMAIN lines |-> Line(lines[n])]
           r == [n \in DOMAIN more |-> Line(more[n])]
           S == Words
           x == Line(l)
<1>1. /\ more \in Seq(A) /\ Len(more) = Len(lines) + 1 /\ more[1] = l
      /\ \A n \in 1..Len(lines) : more[n + 1] = lines[n]
  <2>1. lines \in Seq(A) /\ l \in A
    OBVIOUS
  <2> HIDE DEF A
  <2> QED BY <2>1, InFront
<1>2. /\ Len(lines) \in Nat /\ DOMAIN lines = 1..Len(lines)
      /\ Len(more) \in Nat /\ DOMAIN more = 1..Len(more)
  <2>1. lines \in Seq(A)
    OBVIOUS
  <2> HIDE DEF A, more
  <2> QED BY <1>1, <2>1
<1>3. x \in Seq(S)
  BY LineIs DEF Texts
<1>4. /\ q \in Seq(Seq(S)) /\ Len(q) = Len(lines) /\ Text(lines) = FlattenSeq(q)
  BY TextIs DEF Text
<1> HIDE DEF more
<1>5. /\ r \in Seq(Seq(S)) /\ Len(r) = Len(more) /\ Text(more) = FlattenSeq(r)
  BY <1>1, TextIs DEF Text, A
<1>6. r[1] = x /\ \A n \in 1..Len(lines) : r[n + 1] = q[n]
  <2>1. 1 \in DOMAIN more
    BY <1>1, <1>2
  <2>2. r[1] = x
    BY <1>1, <2>1
  <2>3. ASSUME NEW n \in 1..Len(lines) PROVE r[n + 1] = q[n]
    <3>1. n + 1 \in DOMAIN more /\ more[n + 1] = lines[n] /\ n \in DOMAIN lines
      BY <1>1, <1>2
    <3> QED BY <3>1, Zenon
  <2> QED BY <2>2, <2>3
<1> HIDE DEF q, r, S, x
<1>7. FlattenSeq(r) = x \o FlattenSeq(q)
  <2>1. HasFront(r, x, q)
    BY <1>1, <1>4, <1>5, <1>6 DEF HasFront
  <2> QED BY <1>3, <1>4, <1>5, <2>1, FlatCons, Zenon
<1> QED BY <1>1, <1>4, <1>5, <1>7 DEF more, x, A

\* What "| var" and "| export" pass on with -shift is the lines they did not use.
LEMMA PassedRead ==
    ASSUME NEW lines \in Seq(ALine), NEW args \in Seq(Names), NEW shift, shift
    PROVE  LinesOf(Passed(shift, lines, Len(args) + 1)) = From(lines, Shorter(lines, args) + 1)
<1> DEFINE A == ALine
           N == Len(args)
           L == Len(lines)
           m == N + 1
           k == Shorter(lines, args) + 1
<1>1. lines \in Seq(A) /\ N \in Nat
  BY ArgumentIs
<1>2. L \in Nat
  <2> HIDE DEF A
  <2> QED BY <1>1
<1>3. m \in Nat \ {0} /\ k \in Nat \ {0} /\ (m = k \/ (m > L /\ k > L))
  BY <1>1, <1>2 DEF Shorter
<1> HIDE DEF m, k
<1>4. /\ From(lines, m) \in Seq(A)
      /\ m > L => Len(From(lines, m)) = 0
      /\ k > L => From(lines, k) \in Seq(A) /\ Len(From(lines, k)) = 0
  <2> HIDE DEF A
  <2> QED BY <1>1, <1>2, <1>3, FromIs
<1>5. From(lines, m) = From(lines, k)
  <2>1. CASE m = k
    BY <2>1
  <2>2. CASE m > L /\ k > L
    <3> HIDE DEF A
    <3>1. \A s : s \in Seq(A) /\ Len(s) = 0 => s = <<>>
      OBVIOUS
    <3> QED BY <1>4, <2>2, <3>1
  <2> QED BY <1>3, <2>1, <2>2
<1>6. LinesOf(Text(From(lines, m))) = From(lines, m)
  BY <1>4, LinesOfText DEF A
<1> QED BY <1>5, <1>6 DEF Passed, m, k

\* What "| var -new" passes on with -shift is all but the line of the variable.
LEMMA NewPassedRead ==
    ASSUME NEW lines \in Seq(ALine), lines # <<>>, NEW l \in ALine,
           NEW out, out = Line(l) \o Text(From(lines, 2))
    PROVE  <<lines[1]>> \o Tail(LinesOf(out)) = lines
<1> DEFINE A == ALine
           t == From(lines, 2)
<1>1. lines \in Seq(A) /\ l \in A
  OBVIOUS
<1>2. t = Tail(lines) /\ t \in Seq(A) /\ <<lines[1]>> \o t = lines
  <2> HIDE DEF A
  <2> QED BY <1>1 DEF From
<1> HIDE DEF t
<1>3. out = Line(l) \o Text(t)
  BY DEF t
<1>4. out = Text(<<l>> \o t) /\ <<l>> \o t \in Seq(ALine)
  BY <1>2, <1>3, TextCons
<1>5. LinesOf(out) = <<l>> \o t
  BY <1>4, LinesOfText
<1>6. Tail(<<l>> \o t) = t
  <2> HIDE DEF A
  <2> QED BY <1>1, <1>2
<1> QED BY <1>2, <1>5, <1>6

\* A text that is not empty has a line.
LEMMA SomeLine ==
    ASSUME NEW text \in Texts
    PROVE  LinesOf(text) = <<>> <=> text = <<>>
<1> DEFINE N == Len(text)
           A == ALine
<1>1. PICK f \in [0..N -> ReadSoFar] :
          /\ f[0] = [all |-> <<>>, now |-> <<>>]
          /\ \A n \in 1..N : f[n] = ReadMore(f[n - 1], text[n])
          /\ LinesOf(text) = WholeOf(f[N])
  BY LinesOfIs
<1>2. N \in Nat /\ (text = <<>> <=> N = 0) /\ \A n \in 1..N : text[n] \in Words
  <2>1. text \in Seq(Words)
    BY DEF Texts
  <2> DEFINE W == Words
  <2>2. text \in Seq(W)
    BY <2>1
  <2> HIDE DEF W
  <2>3. N \in Nat /\ (text = <<>> <=> N = 0) /\ \A n \in 1..N : text[n] \in W
    BY <2>2
  <2> QED BY <2>3 DEF W
<1>3. CASE N = 0
  <2>1. f[N].all = <<>> /\ f[N].now = <<>>
    BY <1>1, <1>3
  <2> QED BY <1>1, <1>2, <1>3, <2>1 DEF WholeOf
<1>4. CASE N # 0
  <2> DEFINE so == f[N - 1]
             c == text[N]
             n1 == f[N]
  <2>1. N \in 1..N /\ N - 1 \in 0..N
    BY <1>2, <1>4
  <2>2. so \in ReadSoFar /\ c \in Words /\ n1 = ReadMore(so, c)
    BY <1>1, <1>2, <2>1
  <2> HIDE DEF so, c, n1
  <2>3. /\ so.all \in Seq(A) /\ so.now \in A
        /\ c = End => n1.all = Append(so.all, so.now) /\ n1.now = <<>>
        /\ c # End => n1.all = so.all /\ n1.now = Append(so.now, c)
    <3>1. so.all \in Seq(A) /\ so.now \in A
      BY <2>2 DEF ReadSoFar
    <3> QED BY <2>2, <3>1, ReadMoreIs
  <2>4. \A s \in Seq(A), x \in A : Append(s, x) # <<>>
    <3> HIDE DEF A
    <3>1. \A s \in Seq(A), x \in A : Len(Append(s, x)) = Len(s) + 1 /\ Len(s) \in Nat
      OBVIOUS
    <3> QED BY <3>1
  <2>5. \A s, x : s \in A => Append(s, x) # <<>>
    <3>1. ASSUME NEW s, NEW x, s \in A PROVE Len(Append(s, x)) = Len(s) + 1 /\ Len(s) \in Nat
      BY <3>1 DEF ALine
    <3> QED BY <3>1
  <2>6. WholeOf(n1) # <<>>
    <3>1. CASE c = End
      BY <2>3, <2>4, <3>1 DEF WholeOf
    <3>2. CASE c # End
      <4>1. n1.now # <<>> /\ n1.all \in Seq(A)
        BY <2>3, <2>5, <3>2
      <4>2. n1.now \in A
        <5>1. n1 \in ReadSoFar
          BY <2>2, ReadMoreIs
        <5> QED BY <5>1 DEF ReadSoFar
      <4> HIDE DEF A
      <4> QED BY <2>4, <4>1, <4>2 DEF WholeOf
    <3> QED BY <3>1, <3>2
  <2> QED BY <1>1, <1>2, <1>4, <2>6 DEF n1
<1> QED BY <1>3, <1>4
-----------------------------------------------------------------------------
(* What -insert and -append add to is what is found.                       *)

\* A new value of a list changes nothing that is looked up.
LEMMA PutValueSame ==
    ASSUME NEW w \in Fine, NEW o \in DOMAIN w.heap, NEW type \in Lists,
           w.heap[o].type = type, NEW value \in Values(type)
    PROVE  /\ Alike(w, PutValue(w, o, value))
           /\ \A J : Same(w, PutValue(w, o, value), J)
<1> DEFINE y == PutValue(w, o, value)
<1>1. /\ y.current = w.current /\ y.locals = w.locals /\ DOMAIN y.heap = DOMAIN w.heap
      /\ \A p \in DOMAIN w.heap : p # o => y.heap[p] = w.heap[p]
      /\ y.heap[o].type = type
  BY PutValueIs
<1> HIDE DEF y
<1>2. type # "object"
  BY DEF Lists
<1>3. Alike(w, y)
  BY <1>1, <1>2 DEF Alike
<1>4. \A p : IsUser(w, p) => y.heap[p] = w.heap[p]
  BY <1>1, <1>2 DEF IsUser
<1>5. \A J : Same(w, y, J)
  BY <1>1, <1>4 DEF Same, uobject_item
<1> QED BY <1>3, <1>5 DEF y

\* An argument without "::" has nothing in front.
LEMMA ShortFront ==
    ASSUME NEW argument \in Names, Len(argument) = 1
    PROVE  Last(argument) \notin ToSet(Front(argument)) /\ argument = <<Last(argument)>>
<1>1. Front(argument) = <<>>
  BY DEF Front
<1>2. ToSet(<<>>) = {}
  BY DEF ToSet
<1> QED BY <1>1, <1>2, PartsAre

\* An item behind the prefix that is there is what is found.
LEMMA ItemFound ==
    ASSUME NEW w \in Fine, NEW argument \in Names, NEW local \in BOOLEAN,
           ReadableIn(w, argument, local), NEW item, item # NULL,
           item = IF local THEN (IF Has(w.locals, argument) THEN At(w.locals, argument) ELSE NULL)
                  ELSE IF Prefix(w, argument).ok
                  THEN uobject_item(w, Prefix(w, argument).object, <<Last(argument)>>) ELSE NULL
    PROVE  Finding(w, argument, item)
<1> DEFINE at == Prefix(w, argument)
           key == <<Last(argument)>>
<1>1. CASE local
  <2>1. Has(w.locals, argument) /\ item = At(w.locals, argument) /\ Len(argument) = 1
    BY <1>1 DEF ReadableIn
  <2>2. argument = key /\ at = AtFirst(w)
    BY <2>1, ShortFront, FirstIsShort
  <2>3. at.ok = TRUE /\ at.first = TRUE
    BY <2>2 DEF AtFirst
  <2>4. access_object(w, key) = item
    BY <2>1, <2>2 DEF access_object
  <2> QED BY <2>3, <2>4, AnswerIs
<1>2. CASE ~local
  <2>1. at.ok /\ item = uobject_item(w, at.object, key)
    BY <1>2
  <2>2. IsUser(w, at.object) /\ (at.first => at.object = w.current)
    BY <2>1, FrontIs DEF Spots
  <2>3. CASE at.first
    <3>1. Len(argument) = 1 /\ argument = key
      BY <2>3, FirstIsShort, ShortFront
    <3>2. ~Has(w.locals, key)
      BY <1>2, <3>1 DEF ReadableIn
    <3>3. access_object(w, key) = Inherited(w, key)[at.object]
      BY <2>2, <2>3, <3>2 DEF access_object
    <3>4. Inherited(w, key)[at.object] = item
      BY <2>1, <2>2, InheritedAt
    <3> QED BY <2>1, <2>3, <3>3, <3>4, AnswerIs
  <2>4. CASE ~at.first
    BY <2>1, <2>4, AnswerIs
  <2> QED BY <2>3, <2>4
<1> QED BY <1>1, <1>2

\* What is found under an argument is of a type.
FindsA(w, argument, type) ==
    /\ get_object_from_argument(w, argument).ok
    /\ w.heap[get_object_from_argument(w, argument).object].type = type

\* The array or hash that is added to is found under the argument; one made for an argument
\* with "::" is not, and then neither is any other array or hash.
LEMMA GrowingFound ==
    ASSUME NEW w \in Fine, w.ok, NEW type \in Lists, NEW argument \in Names, NEW local \in BOOLEAN,
           NEW to, to = Growing(w, type, argument, local), to.world.ok,
           ReadableIn(to.world, argument, local),
           Len(argument) # 1 => FindsA(to.world, argument, type)
    PROVE  Finding(to.world, argument, to.object)
<1> DEFINE at == Prefix(w, argument)
           key == <<Last(argument)>>
           item == IF local THEN (IF Has(w.locals, argument) THEN At(w.locals, argument) ELSE NULL)
                   ELSE IF at.ok THEN uobject_item(w, at.object, key) ELSE NULL
           x == [type |-> type, value |-> <<>>]
           made == Made(w, x)
           u == to.world
           o == New(w)
<1>1. to = IF Typed(w, item) = type THEN [world |-> w, object |-> item]
           ELSE IF local THEN [world |-> PutLocal(made, argument, o), object |-> o]
           ELSE IF at.ok /\ at.object = w.current
           THEN [world |-> PutItem(made, w.current, argument, o), object |-> o]
           ELSE [world |-> Fails(w), object |-> NULL]
  BY DEF Growing, get_object_prefix_and_name_from_argument
<1>2. Joins(w, x) /\ type # ""
  <2>1. <<>> \in Seq(ALine)
    OBVIOUS
  <2>2. <<>> \in Pairs(ALine, ALine)
    BY DEF Pairs, KeysOnce
  <2> QED BY <2>1, <2>2, ValueJoins, Zenon DEF Lists
<1>3. /\ made \in Fine /\ Grown(w, made) /\ made.current = w.current /\ o \in DOMAIN made.heap
      /\ made.ok /\ \A J : Same(w, made, J)
  <2> HIDE DEF x
  <2> QED BY <1>2, MadeIs, Zenon
<1>4. u \in Fine /\ Grown(w, u)
  BY GrowingIs
<1> HIDE DEF item, x, made, o
<1>5. CASE Typed(w, item) = type
  <2>1. u = w /\ to.object = item
    BY <1>1, <1>5
  <2>2. item # NULL
    BY <1>2, <1>5, Zenon DEF Typed
  <2>3. Finding(w, argument, item)
    BY <2>1, <2>2, ItemFound DEF item
  <2> QED BY <2>1, <2>3
<1>6. CASE Typed(w, item) # type /\ local
  <2>1. u = PutLocal(made, argument, o) /\ to.object = o
    BY <1>1, <1>6
  <2>2. Bound(made, u, argument, o, local)
    BY <1>3, <1>6, <2>1 DEF Bound
  <2>3. Last(argument) \notin ToSet(Front(argument))
    BY <1>6, ShortFront DEF ReadableIn
  <2> HIDE DEF u
  <2>4. Finding(u, argument, o)
    BY <1>3, <1>4, <2>2, <2>3, BoundFound DEF u
  <2> QED BY <2>1, <2>4 DEF u
<1>7. CASE Typed(w, item) # type /\ ~local /\ at.ok /\ at.object = w.current
  <2> DEFINE c == w.current
  <2>1. u = PutItem(made, c, argument, o) /\ to.object = o
    BY <1>1, <1>7
  <2>2. CASE Len(argument) = 1
    <3>1. argument = key /\ Last(argument) \notin ToSet(Front(argument))
      BY <2>2, ShortFront
    <3>2. Prefix(made, argument) = AtFirst(made)
      BY <1>3, <2>2, FirstIsShort
    <3>3. Prefix(made, argument).ok /\ Prefix(made, argument).object = c
      BY <1>3, <3>2 DEF AtFirst
    <3>4. Bound(made, u, argument, o, local)
      BY <1>3, <1>7, <2>1, <3>1, <3>3 DEF Bound
    <3> HIDE DEF u
    <3>5. Finding(u, argument, o)
      BY <1>3, <1>4, <3>1, <3>4, BoundFound DEF u
    <3> QED BY <2>1, <3>5 DEF u
  <2>3. CASE Len(argument) # 1
    <3> DEFINE J == ToSet(argument)
    <3>1. Same(made, u, J)
      <4>1. IsUser(made, c)
        BY <1>3, WorldIs
      <4> HIDE DEF c
      <4>2. /\ u.locals = made.locals
            /\ \A p, k : IsUser(made, p) /\ k # argument =>
                   uobject_item(u, p, k) = uobject_item(made, p, k)
        BY <1>3, <2>1, <4>1, PutItemIs
      <4>3. ASSUME NEW j \in J PROVE <<j>> # argument
        <5>1. Len(<<j>>) = 1
          OBVIOUS
        <5> QED BY <2>3, <5>1
      <4> HIDE DEF J, u
      <4> QED BY <4>2, <4>3 DEF Same
    <3>2. Same(w, u, J)
      <4>1. Same(w, made, J)
        BY <1>3
      <4> HIDE DEF J, u
      <4> QED BY <1>3, <3>1, <4>1, SameOn
    <3>3. Alike(w, u)
      BY <1>4, GrownAlike
    <3>4. get_object_from_argument(u, argument) = get_object_from_argument(w, argument)
      BY <1>4, <3>2, <3>3, FoundSame
    <3> DEFINE y == get_object_from_argument(w, argument)
    <3>5. y.ok /\ u.heap[y.object].type = type
      BY <2>3, <3>4 DEF FindsA
    <3>6. ~at.first
      BY <2>3, FirstIsShort
    <3>7. y.object = item /\ item \in Finds(w)
      BY <1>7, <3>6, FindIs DEF item
    <3>8. y.object \in DOMAIN w.heap
      BY <3>5, FoundIs
    <3> HIDE DEF y
    <3>9. Typed(w, item) = type
      <4>1. item # NULL
        BY <3>7, <3>8, HeapIs
      <4>2. u.heap[item].type = w.heap[item].type
        BY <3>3, <3>7, <3>8 DEF Alike
      <4> QED BY <3>5, <3>7, <4>1, <4>2 DEF Typed
    <3> QED BY <1>7, <3>9
  <2> QED BY <2>2, <2>3
<1>8. CASE Typed(w, item) # type /\ ~local /\ ~(at.ok /\ at.object = w.current)
  <2>1. u = Fails(w)
    BY <1>1, <1>8
  <2> QED BY <2>1, FailsIs
<1> QED BY <1>5, <1>6, <1>7, <1>8

\* What -insert n puts in is what -index n reads.
InsertIsRead(items, n, new) ==
    /\ n >= 0 /\ n <= Len(items) - Len(new) => Indexed(items, n) = Line(new[1])
    /\ n < 0 /\ -n <= Len(items) - Len(new) + 1 => Indexed(items, n) = Line(Last(new))

\* It is so for every list, place and lines to insert.
LEMMA InsertedRead ==
    ASSUME NEW old \in Seq(ALine), NEW n \in Int, NEW lines \in Seq(ALine),
           NEW items, items = Inserted(old, n, lines),
           NEW new, new = IF lines = <<>> THEN << <<>> >> ELSE lines
    PROVE  InsertIsRead(items, n, new)
<1> DEFINE A == ALine
           C == Len(old)
           L == Len(new)
           N == Len(items)
           k == PlaceOf(n, C)
<1>1. /\ items \in Seq(A) /\ new \in Seq(A) /\ L \in Nat \ {0} /\ N = C + L
      /\ \A m \in 1..L : items[k + m] = new[m]
  BY InsertedIs
<1>2. C \in Nat
  <2>1. old \in Seq(A)
    OBVIOUS
  <2> HIDE DEF A
  <2> QED BY <2>1
<1>3. items # <<>> /\ Last(new) = new[L]
  <2>1. N # 0
    BY <1>1, <1>2
  <2> QED BY <2>1 DEF Last
<1> HIDE DEF A, C, L, N
<1>4. ASSUME n >= 0, n <= N - L PROVE Indexed(items, n) = Line(new[1])
  <2>1. k = n /\ n \in 0..(N - 1) /\ 1 \in 1..L
    BY <1>1, <1>2, <1>4 DEF PlaceOf
  <2>2. items[n + 1] = new[1]
    <3>1. items[k + 1] = new[1]
      BY <1>1, <2>1
    <3> QED BY <2>1, <3>1
  <2>3. Indexed(items, n) = Line(items[n + 1])
    BY <1>3, <1>4, <2>1 DEF Indexed, N
  <2> QED BY <2>2, <2>3
<1>5. ASSUME n < 0, -n <= N - L + 1 PROVE Indexed(items, n) = Line(Last(new))
  <2> DEFINE i == n + N
  <2>1. k = n + C + 1 /\ i \in 0..(N - 1) /\ i + 1 = k + L /\ L \in 1..L
    BY <1>1, <1>2, <1>5 DEF PlaceOf
  <2>2. items[i + 1] = new[L]
    <3>1. items[k + L] = new[L]
      BY <1>1, <2>1
    <3> QED BY <2>1, <3>1
  <2>3. Indexed(items, n) = IF i \in 0..(N - 1) THEN Line(items[i + 1]) ELSE Line(<<>>)
    BY <1>3, <1>5 DEF Indexed, N
  <2> HIDE DEF i
  <2> QED BY <1>3, <2>1, <2>2, <2>3
<1> QED BY <1>4, <1>5 DEF InsertIsRead, L, N
-----------------------------------------------------------------------------
(* What a command says of itself, and what the state after it reads.       *)

\* The fields of what a command leaves in last.
Fields(r, name, args, text, out, local, shift, n) ==
    /\ r.name = name /\ r.args = args /\ r.in = text /\ r.out = out
    /\ r.local = local /\ r.shift = shift /\ r.n = n

\* A record of those fields with another value in some of them.
LEMMA CommandFields ==
    ASSUME NEW name, NEW args, NEW in, NEW out, NEW local, NEW shift, NEW n
    PROVE  /\ Fields([Command(name, args, in) EXCEPT !.out = out],
                     name, args, in.text, out, FALSE, FALSE, 0)
           /\ Fields([[Command(name, args, in) EXCEPT !.n = n] EXCEPT !.out = out],
                     name, args, in.text, out, FALSE, FALSE, n)
           /\ Fields([Local(Command(name, args, in), local) EXCEPT !.out = out],
                     name, args, in.text, out, local, FALSE, 0)
           /\ Fields([[Local(Command(name, args, in), local) EXCEPT !.n = n] EXCEPT !.out = out],
                     name, args, in.text, out, local, FALSE, n)
           /\ Fields([Shift(Command(name, args, in), shift) EXCEPT !.out = out],
                     name, args, in.text, out, FALSE, shift, 0)
           /\ Fields([Shift(Local(Command(name, args, in), local), shift) EXCEPT !.out = out],
                     name, args, in.text, out, local, shift, 0)
<1> DEFINE c == Command(name, args, in)
           D == {"name", "args", "in", "out", "local", "shift", "n"}
<1>1. /\ DOMAIN c = D /\ c.name = name /\ c.args = args /\ c.in = in.text
      /\ c.local = FALSE /\ c.shift = FALSE /\ c.n = 0
  BY DEF Command
<1>2. \A l, s : /\ Local(l, s) = [l EXCEPT !.local = s]
                /\ Shift(l, s) = [l EXCEPT !.shift = s]
  BY DEF Local, Shift
<1> HIDE DEF c
<1>3. Fields([c EXCEPT !.out = out], name, args, in.text, out, FALSE, FALSE, 0)
  BY <1>1 DEF Fields
<1>4. Fields([[c EXCEPT !.n = n] EXCEPT !.out = out], name, args, in.text, out, FALSE, FALSE, n)
  BY <1>1 DEF Fields
<1>5. Fields([Local(c, local) EXCEPT !.out = out], name, args, in.text, out, local, FALSE, 0)
  BY <1>1, <1>2 DEF Fields
<1>6. Fields([[Local(c, local) EXCEPT !.n = n] EXCEPT !.out = out],
             name, args, in.text, out, local, FALSE, n)
  BY <1>1, <1>2 DEF Fields
<1>7. Fields([Shift(c, shift) EXCEPT !.out = out], name, args, in.text, out, FALSE, shift, 0)
  BY <1>1, <1>2 DEF Fields
<1>8. Fields([Shift(Local(c, local), shift) EXCEPT !.out = out],
             name, args, in.text, out, local, shift, 0)
  BY <1>1, <1>2 DEF Fields
<1> QED BY <1>3, <1>4, <1>5, <1>6, <1>7, <1>8 DEF c

\* What run leaves of a command.
LEMMA RanLeaves ==
    ASSUME NEW command, NEW w, NEW out, NEW rcode, Ran(command, w, out, rcode)
    PROVE  /\ last' = [command EXCEPT !.out = out] /\ heap' = w.heap /\ locals' = w.locals
           /\ mRCode' = IF w.ok THEN rcode ELSE FailedCode(command)
           /\ returned' => w.ok
BY DEF Ran

\* The world after a command that has succeeded.
LEMMA WorldAfter ==
    ASSUME NEW w \in Fine, w.ok, heap' = w.heap, locals' = w.locals, current' = w.current
    PROVE  World' = w
<1> DEFINE O == Seq(Objects)
           P == Pairs(Names, Nat)
<1>1. w \in [heap : O, locals : P, current : Nat, ok : BOOLEAN]
  BY DEF Fine, Worlds
<1> HIDE DEF O, P
<1>2. w = [heap |-> w.heap, locals |-> w.locals, current |-> w.current, ok |-> TRUE]
  BY <1>1
<1> QED BY <1>2 DEF World

\* The words of the properties in those of the lemmas.
LEMMA ReadsAfter ==
    ASSUME NEW w, World' = w, NEW args, NEW local, last'.args = args, last'.local = local,
           NEW n
    PROVE  /\ Hidden(n)' <=> (OverIn(args, n) \/ ~ReadableIn(w, args[n], local))
           /\ \A a : Readable(a)' <=> ReadableIn(w, a, local)
           /\ Find(last.args[n])' = get_object_from_argument(w, args[n])
           /\ Held(last.args[n])' = w.heap[get_object_from_argument(w, args[n]).object]
<1>1. w.heap = heap' /\ w.locals = locals'
  BY DEF World
<1>2. \A a : Readable(a)' <=> ReadableIn(w, a, local)
  BY <1>1 DEF Readable, Shadowed, ReadableIn
<1>3. Overwritten(n)' <=> OverIn(args, n)
  BY DEF Overwritten, OverIn
<1>4. Hidden(n)' <=> (OverIn(args, n) \/ ~ReadableIn(w, args[n], local))
  BY <1>1, <1>3 DEF Hidden, Readable, Shadowed, ReadableIn
<1>5. Find(last.args[n])' = get_object_from_argument(w, args[n])
  BY DEF Find
<1>6. Held(last.args[n])' = w.heap[get_object_from_argument(w, args[n]).object]
  BY <1>1 DEF Find, Held
<1> QED BY <1>2, <1>4, <1>5, <1>6
-----------------------------------------------------------------------------
(* The properties, one part for each of the commands they are about.       *)

VarRead == Succeeded("| var") => \A n \in DOMAIN last.args :
    Reads(n, [type |-> "var", value |->
        IF n <= Len(LinesOf(last.in)) THEN LinesOf(last.in)[n] ELSE <<>>])
AryRead == Succeeded("| ary") => Reads(1, [type |-> "array", value |-> LinesOf(last.in)])
HashRead == Succeeded("| hash") =>
    Reads(1, [type |-> "hash", value |-> PairsPut(<<>>, LinesOf(last.in))])
SourceRead(name, type) ==
    Succeeded(name) /\ last.in # <<>> => Reads(1, [type |-> type, value |-> last.in])
RefRead == Succeeded("| ref") => \A n \in 1..Shorter(LinesOf(last.in), last.args) :
    Hidden(n) \/ Find(last.args[n]) = [ok |-> TRUE, object |-> AddressOf(LinesOf(last.in)[n])]
ExportRead == Succeeded("| export") => \A n \in DOMAIN last.args :
    \/ \E m \in DOMAIN last.args : m > n /\ last.args[m] = last.args[n]
    \/ /\ last.args[n] \in DOMAIN environ <=> Exported(last.args[n])
       /\ Exported(last.args[n]) => environ[last.args[n]] =
             IF n <= Len(LinesOf(last.in)) THEN LinesOf(last.in)[n] ELSE <<>>
RestOf(name) == Succeeded(name) /\ last.shift =>
    LinesOf(last.out) = From(LinesOf(last.in), Shorter(LinesOf(last.in), last.args) + 1)
NewRest == Succeeded("| var -new") /\ last.shift =>
    \/ LinesOf(last.in) = <<>>
    \/ <<heap[Len(heap)].value>> \o Tail(LinesOf(last.out)) = LinesOf(last.in)
InsertRead ==
    Succeeded("| ary -insert") /\ Readable(last.args[1])
    /\ (Len(last.args[1]) > 1 => Find(last.args[1]).ok /\ Held(last.args[1]).type = "array") =>
        LET items == Held(last.args[1]).value
            lines == IF last.in = <<>> THEN << <<>> >> ELSE LinesOf(last.in)
        IN  /\ last.n >= 0 /\ last.n <= Len(items) - Len(lines) =>
                  Indexed(items, last.n) = Line(lines[1])
            /\ last.n < 0 /\ -last.n <= Len(items) - Len(lines) + 1 =>
                  Indexed(items, last.n) = Line(Last(lines))

\* All of them together, and the commands they are about.
ReadBack ==
    /\ VarRead /\ AryRead /\ HashRead
    /\ SourceRead("def", "function") /\ SourceRead("class", "class") /\ SourceRead("alias", "alias")
    /\ RefRead /\ ExportRead /\ RestOf("| var") /\ RestOf("| export") /\ NewRest
    /\ DefinedIfFound /\ InsertRead
Readers == {"| var", "| ary", "| hash", "def", "class", "alias", "| ref", "| export",
            "| var -new", "defined", "| ary -insert"}

\* The parts make the properties.
LEMMA PartsMake ==
    ASSUME ReadBack
    PROVE  WrittenIsRead /\ RestIsPassed /\ DefinedIfFound /\ InsertRead
<1>1. \A pair \in {<<"def", "function">>, <<"class", "class">>, <<"alias", "alias">>} :
          \/ (pair[1] = "def" /\ pair[2] = "function")
          \/ (pair[1] = "class" /\ pair[2] = "class")
          \/ (pair[1] = "alias" /\ pair[2] = "alias")
  OBVIOUS
<1>2. \A pair \in {<<"def", "function">>, <<"class", "class">>, <<"alias", "alias">>} :
          Succeeded(pair[1]) /\ last.in # <<>> => Reads(1, [type |-> pair[2], value |-> last.in])
  <2>1. SourceRead("def", "function") /\ SourceRead("class", "class")
        /\ SourceRead("alias", "alias")
    BY Zenon DEF ReadBack
  <2> QED BY <1>1, <2>1, Zenon DEF SourceRead
<1>3. WrittenIsRead
  <2>1. VarRead /\ AryRead /\ HashRead /\ RefRead /\ ExportRead
    BY Zenon DEF ReadBack
  <2> QED BY <1>2, <2>1, Zenon DEF WrittenIsRead, VarRead, AryRead, HashRead, RefRead, ExportRead
<1>4. RestIsPassed
  <2>1. RestOf("| var") /\ RestOf("| export") /\ NewRest
    BY Zenon DEF ReadBack
  <2> QED BY <2>1, Zenon DEF RestIsPassed, RestOf, NewRest
<1>5. DefinedIfFound /\ InsertRead
  BY Zenon DEF ReadBack
<1> QED BY <1>3, <1>4, <1>5

\* Of each part: only the command it is about has something to show.
LEMMA PartsApart ==
    /\ (last.name # "| var" => VarRead /\ RestOf("| var"))'
    /\ (last.name # "| ary" => AryRead)' /\ (last.name # "| hash" => HashRead)'
    /\ (last.name # "def" => SourceRead("def", "function"))'
    /\ (last.name # "class" => SourceRead("class", "class"))'
    /\ (last.name # "alias" => SourceRead("alias", "alias"))'
    /\ (last.name # "| ref" => RefRead)'
    /\ (last.name # "| export" => ExportRead /\ RestOf("| export"))'
    /\ (last.name # "| var -new" => NewRest)' /\ (last.name # "defined" => DefinedIfFound)'
    /\ (last.name # "| ary -insert" => InsertRead)'
<1>1. (last.name # "| var" => VarRead /\ RestOf("| var"))'
  BY Zenon DEF VarRead, RestOf, Succeeded
<1>2. (last.name # "| ary" => AryRead)' /\ (last.name # "| hash" => HashRead)'
  BY Zenon DEF AryRead, HashRead, Succeeded
<1>3. /\ (last.name # "def" => SourceRead("def", "function"))'
      /\ (last.name # "class" => SourceRead("class", "class"))'
      /\ (last.name # "alias" => SourceRead("alias", "alias"))'
  BY Zenon DEF SourceRead, Succeeded
<1>4. (last.name # "| ref" => RefRead)'
  BY Zenon DEF RefRead, Succeeded
<1>5. (last.name # "| export" => ExportRead /\ RestOf("| export"))'
  BY Zenon DEF ExportRead, RestOf, Succeeded
<1>6. (last.name # "| var -new" => NewRest)' /\ (last.name # "defined" => DefinedIfFound)'
  BY Zenon DEF NewRest, DefinedIfFound, Succeeded
<1>7. (last.name # "| ary -insert" => InsertRead)'
  BY Zenon DEF InsertRead, Succeeded
<1> QED BY <1>1, <1>2, <1>3, <1>4, <1>5, <1>6, <1>7, Zenon

\* A command they are not about leaves nothing to show.
LEMMA OthersRead ==
    ASSUME last'.name \notin Readers
    PROVE  ReadBack'
<1>1. /\ last'.name # "| var" /\ last'.name # "| ary" /\ last'.name # "| hash"
      /\ last'.name # "def" /\ last'.name # "class" /\ last'.name # "alias"
      /\ last'.name # "| ref" /\ last'.name # "| export" /\ last'.name # "| var -new"
      /\ last'.name # "defined" /\ last'.name # "| ary -insert"
  BY Zenon DEF Readers
<1> QED BY <1>1, PartsApart, Zenon DEF ReadBack

\* What is left by a command that has run and succeeded.
LEMMA AfterRan ==
    ASSUME TypedNow, NEW w \in Fine, Grown(World, w), NEW command, NEW out, NEW rcode,
           Ran(command, w, out, rcode), current' = current, returned'
    PROVE  w.ok /\ World' = w /\ last' = [command EXCEPT !.out = out]
<1>1. /\ last' = [command EXCEPT !.out = out] /\ heap' = w.heap /\ locals' = w.locals /\ w.ok
  BY RanLeaves
<1>2. w.current = World.current /\ World.current = current
  BY DEF Grown, World
<1>3. World' = w
  BY <1>1, <1>2, WorldAfter
<1> QED BY <1>1, <1>3

\* What is made for one argument is read back under it.
LEMMA OneReads ==
    ASSUME TypedNow, NEW args \in Arguments, Len(args) = 1, NEW item, Joins(World, item),
           item.type # "object", NEW local \in BOOLEAN, NEW command, NEW out, NEW rcode,
           Ran(command, BindNew(World, args[1], item, local), out, rcode), current' = current,
           NEW name, NEW text, NEW shift, NEW n,
           Fields([command EXCEPT !.out = out], name, args, text, out, local, shift, n), returned'
    PROVE  Hidden(1)' \/ (Find(last.args[1]).ok' /\ Held(last.args[1])' = item)
<1> DEFINE w == BindNew(World, args[1], item, local)
           a == args[1]
<1>1. World \in Fine /\ a \in Names /\ w \in Fine /\ Grown(World, w)
  BY WorldNow, ArgsAre, BindNewIs
<1>2. Ran(command, w, out, rcode)
  OBVIOUS
<1> HIDE DEF w
<1>3. w.ok /\ World' = w /\ last' = [command EXCEPT !.out = out]
  BY <1>1, <1>2, AfterRan
<1>4. last'.args = args /\ last'.local = local
  BY <1>3 DEF Fields
<1>5. /\ Hidden(1)' <=> (OverIn(args, 1) \/ ~ReadableIn(w, a, local))
      /\ Find(last.args[1])' = get_object_from_argument(w, a)
      /\ Held(last.args[1])' = w.heap[get_object_from_argument(w, a).object]
  BY <1>3, <1>4, ReadsAfter
<1>6. ASSUME ~OverIn(args, 1), ReadableIn(w, a, local)
      PROVE  Find(last.args[1]).ok' /\ Held(last.args[1])' = item
  <2>1. Last(a) \notin ToSet(Front(a))
    BY <1>6 DEF OverIn
  <2> HIDE DEF a
  <2>2. w = BindNew(World, a, item, local)
    BY DEF w, a
  <2>3. SeenAt(w, a, New(World), item)
    BY <1>1, <1>3, <1>6, <2>1, <2>2, NewFound
  <2>4. get_object_from_argument(w, a) = [ok |-> TRUE, object |-> New(World)]
        /\ w.heap[New(World)] = item
    BY <2>3 DEF SeenAt, Finding
  <2>5. get_object_from_argument(w, a).ok
        /\ w.heap[get_object_from_argument(w, a).object] = item
    BY <2>4
  <2> QED BY <1>5, <2>5, Zenon
<1> QED BY <1>5, <1>6

\* "| ary" with a name.
LEMMA AryReadBack ==
    ASSUME TypedNow, NEW args \in Arguments, NEW in \in Filters, NEW local \in BOOLEAN,
           Len(args) = 1,
           Ran(Local(Command("| ary", args, in), local),
               BindNew(World, args[1], [type |-> "array", value |-> LinesOf(in.text)], local),
               <<>>, ReadCode(in)),
           current' = current
    PROVE  ReadBack'
<1> DEFINE name == "| ary"
           type == "array"
           item == [type |-> type, value |-> LinesOf(in.text)]
           command == Local(Command(name, args, in), local)
           none == <<>>
           no == FALSE
           zero == 0
<1>1. Joins(World, item) /\ item.type # "object"
  BY FilterIs, ValueJoins, Zenon
<1>2. Ran(command, BindNew(World, args[1], item, local), none, ReadCode(in))
  BY Zenon
<1>3. type = "array"
  BY Zenon
<1> HIDE DEF name, type, none
<1>4. Fields([command EXCEPT !.out = none], name, args, in.text, none, local, no, zero)
  BY CommandFields, Zenon
<1> HIDE DEF command, no, zero
<1>5. last'.name = name /\ last'.in = in.text
  BY <1>2, <1>4, RanLeaves, Zenon DEF Fields
<1>6. returned' => Hidden(1)' \/ (Find(last.args[1]).ok' /\ Held(last.args[1])' = item)
  <2> HIDE DEF item
  <2> QED BY <1>1, <1>2, <1>4, OneReads, Zenon
<1>7. AryRead'
  BY <1>3, <1>5, <1>6, Zenon DEF AryRead, Succeeded, Reads, item
<1>8. last'.name = "| ary"
  BY <1>5, Zenon DEF name
<1> QED BY <1>7, <1>8, PartsApart, Zenon DEF ReadBack

\* No pairs at all are pairs, and those put in stay so.
LEMMA MadeOfLines ==
    ASSUME NEW lines \in Seq(ALine)
    PROVE  PairsPut(<<>>, lines) \in Pairs(ALine, ALine)
<1> DEFINE P == Pairs(ALine, ALine)
           none == <<>>
<1>1. none \in P
  BY DEF Pairs, KeysOnce
<1> HIDE DEF P, none
<1>2. PairsPut(none, lines) \in P
  BY <1>1, PairsPutGrows DEF P
<1> QED BY <1>2 DEF P, none

\* "| hash" with a name.
LEMMA HashReadBack ==
    ASSUME TypedNow, NEW args \in Arguments, NEW in \in Filters, NEW local \in BOOLEAN,
           Len(args) = 1,
           Ran(Local(Command("| hash", args, in), local),
               BindNew(World, args[1],
                       [type |-> "hash", value |-> PairsPut(<<>>, LinesOf(in.text))], local),
               <<>>, ReadCode(in)),
           current' = current
    PROVE  ReadBack'
<1> DEFINE name == "| hash"
           type == "hash"
           item == [type |-> type, value |-> PairsPut(<<>>, LinesOf(in.text))]
           command == Local(Command(name, args, in), local)
           none == <<>>
           no == FALSE
           zero == 0
<1>1. Joins(World, item) /\ item.type # "object"
  BY FilterIs, MadeOfLines, ValueJoins, Zenon
<1>2. Ran(command, BindNew(World, args[1], item, local), none, ReadCode(in))
  BY Zenon
<1>3. type = "hash"
  BY Zenon
<1> HIDE DEF name, type, none
<1>4. Fields([command EXCEPT !.out = none], name, args, in.text, none, local, no, zero)
  BY CommandFields, Zenon
<1> HIDE DEF command, no, zero
<1>5. last'.name = name /\ last'.in = in.text
  BY <1>2, <1>4, RanLeaves, Zenon DEF Fields
<1>6. returned' => Hidden(1)' \/ (Find(last.args[1]).ok' /\ Held(last.args[1])' = item)
  <2> HIDE DEF item
  <2> QED BY <1>1, <1>2, <1>4, OneReads, Zenon
<1>7. HashRead'
  BY <1>3, <1>5, <1>6, Zenon DEF HashRead, Succeeded, Reads, item
<1>8. last'.name = "| hash"
  BY <1>5, Zenon DEF name
<1> QED BY <1>7, <1>8, PartsApart, Zenon DEF ReadBack

\* A text that is made a function, a class or an alias, if it can be parsed.
LEMMA SourceReads ==
    ASSUME TypedNow, NEW args \in Arguments, Len(args) = 1, NEW in \in Filters,
           NEW local \in BOOLEAN, NEW name, NEW type, type # "object",
           \A s \in Texts : Joins(World, [type |-> type, value |-> s]),
           NEW command, NEW none, NEW shift, NEW n,
           Fields([command EXCEPT !.out = none], name, args, in.text, none, local, shift, n),
           NEW rcode,
           Ran(command, IF in.text \in Unparsable THEN [World EXCEPT !.ok = FALSE]
                        ELSE BindNew(World, args[1], [type |-> type, value |-> in.text], local),
               none, rcode),
           current' = current
    PROVE  SourceRead(name, type)' /\ last'.name = name
<1> DEFINE item == [type |-> type, value |-> in.text]
           v == [World EXCEPT !.ok = FALSE]
           e == BindNew(World, args[1], item, local)
           w == IF in.text \in Unparsable THEN v ELSE e
<1>1. Joins(World, item) /\ item.type # "object"
  BY FilterIs
<1>2. Ran(command, w, none, rcode)
  BY Zenon
<1>3. v.ok = FALSE
  BY DEF World
<1> HIDE DEF v, e, w
<1>4. last'.name = name /\ last'.in = in.text /\ (returned' => w.ok)
  BY <1>2, RanLeaves DEF Fields
<1>5. returned' => Hidden(1)' \/ (Find(last.args[1]).ok' /\ Held(last.args[1])' = item)
  <2>1. CASE in.text \in Unparsable
    BY <1>3, <1>4, <2>1 DEF w
  <2>2. CASE in.text \notin Unparsable
    <3>1. Ran(command, BindNew(World, args[1], item, local), none, rcode)
      BY <1>2, <2>2 DEF w, e
    <3> HIDE DEF item
    <3> QED BY <1>1, <3>1, OneReads
  <2> QED BY <2>1, <2>2
<1>6. SourceRead(name, type)'
  BY <1>4, <1>5, Zenon DEF SourceRead, Succeeded, Reads, item
<1> QED BY <1>4, <1>6

\* One without a text to read makes nothing to read back.
LEMMA SourceStays ==
    ASSUME NEW args, NEW command, NEW local, NEW shift, NEW n, NEW name, NEW out,
           Fields([command EXCEPT !.out = out], name, args, NoPipe.text, out, local, shift, n),
           NEW w, NEW rcode, Ran(command, w, out, rcode), NEW type
    PROVE  SourceRead(name, type)' /\ last'.name = name
<1>1. last'.name = name /\ last'.in = NoPipe.text
  BY RanLeaves DEF Fields
<1>2. NoPipe.text = <<>>
  BY DEF NoPipe
<1> QED BY <1>1, <1>2 DEF SourceRead

\* def and class.
LEMMA DefinesReadBack ==
    ASSUME TypedNow, NEW name, NEW type, type # "object", Defines(name, type),
           \A s \in Texts : Joins(World, [type |-> type, value |-> s])
    PROVE  SourceRead(name, type)' /\ last'.name = name
<1> DEFINE none == <<>>
           no == FALSE
           zero == 0
<1> USE DEF Rest
<1>1. CASE \E args \in Arguments, source \in Sources,
      options \in {"none", "-inherit", "bad names"} :
            /\ Len(args) = 1
            /\ Ran(Command(name, args, NoPipe), entry_fun(type, args[1], source, options), <<>>, 0)
            /\ Rest
  <2>1. \E args, w : Ran(Command(name, args, NoPipe), w, none, zero)
    BY <1>1, Zenon
  <2>2. PICK args, w : Ran(Command(name, args, NoPipe), w, none, zero)
    BY <2>1
  <2> DEFINE command == Command(name, args, NoPipe)
  <2>3. Fields([command EXCEPT !.out = none], name, args, NoPipe.text, none, no, no, zero)
    BY CommandFields, Zenon
  <2> HIDE DEF command, none, no, zero
  <2> QED BY <2>2, <2>3, SourceStays DEF command
<1>2. CASE \E args \in Arguments, in \in Filters :
            /\ Len(args) = 1
            /\ Ran(Command(name, args, in),
                   IF in.text \in Unparsable THEN [World EXCEPT !.ok = FALSE]
                   ELSE entry_fun(type, args[1], in.text, "none"), <<>>, ReadCode(in))
            /\ Rest
  <2>1. PICK args \in Arguments, in \in Filters :
            /\ Len(args) = 1
            /\ Ran(Command(name, args, in),
                   IF in.text \in Unparsable THEN [World EXCEPT !.ok = FALSE]
                   ELSE entry_fun(type, args[1], in.text, "none"), <<>>, ReadCode(in))
            /\ Rest
    BY <1>2
  <2> DEFINE command == Command(name, args, in)
             item == [type |-> type, value |-> in.text]
  <2>2. entry_fun(type, args[1], in.text, "none") = BindNew(World, args[1], item, no)
    <3>1. "none" # "-inherit" /\ "none" # "bad names"
      BY Zenon
    <3> QED BY <3>1, Zenon DEF entry_fun
  <2>3. Ran(command, IF in.text \in Unparsable THEN [World EXCEPT !.ok = FALSE]
                     ELSE BindNew(World, args[1], item, no), none, ReadCode(in))
    BY <2>1, <2>2, Zenon
  <2>4. Fields([command EXCEPT !.out = none], name, args, in.text, none, no, no, zero)
    BY CommandFields, Zenon
  <2>5. no \in BOOLEAN /\ current' = current /\ Len(args) = 1
    BY <2>1
  <2> HIDE DEF command, none, no, zero
  <2> QED BY <2>3, <2>4, <2>5, SourceReads
<1>3. CASE \E args \in Arguments :
            \E at \in {Find(args[1])} :
            LET found == at.ok /\ heap[at.object].type = type
            IN  /\ Len(args) = 1
                /\ \E out \in IF found THEN Pomched(heap[at.object].value) ELSE {<<>>} :
                       Ran(Command(name, args, NoPipe), [World EXCEPT !.ok = found], out, 0)
                /\ Rest
  <2>1. PICK args \in Arguments :
            \E at \in {Find(args[1])} :
            LET found == at.ok /\ heap[at.object].type = type
            IN  /\ Len(args) = 1
                /\ \E out \in IF found THEN Pomched(heap[at.object].value) ELSE {<<>>} :
                       Ran(Command(name, args, NoPipe), [World EXCEPT !.ok = found], out, 0)
                /\ Rest
    BY <1>3
  <2>2. \E w, out : Ran(Command(name, args, NoPipe), w, out, zero)
    BY <2>1
  <2>3. PICK w, out : Ran(Command(name, args, NoPipe), w, out, zero)
    BY <2>2
  <2> DEFINE command == Command(name, args, NoPipe)
  <2>4. Fields([command EXCEPT !.out = out], name, args, NoPipe.text, out, no, no, zero)
    BY CommandFields, Zenon
  <2> HIDE DEF command, no, zero, none
  <2> QED BY <2>3, <2>4, SourceStays DEF command
<1> QED BY <1>1, <1>2, <1>3, Zenon DEF Defines

\* A command with a name of its own leaves it.
LEMMA PrintsName ==
    ASSUME NEW name, NEW args, NEW n, NEW types, NEW shown, Prints(name, args, n, types, shown)
    PROVE  /\ last'.name = name /\ last'.in = <<>>
           /\ \E w, out : Ran([Command(name, args, NoPipe) EXCEPT !.n = n], w, out, 0)
<1>1. \E w, out : Ran([Command(name, args, NoPipe) EXCEPT !.n = n], w, out, 0)
  BY Zenon DEF Prints
<1>2. PICK w, out : Ran([Command(name, args, NoPipe) EXCEPT !.n = n], w, out, 0)
  BY <1>1
<1> DEFINE command == [Command(name, args, NoPipe) EXCEPT !.n = n]
           no == FALSE
           zero == 0
<1>3. Fields([command EXCEPT !.out = out], name, args, NoPipe.text, out, no, no, n)
  BY CommandFields, Zenon
<1> HIDE DEF command, no, zero
<1>4. last'.name = name /\ last'.in = NoPipe.text
  BY <1>2, <1>3, RanLeaves DEF Fields, command
<1>5. NoPipe.text = <<>>
  BY DEF NoPipe
<1> QED BY <1>1, <1>4, <1>5

\* So does one that prints the address of what it makes.
LEMMA PrintsNewName ==
    ASSUME NEW name, NEW args, NEW in, NEW item, NEW rest, NEW rcode,
           PrintsNew(Command(name, args, in), item, rest, rcode)
    PROVE  last'.name = name
<1> DEFINE command == Command(name, args, in)
           out == Line(<<Address(New(World))>>) \o rest
           w == Made(World, item)
           no == FALSE
           zero == 0
<1>1. Ran(command, w, out, rcode)
  BY DEF PrintsNew
<1> HIDE DEF out, w
<1>2. Fields([command EXCEPT !.out = out], name, args, in.text, out, no, no, zero)
  BY CommandFields, Zenon
<1> HIDE DEF command, no, zero
<1> QED BY <1>1, <1>2, RanLeaves DEF Fields

\* And one that is run without options.
LEMMA RanName ==
    ASSUME NEW name, NEW args, NEW in, NEW w, NEW out, NEW rcode,
           Ran(Command(name, args, in), w, out, rcode)
    PROVE  last'.name = name
<1> DEFINE command == Command(name, args, in)
           no == FALSE
           zero == 0
<1>1. Fields([command EXCEPT !.out = out], name, args, in.text, out, no, no, zero)
  BY CommandFields, Zenon
<1> HIDE DEF no, zero
<1>2. last' = [command EXCEPT !.out = out]
  BY RanLeaves
<1> HIDE DEF command
<1> QED BY <1>1, <1>2 DEF Fields

\* Or with -local.
LEMMA RanLocalName ==
    ASSUME NEW name, NEW args, NEW in, NEW local, NEW w, NEW out, NEW rcode,
           Ran(Local(Command(name, args, in), local), w, out, rcode)
    PROVE  last'.name = name
<1> DEFINE command == Local(Command(name, args, in), local)
           no == FALSE
           zero == 0
<1>1. Fields([command EXCEPT !.out = out], name, args, in.text, out, local, no, zero)
  BY CommandFields, Zenon
<1> HIDE DEF no, zero
<1>2. last' = [command EXCEPT !.out = out]
  BY RanLeaves
<1> HIDE DEF command
<1> QED BY <1>1, <1>2 DEF Fields

\* alias.
LEMMA AliasReadBack ==
    ASSUME TypedNow, cmd_alias
    PROVE  SourceRead("alias", "alias")' /\ last'.name = "alias"
<1> DEFINE name == "alias"
           none == <<>>
           no == FALSE
           zero == 0
<1>1. CASE \E args \in Arguments, source \in Sources, local \in BOOLEAN :
            /\ Len(args) = 1
            /\ Ran(Local(Command("alias", args, NoPipe), local),
                   BindNew(World, args[1], [type |-> "alias", value |-> source], local), <<>>, 0)
            /\ Rest
  <2>1. \E args, local, w : Ran(Local(Command(name, args, NoPipe), local), w, none, zero)
    BY <1>1, Zenon
  <2>2. PICK args, local, w : Ran(Local(Command(name, args, NoPipe), local), w, none, zero)
    BY <2>1
  <2> DEFINE command == Local(Command(name, args, NoPipe), local)
  <2> HIDE DEF name, none, zero
  <2>3. Fields([command EXCEPT !.out = none], name, args, NoPipe.text, none, local, no, 0)
    BY CommandFields, Zenon
  <2>4. Ran(command, w, none, zero)
    BY <2>2
  <2> HIDE DEF command, no
  <2>5. SourceRead(name, name)' /\ last'.name = name
    BY <2>3, <2>4, SourceStays
  <2> QED BY <2>5 DEF name
<1>2. CASE \E args \in Arguments, in \in Filters, local, survives \in BOOLEAN :
            /\ Len(args) = 1
            /\ LET w == IF in.text \in Unparsable THEN [World EXCEPT !.ok = FALSE]
                        ELSE BindNew(World, args[1], [type |-> "alias", value |-> in.text], local)
               IN  /\ Ran(Local(Command("alias", args, in), local), w, <<>>, 0)
                   /\ w.ok \/ survives
            /\ alive' = survives
            /\ UNCHANGED <<current, environ, gObjectsInPipe, blocks>>
  <2>1. PICK args \in Arguments, in \in Filters, local, survives \in BOOLEAN :
            /\ Len(args) = 1
            /\ LET w == IF in.text \in Unparsable THEN [World EXCEPT !.ok = FALSE]
                        ELSE BindNew(World, args[1], [type |-> "alias", value |-> in.text], local)
               IN  /\ Ran(Local(Command("alias", args, in), local), w, <<>>, 0)
                   /\ w.ok \/ survives
            /\ alive' = survives
            /\ UNCHANGED <<current, environ, gObjectsInPipe, blocks>>
    BY <1>2
  <2> DEFINE command == Local(Command(name, args, in), local)
             w == IF in.text \in Unparsable THEN [World EXCEPT !.ok = FALSE]
                  ELSE BindNew(World, args[1], [type |-> name, value |-> in.text], local)
  <2>2. name # "object" /\ \A s \in Texts : Joins(World, [type |-> name, value |-> s])
    BY ValueJoins
  <2>3. Ran(command, w, none, zero) /\ current' = current /\ Len(args) = 1
    BY <2>1
  <2> HIDE DEF name, none, zero
  <2>4. Fields([command EXCEPT !.out = none], name, args, in.text, none, local, no, 0)
    BY CommandFields, Zenon
  <2> HIDE DEF command, no
  <2>5. SourceRead(name, name)' /\ last'.name = name
    BY <2>2, <2>3, <2>4, SourceReads
  <2> QED BY <2>5 DEF name
<1>3. CASE \E args \in Arguments :
            Len(args) = 1 /\ Prints("alias", args, 0, {"alias"},
                                    [o \in DOMAIN heap |-> Line(heap[o].value)])
  <2>1. last'.name = name /\ last'.in = <<>>
    BY <1>3, PrintsName, Zenon
  <2> QED BY <2>1 DEF SourceRead
<1> QED BY <1>1, <1>2, <1>3 DEF cmd_alias

\* "| var" with names.
LEMMA VarReads ==
    ASSUME TypedNow, NEW name, NEW args \in Arguments, NEW in \in Filters, NEW local \in BOOLEAN,
           NEW shift \in BOOLEAN, NEW lines, lines = LinesOf(in.text),
           NEW w, w = VarsBound(World, args, lines, local), NEW out,
           w.ok => out = Passed(shift, lines, Len(args) + 1),
           Ran(Shift(Local(Command(name, args, in), local), shift), w, out, ReadCode(in)),
           current' = current
    PROVE  /\ last'.name = name /\ RestOf(name)'
           /\ (returned => \A n \in DOMAIN last.args :
                  Reads(n, [type |-> "var", value |->
                      IF n <= Len(LinesOf(last.in)) THEN LinesOf(last.in)[n] ELSE <<>>]))'
<1> DEFINE command == Shift(Local(Command(name, args, in), local), shift)
           zero == 0
<1>1. lines \in Seq(ALine) /\ args \in Seq(Names) /\ World \in Fine
  BY FilterIs, ArgsAre, WorldNow
<1>2. w \in Fine /\ Grown(World, w)
  BY <1>1, VarsGrown
<1>3. Ran(command, w, out, ReadCode(in))
  OBVIOUS
<1>4. Fields([command EXCEPT !.out = out], name, args, in.text, out, local, shift, zero)
  BY CommandFields, Zenon
<1> HIDE DEF command, zero
<1>5. /\ last'.name = name /\ last'.in = in.text /\ last'.args = args /\ last'.local = local
      /\ last'.shift = shift /\ last'.out = out
  BY <1>3, <1>4, RanLeaves DEF Fields
<1>6. ASSUME returned' PROVE w.ok /\ World' = w
  BY <1>2, <1>3, <1>6, AfterRan
<1>7. ASSUME returned', NEW n \in DOMAIN args
      PROVE  Reads(n, [type |-> "var", value |->
                 IF n <= Len(LinesOf(last.in)) THEN LinesOf(last.in)[n] ELSE <<>>])'
  <2> DEFINE x == VarOf(lines, n)
             a == args[n]
  <2>1. /\ Hidden(n)' <=> (OverIn(args, n) \/ ~ReadableIn(w, a, local))
        /\ Find(last.args[n])' = get_object_from_argument(w, a)
        /\ Held(last.args[n])' = w.heap[get_object_from_argument(w, a).object]
    BY <1>5, <1>6, <1>7, ReadsAfter
  <2>2. n \in 1..Len(args)
    BY <1>1, <1>7
  <2>3. ASSUME ~OverIn(args, n), ReadableIn(w, a, local)
        PROVE  get_object_from_argument(w, a).ok
               /\ w.heap[get_object_from_argument(w, a).object] = x
    <3>1. PICK object : SeenAt(w, a, object, x)
      BY <1>1, <1>6, <1>7, <2>2, <2>3, VarsFound
    <3>2. x.type # "object"
      BY DEF VarOf
    <3> HIDE DEF x
    <3>3. get_object_from_argument(w, a) = [ok |-> TRUE, object |-> object]
          /\ w.heap[object] = x
      BY <3>1, <3>2 DEF SeenAt, Finding
    <3> QED BY <3>3
  <2>4. x = [type |-> "var", value |-> IF n <= Len(lines) THEN lines[n] ELSE <<>>]
    BY Zenon DEF VarOf, LineOr
  <2> HIDE DEF x
  <2>5. LinesOf(last.in)' = lines
    BY <1>5
  <2>6. Hidden(n)' \/ (Find(last.args[n]).ok' /\ Held(last.args[n])' = x)
    BY <2>1, <2>3
  <2> QED BY <2>4, <2>5, <2>6, Zenon DEF Reads
<1>8. ASSUME returned', shift
      PROVE  LinesOf(out) = From(lines, Shorter(lines, args) + 1)
  <2>1. out = Passed(shift, lines, Len(args) + 1)
    BY <1>6, <1>8
  <2> QED BY <1>1, <1>8, <2>1, PassedRead
<1>9. RestOf(name)'
  BY <1>5, <1>8, Zenon DEF RestOf, Succeeded
<1> QED BY <1>5, <1>7, <1>9, Zenon

\* "| var -new".
LEMMA NewReads ==
    ASSUME TypedNow, NEW name, NEW in \in Filters, NEW shift \in BOOLEAN,
           NEW lines, lines = LinesOf(in.text),
           NEW item, item = [type |-> "var", value |-> IF lines = <<>> THEN <<>> ELSE lines[1]],
           PrintsNew(Shift(Command(name, <<>>, in), shift), item, Passed(shift, lines, 2),
                     ReadCode(in))
    PROVE  /\ last'.name = name
           /\ (returned /\ last.shift =>
                  LinesOf(last.in) = <<>>
                  \/ <<heap[Len(heap)].value>> \o Tail(LinesOf(last.out)) = LinesOf(last.in))'
<1> DEFINE none == <<>>
           command == Shift(Command(name, none, in), shift)
           l == <<Address(New(World))>>
           out == Line(l) \o Passed(shift, lines, 2)
           w == Made(World, item)
           no == FALSE
           zero == 0
<1>1. Ran(command, w, out, ReadCode(in))
  BY DEF PrintsNew
<1>2. lines \in Seq(ALine) /\ World \in Fine /\ World.ok
  BY FilterIs, WorldNow
<1>3. Joins(World, item)
  <2> DEFINE A == ALine
             e == <<>>
             line == IF lines = <<>> THEN <<>> ELSE lines[1]
  <2>1. lines \in Seq(A) /\ e \in A
    BY <1>2, NoText
  <2> HIDE DEF A
  <2>2. lines # <<>> => lines[1] \in A
    BY <2>1
  <2>3. line \in ALine
    BY <2>1, <2>2 DEF A
  <2>4. item = [type |-> "var", value |-> line]
    OBVIOUS
  <2> HIDE DEF line
  <2> QED BY <2>3, <2>4, ValueJoins
<1>4. /\ Len(w.heap) = New(World) /\ w.heap[New(World)] = item
  BY <1>2, <1>3, MadeIs
<1>5. l \in ALine
  <2>1. Len(w.heap) <= MaxObjects
    BY <1>1 DEF Ran
  <2>2. New(World) \in Nat /\ New(World) >= 1
    BY WorldNow DEF New
  <2>3. New(World) \in 1..MaxObjects
    <3> HIDE DEF w
    <3> QED BY <1>4, <2>1, <2>2, BoundsAssumption
  <2>4. Address(New(World)) \in Words \ {End}
    BY <2>3, AddressAssumption
  <2> QED BY <2>4 DEF ALine
<1> HIDE DEF w, l, none
<1>6. Fields([command EXCEPT !.out = out], name, none, in.text, out, no, shift, zero)
  BY CommandFields, Zenon
<1> HIDE DEF no, zero
<1>7. /\ last'.name = name /\ last'.in = in.text /\ last'.shift = shift /\ last'.out = out
      /\ heap' = w.heap
  <2> HIDE DEF command, out
  <2> QED BY <1>1, <1>6, RanLeaves DEF Fields
<1>8. heap'[Len(heap')] = item
  BY <1>4, <1>7
<1>9. lines # <<>> => heap'[Len(heap')].value = lines[1]
  BY <1>8
<1>10. ASSUME shift, lines # <<>> PROVE <<lines[1]>> \o Tail(LinesOf(out)) = lines
  <2>1. out = Line(l) \o Text(From(lines, 2))
    BY <1>10 DEF Passed
  <2> HIDE DEF out
  <2> QED BY <1>2, <1>5, <1>10, <2>1, NewPassedRead
<1> HIDE DEF out
<1> QED BY <1>7, <1>9, <1>10, Zenon

\* The addresses a pipe may hold.
AddressIn(pipe, line) ==
    IF \E o \in pipe : line = <<Address(o)>> THEN CHOOSE o \in pipe : line = <<Address(o)>>
    ELSE NULL

\* A command that leaves them alone leaves what the lines are addresses of.
LEMMA AddressStays ==
    ASSUME gObjectsInPipe' = gObjectsInPipe, NEW line
    PROVE  AddressOf(line)' = AddressOf(line)
<1>1. AddressOf(line) = AddressIn(gObjectsInPipe, line)
  BY DEF AddressOf, AddressIn
<1>2. AddressOf(line)' = AddressIn(gObjectsInPipe', line)
  BY DEF AddressOf, AddressIn
<1>3. gObjectsInPipe' = gObjectsInPipe
  OBVIOUS
<1> QED BY <1>1, <1>2, <1>3, Zenon

\* "| ref".
LEMMA RefReads ==
    ASSUME TypedNow, NEW name, NEW args \in Arguments, NEW in \in Filters, NEW local \in BOOLEAN,
           NEW shift \in BOOLEAN, NEW lines, lines = LinesOf(in.text),
           NEW w, w = RefsBound(World, args, lines, local), NEW out,
           Ran(Shift(Local(Command(name, args, in), local), shift), w, out, ReadCode(in)),
           current' = current, gObjectsInPipe' = gObjectsInPipe
    PROVE  /\ last'.name = name
           /\ (returned => \A n \in 1..Shorter(LinesOf(last.in), last.args) :
                  Hidden(n) \/ Find(last.args[n]) =
                               [ok |-> TRUE, object |-> AddressOf(LinesOf(last.in)[n])])'
<1> DEFINE command == Shift(Local(Command(name, args, in), local), shift)
           zero == 0
<1>1. lines \in Seq(ALine) /\ args \in Seq(Names) /\ World \in Piping
  BY FilterIs, ArgsAre, WorldNow
<1>2. w \in Fine /\ Grown(World, w)
  BY <1>1, RefsGrown
<1>3. Ran(command, w, out, ReadCode(in))
  OBVIOUS
<1>4. Fields([command EXCEPT !.out = out], name, args, in.text, out, local, shift, zero)
  BY CommandFields, Zenon
<1> HIDE DEF command, zero
<1>5. last'.name = name /\ last'.in = in.text /\ last'.args = args /\ last'.local = local
  BY <1>3, <1>4, RanLeaves DEF Fields
<1>6. ASSUME returned' PROVE w.ok /\ World' = w
  BY <1>2, <1>3, <1>6, AfterRan
<1>7. ASSUME returned', NEW n \in 1..Shorter(lines, args)
      PROVE  (Hidden(n) \/ Find(last.args[n]) =
                           [ok |-> TRUE, object |-> AddressOf(LinesOf(last.in)[n])])'
  <2> DEFINE a == args[n]
             o == AddressOf(lines[n])
  <2>1. /\ Hidden(n)' <=> (OverIn(args, n) \/ ~ReadableIn(w, a, local))
        /\ Find(last.args[n])' = get_object_from_argument(w, a)
    BY <1>5, <1>6, <1>7, ReadsAfter
  <2>2. ASSUME ~OverIn(args, n), ReadableIn(w, a, local) PROVE Finding(w, a, o)
    BY <1>1, <1>6, <1>7, <2>2, RefsFound
  <2>3. LinesOf(last.in)' = lines
    BY <1>5
  <2>4. AddressOf(LinesOf(last.in)[n])' = o
    <3>1. AddressOf(lines[n])' = o
      BY AddressStays
    <3>2. AddressOf(LinesOf(last.in)[n])' = AddressOf(lines[n])'
      BY <2>3, Zenon DEF AddressOf
    <3> QED BY <3>1, <3>2
  <2> HIDE DEF o, a
  <2> QED BY <2>1, <2>2, <2>4, Zenon DEF Finding
<1> QED BY <1>5, <1>7, Zenon

\* "| export".
LEMMA ExportReads ==
    ASSUME TypedNow, NEW name, NEW args \in Arguments, NEW in \in Filters, NEW shift \in BOOLEAN,
           NEW lines, lines = LinesOf(in.text), NEW out, out = Passed(shift, lines, Len(args) + 1),
           Ran(Shift(Command(name, args, in), shift), World, out, ReadCode(in)),
           environ' = SetAll(environ, args, lines)
    PROVE  /\ last'.name = name /\ RestOf(name)'
           /\ (\A n \in DOMAIN last.args :
                  \/ \E m \in DOMAIN last.args : m > n /\ last.args[m] = last.args[n]
                  \/ /\ last.args[n] \in DOMAIN environ <=> Exported(last.args[n])
                     /\ Exported(last.args[n]) => environ[last.args[n]] =
                           IF n <= Len(LinesOf(last.in)) THEN LinesOf(last.in)[n] ELSE <<>>)'
<1> DEFINE command == Shift(Command(name, args, in), shift)
           no == FALSE
           zero == 0
           e == SetAll(environ, args, lines)
<1>1. lines \in Seq(ALine) /\ args \in Seq(Names) /\ environ \in Environs
  BY FilterIs, ArgsAre DEF TypedNow
<1>2. DOMAIN args = 1..Len(args)
  BY <1>1
<1>3. Fields([command EXCEPT !.out = out], name, args, in.text, out, no, shift, zero)
  BY CommandFields, Zenon
<1>4. Ran(command, World, out, ReadCode(in)) /\ environ' = e
  OBVIOUS
<1> HIDE DEF command, no, zero
<1>5. /\ last'.name = name /\ last'.in = in.text /\ last'.args = args
      /\ last'.shift = shift /\ last'.out = out
  BY <1>3, <1>4, RanLeaves DEF Fields
<1>6. ASSUME NEW n \in DOMAIN args, \A m \in DOMAIN args : m > n => args[m] # args[n]
      PROVE  /\ args[n] \in DOMAIN e <=> Exported(args[n])
             /\ Exported(args[n]) => e[args[n]] = LineOr(lines, n)
  <2>1. n \in 1..Len(args) /\ \A m \in 1..Len(args) : m > n => args[m] # args[n]
    BY <1>2, <1>6
  <2> QED BY <1>1, <2>1, SetFound
<1>7. shift => LinesOf(out) = From(lines, Shorter(lines, args) + 1)
  BY <1>1, PassedRead
<1>8. RestOf(name)'
  BY <1>5, <1>7, Zenon DEF RestOf, Succeeded
<1> HIDE DEF e
<1> QED BY <1>4, <1>5, <1>6, <1>8, Zenon DEF LineOr, Exported

\* "defined".
LEMMA DefinedReads ==
    ASSUME TypedNow, NEW args \in Arguments,
           Ran(Command("defined", args, NoPipe), World, <<>>,
               IF \A argument \in ToSet(args) : Left(World, argument) THEN 0 ELSE RCODE_NFUN_FALSE),
           current' = current
    PROVE  DefinedIfFound' /\ last'.name = "defined"
<1> DEFINE name == "defined"
           w == World
           none == <<>>
           no == FALSE
           zero == 0
           all == \A argument \in ToSet(args) : Left(w, argument)
           rcode == IF all THEN zero ELSE RCODE_NFUN_FALSE
           command == Command(name, args, NoPipe)
<1>1. w \in Fine /\ w.ok /\ w.current = current /\ \A a \in ToSet(args) : a \in Names
  <2>1. \A a \in ToSet(args) : a \in Names
    BY ArgumentsAre
  <2> QED BY <2>1, WorldNow
<1>2. Ran(command, w, none, rcode)
  OBVIOUS
<1>3. Fields([command EXCEPT !.out = none], name, args, NoPipe.text, none, no, no, zero)
  BY CommandFields, Zenon
<1>4. (rcode = 0) <=> all
  BY DEF RCODE_NFUN_FALSE
<1> HIDE DEF command, none, no, zero, rcode
<1>5. last'.name = name /\ last'.args = args /\ heap' = w.heap /\ locals' = w.locals
      /\ mRCode' = rcode
  BY <1>1, <1>2, <1>3, RanLeaves DEF Fields
<1> HIDE DEF w
<1>6. World' = w
  <2>1. locals' = w.locals /\ current' = w.current /\ heap' = w.heap
    BY <1>1, <1>5
  <2> QED BY <1>1, <2>1, WorldAfter
<1>7. \A a \in ToSet(args) : get_object_from_argument(w, a).ok => Left(w, a)
  <2>1. ASSUME NEW a \in ToSet(args), get_object_from_argument(w, a).ok PROVE Left(w, a)
    <3>1. get_object_from_argument(w, a).object \in DOMAIN w.heap
      BY <1>1, <2>1, FoundIs
    <3>2. NULL \notin DOMAIN w.heap
      BY <1>1, WorldIs DEF NULL
    <3> QED BY <3>1, <3>2 DEF Left
  <2> QED BY <2>1
<1>8. \A a \in ToSet(args) : Left(w, a) /\ Prefix(w, a).ok => get_object_from_argument(w, a).ok
  <2>1. ASSUME NEW a \in ToSet(args), Left(w, a), Prefix(w, a).ok
        PROVE  get_object_from_argument(w, a).ok
    <3> DEFINE item == IF Prefix(w, a).first THEN access_object(w, <<Last(a)>>)
                       ELSE uobject_item(w, Prefix(w, a).object, <<Last(a)>>)
               x == get_object_from_argument(w, a)
               b == item # NULL
    <3>1. x = [ok |-> b, object |-> item]
      BY <1>1, <2>1, FindIs
    <3>2. x.object # NULL
      BY <2>1 DEF Left
    <3> HIDE DEF x, item, b
    <3>3. (x.ok <=> b) /\ x.object = item
      BY <3>1
    <3> QED BY <3>2, <3>3 DEF x, b
  <2> QED BY <2>1
<1>9. DefinedIfFound'
  <2>1. \A a : Find(a)' = get_object_from_argument(w, a)
    BY <1>6 DEF Find
  <2>2. \A a : Prefix(World, a)' = Prefix(w, a)
    BY <1>6
  <2>3. /\ (\A a \in ToSet(args) : get_object_from_argument(w, a).ok) => mRCode' = 0
        /\ mRCode' = 0 => \A a \in ToSet(args) :
               get_object_from_argument(w, a).ok \/ ~Prefix(w, a).ok
    BY <1>4, <1>5, <1>7, <1>8, Zenon
  <2> QED BY <1>5, <2>1, <2>2, <2>3, Zenon DEF DefinedIfFound
<1> QED BY <1>5, <1>9 DEF name

\* A new value of a list, read back: it is found where the list was found.
LEMMA ValueFound ==
    ASSUME NEW v \in Fine, NEW o \in DOMAIN v.heap, NEW type \in Lists, v.heap[o].type = type,
           NEW value \in Values(type), NEW w, w = PutValue(v, o, value),
           NEW argument \in Names
    PROVE  /\ w \in Fine /\ w.locals = v.locals /\ w.ok = v.ok
           /\ w.heap[o].value = value
           /\ get_object_from_argument(w, argument) = get_object_from_argument(v, argument)
           /\ FindsA(w, argument, type) => FindsA(v, argument, type)
<1> DEFINE x == get_object_from_argument(v, argument)
<1>1. /\ w \in Fine /\ w.ok = v.ok /\ w.current = v.current /\ w.locals = v.locals
      /\ \A p \in DOMAIN v.heap : p # o => w.heap[p] = v.heap[p]
      /\ w.heap[o].type = type /\ w.heap[o].value = value
  BY PutValueIs
<1>2. Alike(v, w) /\ \A J : Same(v, w, J)
  BY PutValueSame
<1>3. get_object_from_argument(w, argument) = x
  BY <1>1, <1>2, FoundSame
<1>4. x.ok => x.object \in DOMAIN v.heap
  BY FoundIs
<1> HIDE DEF x
<1>5. \A p \in DOMAIN v.heap : w.heap[p].type = v.heap[p].type
  BY <1>1
<1>6. FindsA(w, argument, type) => FindsA(v, argument, type)
  BY <1>3, <1>4, <1>5 DEF FindsA, x
<1> QED BY <1>1, <1>3, <1>6 DEF x

\* "| ary -insert".
LEMMA InsertReads ==
    ASSUME TypedNow, NEW name, NEW args \in Arguments, NEW in \in Filters, NEW local \in BOOLEAN,
           NEW n \in Int, NEW to, to = Growing(World, "array", args[1], local),
           NEW lines, lines = LinesOf(in.text),
           Grows([Local(Command(name, args, in), local) EXCEPT !.n = n], to,
                 Inserted(Holding(to), n, lines), in)
    PROVE  /\ last'.name = name
           /\ (returned /\ Readable(last.args[1])
               /\ (Len(last.args[1]) > 1 =>
                     Find(last.args[1]).ok /\ Held(last.args[1]).type = "array") =>
                  LET items == Held(last.args[1]).value
                      new == IF last.in = <<>> THEN << <<>> >> ELSE LinesOf(last.in)
                  IN  /\ last.n >= 0 /\ last.n <= Len(items) - Len(new) =>
                            Indexed(items, last.n) = Line(new[1])
                      /\ last.n < 0 /\ -last.n <= Len(items) - Len(new) + 1 =>
                            Indexed(items, last.n) = Line(Last(new)))'
<1> DEFINE type == "array"
           a == args[1]
           v == to.world
           o == to.object
           old == Holding(to)
           value == Inserted(old, n, lines)
           w == IF v.ok THEN PutValue(v, o, value) ELSE v
           command == [Local(Command(name, args, in), local) EXCEPT !.n = n]
           none == <<>>
           no == FALSE
<1>1. Ran(command, w, none, ReadCode(in)) /\ current' = current
  BY DEF Grows, Rest
<1>2. /\ lines \in Seq(ALine) /\ a \in Names /\ World \in Fine /\ World.ok
      /\ in.text \in Texts /\ World.current = current
  BY FilterIs, ArgsAre, WorldNow
<1>3. Fields([command EXCEPT !.out = none], name, args, in.text, none, local, no, n)
  BY CommandFields, Zenon
<1>4. type \in Lists /\ to = Growing(World, type, a, local) /\ type = "array"
  BY DEF Lists
<1> HIDE DEF type, a, w, command, none, no
<1>5. /\ last'.name = name /\ last'.in = in.text /\ last'.args = args /\ last'.local = local
      /\ last'.n = n
  BY <1>1, <1>3, RanLeaves DEF Fields
<1>6. /\ v \in Fine /\ Grown(World, v)
      /\ v.ok => o \in DOMAIN v.heap /\ v.heap[o].type = type
  BY <1>2, <1>4, GrowingIs
<1>7. ASSUME returned' PROVE v.ok /\ w = PutValue(v, o, value)
  <2>1. w.ok
    BY <1>1, <1>7, RanLeaves
  <2> QED BY <2>1 DEF w
<1>8. v.ok => old \in Seq(ALine)
  BY <1>4, <1>6, HeapIs, KindIs DEF Holding
<1> HIDE DEF v, o, old, value
<1>9. ASSUME returned'
      PROVE  /\ value \in Values(type) /\ old \in Seq(ALine)
             /\ w \in Fine /\ w.locals = v.locals /\ w.ok /\ w.heap[o].value = value
             /\ get_object_from_argument(w, a) = get_object_from_argument(v, a)
             /\ FindsA(w, a, type) => FindsA(v, a, type)
  <2>1. old \in Seq(ALine) /\ v.ok
    BY <1>7, <1>8, <1>9
  <2>2. value \in Seq(ALine)
    BY <1>2, <2>1, InsertedIs DEF value
  <2>3. value \in Values(type)
    BY <1>4, <2>2 DEF Values
  <2> QED BY <1>2, <1>4, <1>6, <1>7, <1>9, <2>1, <2>3, ValueFound
<1>10. ASSUME returned' PROVE World' = w
  <2>1. heap' = w.heap /\ locals' = w.locals
    BY <1>1, RanLeaves
  <2>2. v.current = current
    BY <1>2, <1>6 DEF Grown
  <2>3. w.current = v.current
    BY <1>4, <1>6, <1>7, <1>9, <1>10, PutValueIs
  <2> QED BY <1>1, <1>9, <1>10, <2>1, <2>2, <2>3, WorldAfter
<1>11. ASSUME returned', Readable(last.args[1])',
              (Len(last.args[1]) > 1 => Find(last.args[1]).ok /\ Held(last.args[1]).type = "array")'
       PROVE  Held(last.args[1])'.value = value
  <2>1. /\ Readable(last.args[1])' <=> ReadableIn(w, a, local)
        /\ Find(last.args[1])' = get_object_from_argument(w, a)
        /\ Held(last.args[1])' = w.heap[get_object_from_argument(w, a).object]
    <3>1. last'.args[1] = a
      BY <1>5 DEF a
    <3>2. /\ \A b : Readable(b)' <=> ReadableIn(w, b, local)
          /\ Find(last.args[1])' = get_object_from_argument(w, a)
          /\ Held(last.args[1])' = w.heap[get_object_from_argument(w, a).object]
      BY <1>5, <1>10, <1>11, ReadsAfter DEF a
    <3>3. Readable(last.args[1])' <=> Readable(a)'
      BY <3>1 DEF Readable, Shadowed
    <3> QED BY <3>2, <3>3
  <2>2. ReadableIn(v, a, local)
    <3>1. ReadableIn(w, a, local) /\ w.locals = v.locals
      BY <1>9, <1>11, <2>1
    <3> QED BY <3>1 DEF ReadableIn
  <2>3. Len(a) # 1 => FindsA(v, a, type)
    <3>1. Len(a) \in Nat \ {0}
      <4> DEFINE W == Words
      <4>1. a \in Seq(W) /\ a # <<>>
        BY <1>2 DEF Names
      <4> HIDE DEF W
      <4> QED BY <4>1
    <3>2. last'.args[1] = a
      BY <1>5 DEF a
    <3>3. Len(a) > 1 => FindsA(w, a, type)
      BY <1>4, <1>11, <2>1, <3>2, Zenon DEF FindsA
    <3>4. Len(a) # 1 => Len(a) > 1
      <4> DEFINE k == Len(a)
      <4>1. k \in Nat \ {0}
        BY <3>1
      <4> HIDE DEF k
      <4>2. k # 1 => k > 1
        BY <4>1
      <4> QED BY <4>2 DEF k
    <3> QED BY <1>9, <1>11, <3>3, <3>4
  <2>4. Finding(v, a, o)
    <3>1. v.ok
      BY <1>7, <1>11
    <3> QED BY <1>2, <1>4, <2>2, <2>3, <3>1, GrowingFound DEF v, o
  <2>5. get_object_from_argument(w, a).object = o
    <3>1. get_object_from_argument(w, a) = [ok |-> TRUE, object |-> o]
      BY <1>9, <1>11, <2>4 DEF Finding
    <3> QED BY <3>1
  <2> QED BY <1>9, <1>11, <2>1, <2>5
<1>12. ASSUME returned'
       PROVE  InsertIsRead(value, n, IF in.text = <<>> THEN << <<>> >> ELSE lines)
  <2>1. lines = <<>> <=> in.text = <<>>
    BY <1>2, SomeLine
  <2> DEFINE new == IF lines = <<>> THEN << <<>> >> ELSE lines
             more == IF in.text = <<>> THEN << <<>> >> ELSE lines
  <2>2. more = new
    BY <2>1
  <2>3. old \in Seq(ALine) /\ value = Inserted(old, n, lines)
    BY <1>9, <1>12 DEF value
  <2>4. new = IF lines = <<>> THEN << <<>> >> ELSE lines
    OBVIOUS
  <2> HIDE DEF new, more
  <2>5. InsertIsRead(value, n, new)
    BY <1>2, <2>3, <2>4, InsertedRead
  <2> QED BY <2>2, <2>5 DEF more
<1> QED BY <1>5, <1>11, <1>12, Zenon DEF InsertIsRead
-----------------------------------------------------------------------------
(* What each command leaves can be read back.                              *)

\* var.
LEMMA VarShows ==
    ASSUME TypedNow, cmd_var
    PROVE  ReadBack'
<1>1. CASE \E args \in Arguments :
            Prints("var", args, 0, {"var"}, [o \in DOMAIN heap |-> Line(heap[o].value)])
  <2>1. last'.name = "var"
    BY <1>1, PrintsName, Zenon
  <2>2. "var" \notin Readers
    BY Zenon DEF Readers
  <2> QED BY <2>1, <2>2, OthersRead, Zenon
<1>2. CASE \E args \in Arguments, in \in Filters, local, shift \in BOOLEAN :
            LET lines == LinesOf(in.text)
                w == VarsBound(World, args, lines, local)
            IN  /\ Ran(Shift(Local(Command("| var", args, in), local), shift), w,
                       IF w.ok THEN Passed(shift, lines, Len(args) + 1) ELSE <<>>, ReadCode(in))
                /\ Rest
  <2> DEFINE name == "| var"
  <2>1. PICK args \in Arguments, in \in Filters, local, shift \in BOOLEAN :
            LET lines == LinesOf(in.text)
                w == VarsBound(World, args, lines, local)
            IN  /\ Ran(Shift(Local(Command(name, args, in), local), shift), w,
                       IF w.ok THEN Passed(shift, lines, Len(args) + 1) ELSE <<>>, ReadCode(in))
                /\ Rest
    BY <1>2, Zenon
  <2> DEFINE lines == LinesOf(in.text)
             w == VarsBound(World, args, lines, local)
             out == IF w.ok THEN Passed(shift, lines, Len(args) + 1) ELSE <<>>
  <2> HIDE DEF name
  <2>2. /\ Ran(Shift(Local(Command(name, args, in), local), shift), w, out, ReadCode(in))
        /\ current' = current
    BY <2>1 DEF Rest
  <2>3. /\ lines = LinesOf(in.text) /\ w = VarsBound(World, args, lines, local)
        /\ w.ok => out = Passed(shift, lines, Len(args) + 1)
    OBVIOUS
  <2> HIDE DEF lines, w, out
  <2>4. /\ last'.name = name /\ RestOf(name)'
        /\ (returned => \A n \in DOMAIN last.args :
               Reads(n, [type |-> "var", value |->
                   IF n <= Len(LinesOf(last.in)) THEN LinesOf(last.in)[n] ELSE <<>>]))'
    BY <2>2, <2>3, VarReads
  <2>5. VarRead' /\ RestOf("| var")' /\ last'.name = "| var"
    BY <2>4, Zenon DEF VarRead, Succeeded, name
  <2> QED BY <2>5, PartsApart, Zenon DEF ReadBack
<1>3. CASE \E in \in Filters, shift \in BOOLEAN :
            LET lines == LinesOf(in.text)
            IN  PrintsNew(Shift(Command("| var -new", <<>>, in), shift),
                          [type |-> "var", value |-> IF lines = <<>> THEN <<>> ELSE lines[1]],
                          Passed(shift, lines, 2), ReadCode(in))
  <2> DEFINE name == "| var -new"
  <2>1. PICK in \in Filters, shift \in BOOLEAN :
            LET lines == LinesOf(in.text)
            IN  PrintsNew(Shift(Command(name, <<>>, in), shift),
                          [type |-> "var", value |-> IF lines = <<>> THEN <<>> ELSE lines[1]],
                          Passed(shift, lines, 2), ReadCode(in))
    BY <1>3, Zenon
  <2> DEFINE lines == LinesOf(in.text)
             item == [type |-> "var", value |-> IF lines = <<>> THEN <<>> ELSE lines[1]]
  <2> HIDE DEF name
  <2>2. PrintsNew(Shift(Command(name, <<>>, in), shift), item, Passed(shift, lines, 2),
                  ReadCode(in))
    BY <2>1
  <2>3. lines = LinesOf(in.text)
        /\ item = [type |-> "var", value |-> IF lines = <<>> THEN <<>> ELSE lines[1]]
    OBVIOUS
  <2> HIDE DEF lines, item
  <2>4. /\ last'.name = name
        /\ (returned /\ last.shift =>
               LinesOf(last.in) = <<>>
               \/ <<heap[Len(heap)].value>> \o Tail(LinesOf(last.out)) = LinesOf(last.in))'
    BY <2>2, <2>3, NewReads
  <2>5. NewRest' /\ last'.name = "| var -new"
    BY <2>4, Zenon DEF NewRest, Succeeded, name
  <2> QED BY <2>5, PartsApart, Zenon DEF ReadBack
<1> QED BY <1>1, <1>2, <1>3, Zenon DEF cmd_var

\* ary.
LEMMA AryShows ==
    ASSUME TypedNow, cmd_ary
    PROVE  ReadBack'
<1>1. CASE \E args \in Arguments :
            Prints("ary -size", args, 0, {"array"},
                   [o \in DOMAIN heap |-> Decimal(Len(heap[o].value))])
  <2>1. last'.name = "ary -size"
    BY <1>1, PrintsName, Zenon
  <2>2. "ary -size" \notin Readers
    BY Zenon DEF Readers
  <2> QED BY <2>1, <2>2, OthersRead, Zenon
<1>2. CASE \E args \in Arguments, n \in Indexes :
            Prints("ary -index", args, n, {"array"},
                   [o \in DOMAIN heap |-> Indexed(heap[o].value, n)])
  <2>1. last'.name = "ary -index"
    BY <1>2, PrintsName, Zenon
  <2>2. "ary -index" \notin Readers
    BY Zenon DEF Readers
  <2> QED BY <2>1, <2>2, OthersRead, Zenon
<1>3. CASE \E args \in Arguments :
            Prints("ary", args, 0, {"array"}, [o \in DOMAIN heap |-> Text(heap[o].value)])
  <2>1. last'.name = "ary"
    BY <1>3, PrintsName, Zenon
  <2>2. "ary" \notin Readers
    BY Zenon DEF Readers
  <2> QED BY <2>1, <2>2, OthersRead, Zenon
<1>4. CASE \E in \in Filters :
            PrintsNew(Command("| ary -new", <<>>, in),
                      [type |-> "array", value |-> LinesOf(in.text)],
                      <<>>, ReadCode(in))
  <2>1. last'.name = "| ary -new"
    BY <1>4, PrintsNewName, Zenon
  <2>2. "| ary -new" \notin Readers
    BY Zenon DEF Readers
  <2> QED BY <2>1, <2>2, OthersRead, Zenon
<1>5. CASE \E args \in Arguments, in \in Filters, local \in BOOLEAN, n \in Indexes \cup {-1} :
            /\ Len(args) = 1
            /\ \E to \in {Growing(World, "array", args[1], local)} :
                  Grows([Local(Command("| ary -insert", args, in), local) EXCEPT !.n = n], to,
                        Inserted(Holding(to), n, LinesOf(in.text)), in)
  <2> DEFINE name == "| ary -insert"
             type == "array"
  <2>1. PICK args \in Arguments, in \in Filters, local \in BOOLEAN, n \in Indexes \cup {-1} :
            \E to \in {Growing(World, type, args[1], local)} :
                  Grows([Local(Command(name, args, in), local) EXCEPT !.n = n], to,
                        Inserted(Holding(to), n, LinesOf(in.text)), in)
    BY <1>5, Zenon
  <2> HIDE DEF name
  <2>2. PICK to \in {Growing(World, type, args[1], local)} :
            Grows([Local(Command(name, args, in), local) EXCEPT !.n = n], to,
                  Inserted(Holding(to), n, LinesOf(in.text)), in)
    BY <2>1, Zenon
  <2> DEFINE lines == LinesOf(in.text)
  <2>3. n \in Int
    BY ArgumentsAssumption
  <2>4. to = Growing(World, "array", args[1], local) /\ lines = LinesOf(in.text)
        /\ Grows([Local(Command(name, args, in), local) EXCEPT !.n = n], to,
                 Inserted(Holding(to), n, lines), in)
    BY <2>2
  <2> HIDE DEF lines
  <2>5. /\ last'.name = name
        /\ (returned /\ Readable(last.args[1])
            /\ (Len(last.args[1]) > 1 =>
                  Find(last.args[1]).ok /\ Held(last.args[1]).type = "array") =>
               LET items == Held(last.args[1]).value
                   new == IF last.in = <<>> THEN << <<>> >> ELSE LinesOf(last.in)
               IN  /\ last.n >= 0 /\ last.n <= Len(items) - Len(new) =>
                         Indexed(items, last.n) = Line(new[1])
                   /\ last.n < 0 /\ -last.n <= Len(items) - Len(new) + 1 =>
                         Indexed(items, last.n) = Line(Last(new)))'
    BY <2>3, <2>4, InsertReads
  <2>6. InsertRead' /\ last'.name = "| ary -insert"
    BY <2>5, Zenon DEF InsertRead, Succeeded, name
  <2> QED BY <2>6, PartsApart, Zenon DEF ReadBack
<1>6. CASE \E args \in Arguments, in \in Filters, local \in BOOLEAN :
            /\ Len(args) = 1
            /\ Ran(Local(Command("| ary", args, in), local),
                   BindNew(World, args[1], [type |-> "array", value |-> LinesOf(in.text)], local),
                   <<>>, ReadCode(in))
            /\ Rest
  BY <1>6, AryReadBack, Zenon DEF Rest
<1> QED BY <1>1, <1>2, <1>3, <1>4, <1>5, <1>6, Zenon DEF cmd_ary

\* hash.
LEMMA HashShows ==
    ASSUME TypedNow, cmd_hash
    PROVE  ReadBack'
<1>1. CASE \E args \in Arguments :
            Prints("hash -size", args, 0, {"hash"},
                   [o \in DOMAIN heap |-> Decimal(Len(heap[o].value))])
  <2>1. last'.name = "hash -size"
    BY <1>1, PrintsName, Zenon
  <2>2. "hash -size" \notin Readers
    BY Zenon DEF Readers
  <2> QED BY <2>1, <2>2, OthersRead, Zenon
<1>2. CASE \E args \in Arguments, key \in UNION {ToSet(LinesOf(t)) : t \in Inputs} :
            Prints("hash -key", args, 0, {"hash"}, [o \in DOMAIN heap |->
                   Line(IF Has(heap[o].value, key) THEN At(heap[o].value, key) ELSE <<>>)])
  <2>1. last'.name = "hash -key"
    BY <1>2, PrintsName, Zenon
  <2>2. "hash -key" \notin Readers
    BY Zenon DEF Readers
  <2> QED BY <2>1, <2>2, OthersRead, Zenon
<1>3. CASE \E args \in Arguments :
            Prints("hash", args, 0, {"hash"}, [o \in DOMAIN heap |-> PairsText(heap[o].value)])
  <2>1. last'.name = "hash"
    BY <1>3, PrintsName, Zenon
  <2>2. "hash" \notin Readers
    BY Zenon DEF Readers
  <2> QED BY <2>1, <2>2, OthersRead, Zenon
<1>4. CASE \E in \in Filters :
            PrintsNew(Command("| hash -new", <<>>, in),
                      [type |-> "hash", value |-> PairsPut(<<>>, LinesOf(in.text))], <<>>,
                        ReadCode(in))
  <2>1. last'.name = "| hash -new"
    BY <1>4, PrintsNewName, Zenon
  <2>2. "| hash -new" \notin Readers
    BY Zenon DEF Readers
  <2> QED BY <2>1, <2>2, OthersRead, Zenon
<1>5. CASE \E args \in Arguments, in \in Filters, local \in BOOLEAN :
            /\ Len(args) = 1
            /\ \E to \in {Growing(World, "hash", args[1], local)} :
                  Grows(Local(Command("| hash -append", args, in), local), to,
                        PairsPut(Holding(to), LinesOf(in.text)), in)
  <2>1. \E args, in, local, w, out, rcode :
            Ran(Local(Command("| hash -append", args, in), local), w, out, rcode)
    BY <1>5, Zenon DEF Grows
  <2>2. last'.name = "| hash -append"
    BY <2>1, RanLocalName, Zenon
  <2>3. "| hash -append" \notin Readers
    BY Zenon DEF Readers
  <2> QED BY <2>2, <2>3, OthersRead, Zenon
<1>6. CASE \E args \in Arguments, in \in Filters, local \in BOOLEAN :
            /\ Len(args) = 1
            /\ Ran(Local(Command("| hash", args, in), local),
                   BindNew(World, args[1],
                           [type |-> "hash", value |-> PairsPut(<<>>, LinesOf(in.text))], local),
                   <<>>, ReadCode(in))
            /\ Rest
  BY <1>6, HashReadBack, Zenon DEF Rest
<1> QED BY <1>1, <1>2, <1>3, <1>4, <1>5, <1>6, Zenon DEF cmd_hash

\* The name of a command that enters a block.
LEMMA EnteringName ==
    ASSUME NEW name, NEW args, NEW in, NEW local
    PROVE  /\ [Command(name, args, in) EXCEPT !.local = local].name = name
           /\ Command(name, args, in).name = name
<1> DEFINE c == Command(name, args, in)
           D == {"name", "args", "in", "out", "local", "shift", "n"}
<1>1. DOMAIN c = D /\ c.name = name
  BY DEF Command
<1> HIDE DEF c
<1> QED BY <1>1 DEF c

\* object and run.
LEMMA ObjectShows ==
    ASSUME TypedNow, cmd_object \/ cmd_mrun
    PROVE  ReadBack'
<1>1. cmd_object => last'.name \in {"object", "object -new", "object ("}
  <2>1. ASSUME NEW args \in Arguments, NEW local \in BOOLEAN,
               Ran(Local(Command("object", args, NoPipe), local),
                   ObjectsMade(World, args, local), <<>>, 0)
        PROVE  last'.name = "object"
    BY <2>1, RanLocalName, Zenon
  <2>2. ASSUME PrintsNew(Command("object -new", <<>>, NoPipe),
                         UserObject(New(World), current, <<"anonymous">>), <<>>, 0)
        PROVE  last'.name = "object -new"
    BY <2>2, PrintsNewName, Zenon
  <2> DEFINE name == "object ("
             c(args, local) == [Command(name, args, NoPipe) EXCEPT !.local = local]
  <2>3. ASSUME NEW args, NEW local, last' = c(args, local)
        PROVE  last'.name = name
    <3> HIDE DEF name
    <3>1. c(args, local).name = name
      BY EnteringName
    <3> HIDE DEF c
    <3> QED BY <2>3, <3>1
  <2>4. ASSUME last' = Command("object (", <<>>, NoPipe) PROVE last'.name = "object ("
    BY <2>4, EnteringName, Zenon
  <2> QED BY <2>1, <2>2, <2>3, <2>4, Zenon DEF cmd_object
<1>2. cmd_mrun => last'.name = "run"
  <2>1. ASSUME NEW argument, last' = Command("run", <<argument>>, NoPipe) PROVE last'.name = "run"
    BY <2>1, EnteringName, Zenon
  <2> QED BY <2>1, Zenon DEF cmd_mrun
<1>3. /\ "object" \notin Readers /\ "object -new" \notin Readers /\ "object (" \notin Readers
      /\ "run" \notin Readers
  BY Zenon DEF Readers
<1> QED BY <1>1, <1>2, <1>3, OthersRead, Zenon

\* The ends of blocks and of a command line.
LEMMA EndShows ==
    ASSUME BlockEnds \/ BlockFails \/ CommandLineEnds
    PROVE  ReadBack'
<1>1. last' = [name |-> ")"] \/ last' = [name |-> "none"]
  BY Zenon DEF BlockEnds, BlockFails, CommandLineEnds
<1>2. \A name : [name |-> name].name = name
  OBVIOUS
<1>3. ")" \notin Readers /\ "none" \notin Readers
  BY Zenon DEF Readers
<1> QED BY <1>1, <1>2, <1>3, OthersRead, Zenon

\* The commands that ask.
LEMMA AskingShows ==
    ASSUME TypedNow, cmd_defined \/ cmd_objinfo \/ cmd_typeof \/ cmd_mshow \/ cmd_pwo
    PROVE  ReadBack'
<1>1. CASE cmd_defined
  <2>1. PICK args \in Arguments :
            /\ Ran(Command("defined", args, NoPipe), World, <<>>,
                   IF \A argument \in ToSet(args) : Left(World, argument) THEN 0
                     ELSE RCODE_NFUN_FALSE)
            /\ Rest
    BY <1>1, Zenon DEF cmd_defined
  <2>2. DefinedIfFound' /\ last'.name = "defined"
    BY <2>1, DefinedReads, Zenon DEF Rest
  <2> QED BY <2>2, PartsApart, Zenon DEF ReadBack
<1>2. CASE cmd_objinfo \/ cmd_mshow \/ cmd_pwo
  <2>1. cmd_objinfo => last'.name = "objinfo"
    BY RanName, Zenon DEF cmd_objinfo
  <2>2. cmd_mshow => last'.name = "show"
    BY RanName, Zenon DEF cmd_mshow
  <2>3. cmd_pwo => last'.name = "pwo"
    BY RanName, Zenon DEF cmd_pwo
  <2>4. "objinfo" \notin Readers /\ "show" \notin Readers /\ "pwo" \notin Readers
    BY Zenon DEF Readers
  <2> QED BY <1>2, <2>1, <2>2, <2>3, <2>4, OthersRead, Zenon
<1>3. CASE cmd_typeof
  <2>1. last'.name = "typeof"
    BY <1>3, PrintsName, Zenon DEF cmd_typeof, PrintsKinds
  <2>2. "typeof" \notin Readers
    BY Zenon DEF Readers
  <2> QED BY <2>1, <2>2, OthersRead, Zenon
<1> QED BY <1>1, <1>2, <1>3, Zenon

\* def, class and alias.
LEMMA SourceShows ==
    ASSUME TypedNow, cmd_def \/ cmd_class \/ cmd_alias
    PROVE  ReadBack'
<1>1. \A s \in Texts : /\ Joins(World, [type |-> "function", value |-> s])
                       /\ Joins(World, [type |-> "class", value |-> s])
  BY ValueJoins, Zenon
<1>2. "function" # "object" /\ "class" # "object"
  BY Zenon
<1>3. CASE cmd_def
  <2>1. SourceRead("def", "function")' /\ last'.name = "def"
    BY <1>1, <1>2, <1>3, DefinesReadBack, Zenon DEF cmd_def
  <2> QED BY <2>1, PartsApart, Zenon DEF ReadBack
<1>4. CASE cmd_class
  <2>1. SourceRead("class", "class")' /\ last'.name = "class"
    BY <1>1, <1>2, <1>4, DefinesReadBack, Zenon DEF cmd_class
  <2> QED BY <2>1, PartsApart, Zenon DEF ReadBack
<1>5. CASE cmd_alias
  <2>1. SourceRead("alias", "alias")' /\ last'.name = "alias"
    BY <1>5, AliasReadBack, Zenon
  <2> QED BY <2>1, PartsApart, Zenon DEF ReadBack
<1> QED BY <1>3, <1>4, <1>5, Zenon

\* ref.
LEMMA RefShows ==
    ASSUME TypedNow, cmd_ref
    PROVE  ReadBack'
<1>1. CASE \E args \in Arguments :
            \E printed \in
                {Printed(World, args, Types, [o \in DOMAIN heap |-> Line(<<Address(o)>>)])} :
                /\ Ran(Command("ref", args, NoPipe),
                       [World EXCEPT !.ok = printed.ok], printed.out, 0)
                /\ gObjectsInPipe' = gObjectsInPipe \cup printed.of
                /\ UNCHANGED <<current, environ, blocks, alive>>
  <2>1. last'.name = "ref"
    BY <1>1, RanName, Zenon
  <2>2. "ref" \notin Readers
    BY Zenon DEF Readers
  <2> QED BY <2>1, <2>2, OthersRead, Zenon
<1>2. CASE PrintsKinds("ref -type")
  <2>1. last'.name = "ref -type"
    BY <1>2, PrintsName, Zenon DEF PrintsKinds
  <2>2. "ref -type" \notin Readers
    BY Zenon DEF Readers
  <2> QED BY <2>1, <2>2, OthersRead, Zenon
<1>3. CASE \E in \in Filters :
            LET named == [n \in DOMAIN LinesOf(in.text) |-> AddressOf(LinesOf(in.text)[n])]
                ok == \A n \in DOMAIN named : named[n] # NULL
            IN  /\ Ran(Command("| ref -type", <<>>, in), [World EXCEPT !.ok = ok],
                       FlattenSeq([n \in DOMAIN TakeWhileNot(named, NULL) |->
                                      Kind(heap[named[n]])]),
                       ReadCode(in))
                /\ Rest
  <2>1. last'.name = "| ref -type"
    BY <1>3, RanName, Zenon
  <2>2. "| ref -type" \notin Readers
    BY Zenon DEF Readers
  <2> QED BY <2>1, <2>2, OthersRead, Zenon
<1>4. CASE \E args \in Arguments, in \in Filters, local, shift \in BOOLEAN :
            LET lines == LinesOf(in.text)
                w == RefsBound(World, args, lines, local)
            IN  /\ Ran(Shift(Local(Command("| ref", args, in), local), shift), w,
                       IF w.ok /\ shift THEN FlattenSeq(From(lines, Shorter(lines, args) + 1))
                         ELSE <<>>,
                       ReadCode(in))
                /\ Rest
  <2> DEFINE name == "| ref"
  <2>1. PICK args \in Arguments, in \in Filters, local, shift \in BOOLEAN :
            LET lines == LinesOf(in.text)
                w == RefsBound(World, args, lines, local)
            IN  /\ Ran(Shift(Local(Command(name, args, in), local), shift), w,
                       IF w.ok /\ shift THEN FlattenSeq(From(lines, Shorter(lines, args) + 1))
                         ELSE <<>>,
                       ReadCode(in))
                /\ Rest
    BY <1>4, Zenon
  <2> DEFINE lines == LinesOf(in.text)
             w == RefsBound(World, args, lines, local)
             out == IF w.ok /\ shift THEN FlattenSeq(From(lines, Shorter(lines, args) + 1))
                    ELSE <<>>
  <2> HIDE DEF name
  <2>2. /\ Ran(Shift(Local(Command(name, args, in), local), shift), w, out, ReadCode(in))
        /\ current' = current /\ gObjectsInPipe' = gObjectsInPipe
        /\ lines = LinesOf(in.text) /\ w = RefsBound(World, args, lines, local)
    BY <2>1 DEF Rest
  <2> HIDE DEF lines, w, out
  <2>3. /\ last'.name = name
        /\ (returned => \A n \in 1..Shorter(LinesOf(last.in), last.args) :
               Hidden(n) \/ Find(last.args[n]) =
                            [ok |-> TRUE, object |-> AddressOf(LinesOf(last.in)[n])])'
    BY <2>2, RefReads
  <2>4. RefRead' /\ last'.name = "| ref"
    BY <2>3, Zenon DEF RefRead, Succeeded, name
  <2> QED BY <2>4, PartsApart, Zenon DEF ReadBack
<1> QED BY <1>1, <1>2, <1>3, <1>4, Zenon DEF cmd_ref

\* export and unset.
LEMMA EnvironShows ==
    ASSUME TypedNow, cmd_export \/ cmd_unset
    PROVE  ReadBack'
<1>1. CASE \E args \in Arguments :
            /\ Ran(Command("export", args, NoPipe), World,
                   FlattenSeq([n \in DOMAIN args |->
                       IF args[n] \in DOMAIN environ THEN Line(environ[args[n]]) ELSE <<>>]), 0)
            /\ Rest
  <2>1. last'.name = "export"
    BY <1>1, RanName, Zenon
  <2>2. "export" \notin Readers
    BY Zenon DEF Readers
  <2> QED BY <2>1, <2>2, OthersRead, Zenon
<1>2. CASE \E args \in Arguments, in \in Filters, shift \in BOOLEAN :
            LET lines == LinesOf(in.text)
            IN  /\ Ran(Shift(Command("| export", args, in), shift), World,
                       Passed(shift, lines, Len(args) + 1), ReadCode(in))
                /\ environ' = SetAll(environ, args, lines)
                /\ UNCHANGED <<current, gObjectsInPipe, blocks, alive>>
  <2> DEFINE name == "| export"
  <2>1. PICK args \in Arguments, in \in Filters, shift \in BOOLEAN :
            LET lines == LinesOf(in.text)
            IN  /\ Ran(Shift(Command(name, args, in), shift), World,
                       Passed(shift, lines, Len(args) + 1), ReadCode(in))
                /\ environ' = SetAll(environ, args, lines)
                /\ UNCHANGED <<current, gObjectsInPipe, blocks, alive>>
    BY <1>2, Zenon
  <2> DEFINE lines == LinesOf(in.text)
             out == Passed(shift, lines, Len(args) + 1)
  <2> HIDE DEF name
  <2>2. /\ Ran(Shift(Command(name, args, in), shift), World, out, ReadCode(in))
        /\ environ' = SetAll(environ, args, lines)
        /\ lines = LinesOf(in.text) /\ out = Passed(shift, lines, Len(args) + 1)
    BY <2>1
  <2> HIDE DEF lines, out
  <2>3. /\ last'.name = name /\ RestOf(name)'
        /\ (\A n \in DOMAIN last.args :
               \/ \E m \in DOMAIN last.args : m > n /\ last.args[m] = last.args[n]
               \/ /\ last.args[n] \in DOMAIN environ <=> Exported(last.args[n])
                  /\ Exported(last.args[n]) => environ[last.args[n]] =
                        IF n <= Len(LinesOf(last.in)) THEN LinesOf(last.in)[n] ELSE <<>>)'
    BY <2>2, ExportReads
  <2>4. ExportRead' /\ RestOf("| export")' /\ last'.name = "| export"
    BY <2>3, Zenon DEF ExportRead, Succeeded, name
  <2> QED BY <2>4, PartsApart, Zenon DEF ReadBack
<1>3. CASE cmd_unset
  <2>1. last'.name = "unset"
    BY <1>3, RanName, Zenon DEF cmd_unset
  <2>2. "unset" \notin Readers
    BY Zenon DEF Readers
  <2> QED BY <2>1, <2>2, OthersRead, Zenon
<1> QED BY <1>1, <1>2, <1>3, Zenon DEF cmd_export

\* Every step leaves what can be read back.
LEMMA StepReadsBack ==
    ASSUME TypedNow, ObjectsNext
    PROVE  ReadBack'
<1>1. CASE cmd_var
  BY <1>1, VarShows
<1>2. CASE cmd_ary
  BY <1>2, AryShows
<1>3. CASE cmd_hash
  BY <1>3, HashShows
<1>4. CASE cmd_object \/ cmd_mrun
  BY <1>4, ObjectShows
<1>5. CASE BlockEnds \/ BlockFails \/ CommandLineEnds
  BY <1>5, EndShows
<1>6. CASE cmd_defined \/ cmd_objinfo \/ cmd_typeof \/ cmd_mshow \/ cmd_pwo
  BY <1>6, AskingShows
<1>7. CASE cmd_def \/ cmd_class \/ cmd_alias
  BY <1>7, SourceShows
<1>8. CASE cmd_ref
  BY <1>8, RefShows
<1>9. CASE cmd_export \/ cmd_unset
  BY <1>9, EnvironShows
<1> QED BY <1>1, <1>2, <1>3, <1>4, <1>5, <1>6, <1>7, <1>8, <1>9 DEF ObjectsNext

\* So does the start.
LEMMA StartReadsBack ==
    ASSUME ObjectsInit
    PROVE  ReadBack
<1>1. last = [name |-> "none"]
  BY Zenon DEF ObjectsInit
<1>2. last.name = "none"
  BY <1>1
<1>3. VarRead /\ AryRead /\ HashRead /\ RefRead /\ ExportRead
  BY <1>2, Zenon DEF VarRead, AryRead, HashRead, RefRead, ExportRead, Succeeded
<1>4. SourceRead("def", "function") /\ SourceRead("class", "class") /\ SourceRead("alias", "alias")
  BY <1>2, Zenon DEF SourceRead, Succeeded
<1>5. RestOf("| var") /\ RestOf("| export") /\ NewRest
  BY <1>2, Zenon DEF RestOf, NewRest, Succeeded
<1>6. DefinedIfFound /\ InsertRead
  BY <1>2, Zenon DEF DefinedIfFound, InsertRead, Succeeded
<1> QED BY <1>3, <1>4, <1>5, <1>6, Zenon DEF ReadBack

\* And a step that changes nothing.
LEMMA StillReadsBack ==
    ASSUME ReadBack, UNCHANGED objects
    PROVE  ReadBack'
<1>1. /\ heap' = heap /\ locals' = locals /\ current' = current /\ last' = last
      /\ returned' = returned /\ mRCode' = mRCode /\ environ' = environ
      /\ gObjectsInPipe' = gObjectsInPipe
  BY DEF objects
<1>2. World' = World
  BY <1>1 DEF World
<1>3. \A a : Find(a)' = Find(a)
  BY <1>2 DEF Find
<1>4. \A a : Held(a)' = Held(a)
  BY <1>1, <1>3 DEF Held
<1>5. \A a : Readable(a)' <=> Readable(a)
  BY <1>1 DEF Readable, Shadowed
<1>6. \A n : Overwritten(n)' <=> Overwritten(n)
  BY <1>1 DEF Overwritten
<1>7. \A n : Hidden(n)' <=> Hidden(n)
  BY <1>1, <1>5, <1>6 DEF Hidden, Readable, Shadowed
<1>8. \A line : AddressOf(line)' = AddressOf(line)
  BY <1>1, AddressStays
<1>9. VarRead'
  BY <1>1, <1>3, <1>4, <1>7, Zenon DEF ReadBack, VarRead, Succeeded, Reads
<1>10. AryRead' /\ HashRead'
  BY <1>1, <1>3, <1>4, <1>7, Zenon DEF ReadBack, AryRead, HashRead, Succeeded, Reads
<1>11. /\ SourceRead("def", "function")' /\ SourceRead("class", "class")'
       /\ SourceRead("alias", "alias")'
  BY <1>1, <1>3, <1>4, <1>7, Zenon DEF ReadBack, SourceRead, Succeeded, Reads
<1>12. RefRead'
  BY <1>1, <1>3, <1>7, <1>8, Zenon DEF ReadBack, RefRead, Succeeded
<1>13. ExportRead'
  BY <1>1, Zenon DEF ReadBack, ExportRead, Succeeded
<1>14. RestOf("| var")' /\ RestOf("| export")' /\ NewRest'
  BY <1>1, Zenon DEF ReadBack, RestOf, NewRest, Succeeded
<1>15. DefinedIfFound'
  BY <1>1, <1>2, <1>3, Zenon DEF ReadBack, DefinedIfFound
<1>16. InsertRead'
  BY <1>1, <1>3, <1>4, <1>5, Zenon DEF ReadBack, InsertRead, Succeeded
<1> QED BY <1>9, <1>10, <1>11, <1>12, <1>13, <1>14, <1>15, <1>16, Zenon DEF ReadBack

\* Arrays and hashes are read as they are, whatever command has run.
LEMMA ListsNow ==
    ASSUME TypedNow
    PROVE  /\ \A o \in DOMAIN heap : heap[o].type = "array" =>
                 LET items == heap[o].value
                     each(from) == FlattenSeq([n \in DOMAIN items |-> Indexed(items, n - 1 + from)])
                 IN  /\ each(0) = Text(items) /\ each(-Len(items)) = Text(items)
                     /\ LinesOf(Text(items)) = items
           /\ HashesAgree
<1>1. /\ \A o \in DOMAIN heap : heap[o].type = "array" => heap[o].value \in Seq(ALine)
      /\ \A o \in DOMAIN heap : heap[o].type = "hash" => heap[o].value \in Pairs(ALine, ALine)
  BY WorldNow, HeapIs, KindIs
<1>2. ASSUME NEW o \in DOMAIN heap, heap[o].type = "array"
      PROVE  LET items == heap[o].value
                 each(from) == FlattenSeq([n \in DOMAIN items |-> Indexed(items, n - 1 + from)])
             IN  /\ each(0) = Text(items) /\ each(-Len(items)) = Text(items)
                 /\ LinesOf(Text(items)) = items
  <2> DEFINE items == heap[o].value
  <2>1. items \in Seq(ALine)
    BY <1>1, <1>2
  <2> HIDE DEF items
  <2>2. /\ FlattenSeq([n \in DOMAIN items |-> Indexed(items, n - 1 + 0)]) = Text(items)
        /\ FlattenSeq([n \in DOMAIN items |-> Indexed(items, n - 1 + (-Len(items)))]) = Text(items)
    BY <2>1, ArrayReads
  <2>3. LinesOf(Text(items)) = items
    BY <2>1, LinesOfText
  <2> QED BY <2>2, <2>3, Zenon DEF items
<1>3. HashesAgree
  <2>1. ASSUME NEW o \in DOMAIN heap, heap[o].type = "hash"
        PROVE  /\ KeysOnce(heap[o].value)
               /\ ToSet(PairsPut(<<>>, LinesOf(PairsText(heap[o].value)))) = ToSet(heap[o].value)
    <3> DEFINE table == heap[o].value
    <3>1. table \in Pairs(ALine, ALine)
      BY <1>1, <2>1
    <3> HIDE DEF table
    <3>2. KeysOnce(table)
      BY <3>1 DEF Pairs
    <3>3. ToSet(PairsPut(<<>>, LinesOf(PairsText(table)))) = ToSet(table)
      BY <3>1, HashReads
    <3> QED BY <3>2, <3>3 DEF table
  <2> QED BY <2>1, Zenon DEF HashesAgree, KeysOnce
<1> QED BY <1>2, <1>3, Zenon

\* What the two theorems about reading back need of a state.
LEMMA ReadsBackIs ==
    ASSUME ObjectsTyped, ReadBack
    PROVE  NamesReadBack /\ ListsAgree
<1>1. WrittenIsRead /\ RestIsPassed /\ DefinedIfFound /\ InsertRead
  BY PartsMake
<1>2. NamesReadBack
  BY <1>1, Zenon DEF NamesReadBack
<1>3. TypedNow
  BY TypedIs
<1>4. ArraysAgree
  BY <1>1, <1>3, ListsNow, Zenon DEF ArraysAgree, InsertRead
<1>5. HashesAgree
  BY <1>3, ListsNow
<1> QED BY <1>2, <1>4, <1>5 DEF ListsAgree
-----------------------------------------------------------------------------
(* The theorems.                                                           *)

\* The types hold at the start.
LEMMA ObjectsStart ==
    ASSUME ObjectsInit
    PROVE  TypedNow
<1>1. PICK s \in Starts : heap = s.heap /\ locals = s.locals /\ current = s.current
  BY DEF ObjectsInit
<1>2. /\ environ = <<>> /\ gObjectsInPipe = {} /\ blocks = <<>> /\ written = <<>> /\ commands = 0
      /\ alive = TRUE
  BY DEF ObjectsInit
<1>3. WorldOf(heap, locals, current) \in Fine /\ Len(heap) <= MaxObjects
  BY <1>1, StartsAssumption DEF WorldOf, Fine
<1>4. environ \in Environs
  <2> DEFINE e == <<>>
             D == {}
  <2>1. DOMAIN e \subseteq Names \ {<<"">>} /\ e = [a \in DOMAIN e |-> e[a]]
        /\ \A a \in DOMAIN e : e[a] \in ALine
    OBVIOUS
  <2> HIDE DEF e
  <2>2. e \in Environs
    BY <2>1, EnvironIs, Zenon
  <2> QED BY <1>2, <2>2 DEF e
<1>5. blocks \in Seq(Kept(heap)) /\ Len(blocks) <= MaxBlocks
  BY <1>2, BoundsAssumption
<1> QED BY <1>2, <1>3, <1>4, <1>5, NoText, BoundsAssumption DEF TypedNow

\* Every step keeps the types, and changes of the objects what it may.
LEMMA ObjectsStep ==
    ASSUME TypedNow, ObjectsNext
    PROVE  TypedNow' /\ ValueStays
<1>1. CASE cmd_var
  BY <1>1, VarSteps
<1>2. CASE cmd_ary
  BY <1>2, ArySteps
<1>3. CASE cmd_hash
  BY <1>3, HashSteps
<1>4. CASE cmd_object
  BY <1>4, ObjectSteps
<1>5. CASE cmd_mrun
  BY <1>5, RunSteps
<1>6. CASE BlockEnds \/ BlockFails
  BY <1>6, BlockSteps
<1>7. CASE cmd_defined \/ cmd_objinfo \/ cmd_typeof \/ cmd_mshow \/ cmd_pwo
  BY <1>7, AskingSteps
<1>8. CASE cmd_def \/ cmd_class
  BY <1>8, DefiningSteps
<1>9. CASE cmd_alias
  BY <1>9, AliasSteps
<1>10. CASE cmd_ref
  BY <1>10, RefSteps
<1>11. CASE cmd_export \/ cmd_unset
  BY <1>11, EnvironSteps
<1>12. CASE CommandLineEnds
  BY <1>12, LineEndSteps
<1> QED BY <1>1, <1>2, <1>3, <1>4, <1>5, <1>6, <1>7, <1>8, <1>9, <1>10, <1>11, <1>12 DEF ObjectsNext

\* Type correctness of the object commands (cmd_obj.c, object.c): whatever
\* names, texts and blocks the commands get, every name leads to an object
\* there is, an object's parent was made before it, the current object and
\* those that the running blocks come back to are objects that can be run, and
\* a pipe holds addresses of objects only.
THEOREM ObjectsTypes == ObjectsSpec => []ObjectsTyped
<1>1. ObjectsInit => TypedNow
  BY ObjectsStart
<1>2. TypedNow /\ [ObjectsNext]_objects => TypedNow'
  <2>1. ASSUME TypedNow, ObjectsNext PROVE TypedNow'
    BY <2>1, ObjectsStep
  <2>2. ASSUME TypedNow, UNCHANGED objects PROVE TypedNow'
    BY <2>2 DEF TypedNow, objects
  <2> QED BY <2>1, <2>2
<1>3. TypedNow => ObjectsTyped
  BY TypedIs
<1> QED BY <1>1, <1>2, <1>3, PTL DEF ObjectsSpec

\* What pipes, names and blocks share is not changed under their hands: a
\* command of cmd_obj.c makes objects, puts items into objects, or adds to the
\* one array or hash of -insert and -append, and leaves every other value, every
\* type, parent and name as it was.
THEOREM ObjectsStay == ObjectsSpec => ValuesStay
<1>1. ObjectsTyped /\ [ObjectsNext]_objects => [ValueStays]_objects
  BY TypedIs, ObjectsStep
<1> QED BY <1>1, ObjectsTypes, PTL DEF ObjectsSpec, ValuesStay

\* What can be read back in every state there is.
LEMMA ObjectsReadsBack == ObjectsSpec => []ReadBack
<1>1. ObjectsInit => ReadBack
  BY StartReadsBack
<1>2. ObjectsTyped /\ ReadBack /\ [ObjectsNext]_objects => ReadBack'
  <2>1. ASSUME ObjectsTyped, ObjectsNext PROVE ReadBack'
    BY <2>1, TypedIs, StepReadsBack
  <2>2. ASSUME ReadBack, UNCHANGED objects PROVE ReadBack'
    BY <2>2, StillReadsBack
  <2> QED BY <2>1, <2>2
<1> QED BY <1>1, <1>2, ObjectsTypes, PTL DEF ObjectsSpec

\* What is written under a name is read back under it (cmd_obj.c, object.c):
\* whatever names and texts "| var", "| ary", "| hash", def, class, alias and
\* "| export" get, and through whatever objects the names lead, what each made
\* is what is found there afterwards, and what "| ref" binds is the object
\* whose address it read; -shift passes on the lines that were not used, each
\* once; and defined says of a name that it is there when it can be looked up.
THEOREM ObjectsReadBack == ObjectsSpec => []NamesReadBack
<1>1. ObjectsTyped /\ ReadBack => NamesReadBack
  BY ReadsBackIs
<1> QED BY <1>1, ObjectsTypes, ObjectsReadsBack, PTL

\* Arrays and hashes (cmd_obj.c): an array reads the same line by line from
\* either end, printed together and split again; what "| ary -insert" puts in
\* is what -index reads at that place; a hash has every key once, and a hash
\* made of its printed text has its items.
THEOREM ObjectsListsAgree == ObjectsSpec => []ListsAgree
<1>1. ObjectsTyped /\ ReadBack => ListsAgree
  BY ReadsBackIs
<1> QED BY <1>1, ObjectsTypes, ObjectsReadsBack, PTL
=============================================================================
