----------------------------- MODULE DataProofs ------------------------------
(***************************************************************************)
(* The data of the interpreter, proved for any keys, hash values, cells,   *)
(* pages, options and lines and any sizes.                                 *)
(*                                                                         *)
(* Of the hash table: the chains and the list always hold the same         *)
(* entries, a walk under which the table changes still meets every entry   *)
(* that stays, and the table implements a plain store of items (KeyStore). *)
(* What makes it an induction over data is resize, which builds the chains *)
(* anew out of the list.  The lemma Upto, and Fold for the function that   *)
(* resize defines recursively, are all the induction that is needed; they  *)
(* come from the well-founded order of the natural numbers.                *)
(*                                                                         *)
(* Of the memory: lists are the sequences they were asked to hold, buffers *)
(* are never written past, temporaries live as long as their frame, and an *)
(* option is found exactly when it was given.                              *)
(*                                                                         *)
(* Of the sort: whatever the block answers, or whatever the random numbers *)
(* are, no scan leaves the range it sorts, the lines stay the same lines,  *)
(* and if the answers are an order, the lines come out in that order.      *)
(***************************************************************************)
EXTENDS HashTable, Memory, QuickSort, TLAPS, SequenceTheorems, WellFoundedInduction

-----------------------------------------------------------------------------
(* The hash table.                                                         *)

\* In a list, one entry comes after another.
After(o, k, s) == \E m, n \in 1..Len(s) : m < n /\ s[m] = o /\ s[n] = k

\* What a walk still has to do is in the list, after the entry it is at.
WalkGoesOn ==
    it # None =>
        /\ In(it, mEntryIt)
        /\ Len(visited) > 0 /\ visited[Len(visited)] = it
        /\ \A k \in steady : In(k, visited) \/ After(it, k, mEntryIt)
        /\ \A k \in Keys : After(it, k, mEntryIt) => ~In(k, visited)

\* The inductive invariant.
TableInv == TypeOK /\ ChainsAreList /\ WalkIsComplete /\ WalkGoesOn

\* The middle part of ChainsAreList, for any table and list.
Chains(tbl, size, list) ==
    \A h \in Buckets(size) :
        /\ Once(tbl[h])
        /\ \A k \in Keys : In(k, tbl[h]) <=> get_hash_value(k, size) = h /\ In(k, list)

-----------------------------------------------------------------------------
\* A set of natural numbers that is not empty has a least element.
LEMMA Least ==
    ASSUME NEW T \in SUBSET Nat, T # {}
    PROVE  \E n \in T : \A k \in T : n <= k
<1> DEFINE R == {ss \in Nat \X Nat : ss[1] < ss[2]}
<1>1. IsWellFoundedOn(R, Nat)
  BY NatLessThanWellFounded DEF OpToRel
<1> HIDE DEF R
<1>2. PICK n \in T : \A k \in T : ~(<<k, n>> \in R)
  BY <1>1, WFMin
<1>3. ASSUME NEW k \in T PROVE n <= k
  <2>1. ~(<<k, n>> \in R)
    BY <1>2
  <2>2. ~(k < n)
    BY <2>1 DEF R
  <2> QED BY <2>2
<1> QED BY <1>3

\* Induction up to a number, for a set in the place of a predicate.
LEMMA Upto ==
    ASSUME NEW S, NEW N \in Nat,
           0 \in S, \A n \in 0..(N - 1) : n \in S => n + 1 \in S
    PROVE  0..N \subseteq S
<1> DEFINE T == (0..N) \ S
<1>1. SUFFICES ASSUME T # {} PROVE FALSE
  OBVIOUS
<1>2. T \in SUBSET Nat
  OBVIOUS
<1> HIDE DEF T
<1>3. PICK n \in T : \A k \in T : n <= k
  BY <1>1, <1>2, Least
<1>4. n \in 1..N /\ n - 1 \notin T
  BY <1>3, <1>2 DEF T
<1>5. n - 1 \in 0..(N - 1) /\ n - 1 \in S
  BY <1>4 DEF T
<1>6. (n - 1) + 1 \in S
  BY <1>5
<1> QED BY <1>4, <1>6 DEF T

\* A function on 0..N may be defined from its value at 0 and a step.
Steps(N, S) == [1..N -> [S -> S]]
Follows(f, N, S, first, Step) ==
    f \in [0..N -> S] /\ f[0] = first /\ \A n \in 1..N : f[n] = Step[n][f[n - 1]]

\* Such a function exists.
LEMMA Fold ==
    ASSUME NEW N \in Nat, NEW S, NEW first \in S, NEW Step \in Steps(N, S)
    PROVE  \E f : Follows(f, N, S, first, Step)
<1> USE DEF Steps, Follows
<1> DEFINE Good(f, m) == f[0] = first /\ \A n \in 1..m : f[n] = Step[n][f[n - 1]]
           T == {m \in 0..N : \E f \in [0..m -> S] : Good(f, m)}
<1>1. 0 \in T
  <2> DEFINE f == [n \in 0..0 |-> first]
  <2>1. f \in [0..0 -> S] /\ Good(f, 0)
    OBVIOUS
  <2> HIDE DEF f, Good
  <2> QED BY <2>1
<1>2. ASSUME NEW m \in 0..(N - 1), m \in T PROVE m + 1 \in T
  <2>1. PICK f \in [0..m -> S] : Good(f, m)
    BY <1>2
  <2> DEFINE v == Step[m + 1][f[m]]
             g == [n \in 0..(m + 1) |-> IF n = m + 1 THEN v ELSE f[n]]
  <2>2. v \in S
    <3>1. m + 1 \in 1..N /\ f[m] \in S
      OBVIOUS
    <3> QED BY <3>1
  <2> HIDE DEF v
  <2>3. g \in [0..(m + 1) -> S]
    BY <2>2
  <2>4. g[0] = first
    <3>1. 0 \in 0..(m + 1) /\ 0 # m + 1
      OBVIOUS
    <3>2. g[0] = f[0]
      BY <3>1
    <3> QED BY <3>2, <2>1
  <2>5. ASSUME NEW n \in 1..(m + 1) PROVE g[n] = Step[n][g[n - 1]]
    <3>1. CASE n = m + 1
      <4>1. g[n] = v /\ n - 1 = m /\ g[n - 1] = f[m]
        BY <3>1
      <4> QED BY <3>1, <4>1 DEF v
    <3>2. CASE n # m + 1
      <4>1. n \in 1..m /\ g[n] = f[n] /\ g[n - 1] = f[n - 1]
        BY <3>2
      <4> QED BY <4>1, <2>1
    <3> QED BY <3>1, <3>2
  <2>6. Good(g, m + 1)
    BY <2>4, <2>5
  <2>7. m + 1 \in 0..N
    OBVIOUS
  <2> HIDE DEF g, Good
  <2> QED BY <2>3, <2>6, <2>7
<1> HIDE DEF T
<1>3. 0..N \subseteq T
  BY <1>1, <1>2, Upto
<1>4. N \in T
  BY <1>3
<1> QED BY <1>4 DEF T

-----------------------------------------------------------------------------
\* A key has a chain in a table of any size.
LEMMA HashInRange ==
    ASSUME NEW k \in Keys, NEW size \in Nat \ {0}
    PROVE  get_hash_value(k, size) \in Buckets(size)
<1>1. HashOf[k] \in Nat
  BY HashAssumption
<1>2. HashOf[k] % size \in 0..(size - 1)
  BY <1>1
<1> QED BY <1>2 DEF get_hash_value, Buckets

\* An entry put in front is in the list, once if it was not, before all others.
LEMMA ListFront ==
    ASSUME NEW s \in Seq(Keys), NEW k \in Keys
    PROVE  /\ InFront(k, s) \in Seq(Keys) /\ Len(InFront(k, s)) = Len(s) + 1
           /\ \A o : In(o, InFront(k, s)) <=> o = k \/ In(o, s)
           /\ Once(s) /\ ~In(k, s) => Once(InFront(k, s))
           /\ \A o, l : o # k => (After(o, l, InFront(k, s)) <=> After(o, l, s))
<1> DEFINE t == InFront(k, s)
<1>1. t \in Seq(Keys) /\ Len(t) = Len(s) + 1 /\ t[1] = k
  BY DEF InFront
<1>2. \A n \in 1..Len(s) : t[n + 1] = s[n]
  BY DEF InFront
<1>3. \A n \in 2..Len(t) : n - 1 \in 1..Len(s) /\ t[n] = s[n - 1]
  BY <1>1 DEF InFront
<1> HIDE DEF t
<1>4. ASSUME NEW o PROVE In(o, t) <=> o = k \/ In(o, s)
  <2>1. CASE In(o, t)
    BY <2>1, <1>1, <1>3 DEF In
  <2>2. ASSUME o = k PROVE In(o, t)
    BY <2>2, <1>1 DEF In
  <2>3. ASSUME In(o, s) PROVE In(o, t)
    <3>1. PICK n \in 1..Len(s) : s[n] = o
      BY <2>3 DEF In
    <3>2. n + 1 \in 1..Len(t) /\ t[n + 1] = o
      BY <3>1, <1>1, <1>2
    <3> QED BY <3>2 DEF In
  <2> QED BY <2>1, <2>2, <2>3
<1>5. ASSUME Once(s), ~In(k, s), NEW m \in 1..Len(t), NEW n \in 1..Len(t), t[m] = t[n]
      PROVE  m = n
  <2>1. \A l \in 2..Len(t) : t[l] # k
    <3> SUFFICES ASSUME NEW l \in 2..Len(t), t[l] = k PROVE FALSE
      OBVIOUS
    <3>1. l - 1 \in 1..Len(s) /\ s[l - 1] = k
      BY <1>3
    <3> QED BY <1>5, <3>1 DEF In
  <2>2. m \in {1} \cup 2..Len(t) /\ n \in {1} \cup 2..Len(t)
    BY <1>1
  <2>3. CASE m = 1 \/ n = 1
    BY <1>1, <1>5, <2>1, <2>2, <2>3
  <2>4. CASE m \in 2..Len(t) /\ n \in 2..Len(t)
    <3>1. m - 1 \in 1..Len(s) /\ n - 1 \in 1..Len(s) /\ s[m - 1] = s[n - 1]
      BY <1>3, <1>5, <2>4
    <3>2. m - 1 = n - 1
      BY <1>5, <3>1 DEF Once
    <3> QED BY <2>4, <3>2
  <2> QED BY <2>2, <2>3, <2>4
<1>6. ASSUME NEW o, NEW l, o # k PROVE After(o, l, t) <=> After(o, l, s)
  <2>1. ASSUME After(o, l, t) PROVE After(o, l, s)
    <3>1. PICK m \in 1..Len(t), n \in 1..Len(t) : m < n /\ t[m] = o /\ t[n] = l
      BY <2>1 DEF After
    <3>2. m - 1 \in 1..Len(s) /\ n - 1 \in 1..Len(s) /\ s[m - 1] = o /\ s[n - 1] = l
      BY <3>1, <1>1, <1>3, <1>6
    <3> QED BY <3>1, <3>2 DEF After
  <2>2. ASSUME After(o, l, s) PROVE After(o, l, t)
    <3>1. PICK m \in 1..Len(s), n \in 1..Len(s) : m < n /\ s[m] = o /\ s[n] = l
      BY <2>2 DEF After
    <3>2. m + 1 \in 1..Len(t) /\ n + 1 \in 1..Len(t) /\ t[m + 1] = o /\ t[n + 1] = l
      BY <3>1, <1>1, <1>2
    <3> QED BY <3>1, <3>2 DEF After
  <2> QED BY <2>1, <2>2
<1> QED BY <1>1, <1>4, <1>5, <1>6 DEF t, Once

\* An entry taken out is gone, and the others stay in their order.
LEMMA Out ==
    ASSUME NEW s \in Seq(Keys), NEW k, In(k, s), Once(s)
    PROVE  /\ Without(k, s) \in Seq(Keys) /\ Len(Without(k, s)) = Len(s) - 1
           /\ \A o : In(o, Without(k, s)) <=> o # k /\ In(o, s)
           /\ Once(Without(k, s))
           /\ \A o, l : o # k /\ l # k => (After(o, l, Without(k, s)) <=> After(o, l, s))
<1> DEFINE t == Without(k, s)
           at == Place(k, s)
           From(n) == IF n < at THEN n ELSE n + 1
           To(n) == IF n < at THEN n ELSE n - 1
<1>1. at \in 1..Len(s) /\ s[at] = k
  BY DEF In, Place
<1>2. \A n \in 1..Len(s) : s[n] = k => n = at
  BY <1>1 DEF Once
<1> HIDE DEF at
<1>3. t = [n \in 1..(Len(s) - 1) |-> IF n < at THEN s[n] ELSE s[n + 1]]
  BY DEF Without, at
<1>4. t \in Seq(Keys) /\ Len(t) = Len(s) - 1
  <2>1. \A n \in 1..(Len(s) - 1) : s[n] \in Keys /\ s[n + 1] \in Keys
    OBVIOUS
  <2>2. t \in [1..(Len(s) - 1) -> Keys]
    BY <2>1, <1>3
  <2>3. Len(s) - 1 \in Nat
    BY <1>1
  <2> HIDE DEF t
  <2> QED BY <2>2, <2>3
<1>5. ASSUME NEW n \in 1..Len(t)
      PROVE  From(n) \in 1..Len(s) /\ From(n) # at /\ t[n] = s[From(n)]
  BY <1>1, <1>3, <1>4
<1>6. ASSUME NEW n \in 1..Len(s), n # at
      PROVE  To(n) \in 1..Len(t) /\ t[To(n)] = s[n]
  BY <1>1, <1>3, <1>4, <1>6
<1>7. \A m, n \in 1..Len(t) : (m < n <=> From(m) < From(n)) /\ (From(m) = From(n) => m = n)
  BY <1>1, <1>4
<1>8. \A m, n \in 1..Len(s) : m # at /\ n # at /\ m < n => To(m) < To(n)
  BY <1>1
<1> HIDE DEF t, From, To
<1>9. ASSUME NEW o PROVE In(o, t) <=> o # k /\ In(o, s)
  <2>1. ASSUME In(o, t) PROVE o # k /\ In(o, s)
    <3>1. PICK n \in 1..Len(t) : t[n] = o
      BY <2>1 DEF In
    <3> QED BY <3>1, <1>5, <1>2 DEF In
  <2>2. ASSUME o # k, In(o, s) PROVE In(o, t)
    <3>1. PICK n \in 1..Len(s) : s[n] = o
      BY <2>2 DEF In
    <3> QED BY <3>1, <2>2, <1>1, <1>6 DEF In
  <2> QED BY <2>1, <2>2
<1>10. ASSUME NEW m \in 1..Len(t), NEW n \in 1..Len(t), t[m] = t[n] PROVE m = n
  <2>1. s[From(m)] = s[From(n)] /\ From(m) \in 1..Len(s) /\ From(n) \in 1..Len(s)
    BY <1>5, <1>10
  <2>2. From(m) = From(n)
    BY <2>1 DEF Once
  <2> QED BY <2>2, <1>7
<1>11. ASSUME NEW o, NEW l, o # k, l # k PROVE After(o, l, t) <=> After(o, l, s)
  <2>1. ASSUME After(o, l, t) PROVE After(o, l, s)
    <3>1. PICK m \in 1..Len(t), n \in 1..Len(t) : m < n /\ t[m] = o /\ t[n] = l
      BY <2>1 DEF After
    <3> QED BY <3>1, <1>5, <1>7 DEF After
  <2>2. ASSUME After(o, l, s) PROVE After(o, l, t)
    <3>1. PICK m \in 1..Len(s), n \in 1..Len(s) : m < n /\ s[m] = o /\ s[n] = l
      BY <2>2 DEF After
    <3>2. m # at /\ n # at
      BY <3>1, <1>1, <1>11
    <3> QED BY <3>1, <3>2, <1>6, <1>8 DEF After
  <2> QED BY <2>1, <2>2
<1> QED BY <1>4, <1>9, <1>10, <1>11 DEF t, Once

\* The chains that resize makes hold what is in the list, each entry once and
\* where its key hashes to.
LEMMA ChainedHolds ==
    ASSUME NEW list \in Seq(Keys), Once(list), NEW size \in Nat \ {0}
    PROVE  /\ Chained(list, size) \in [Buckets(size) -> Seq(Keys)]
           /\ Chains(Chained(list, size), size, list)
<1> DEFINE Tables == [Buckets(size) -> Seq(Keys)]
           hash(k) == get_hash_value(k, size)
           With(k, tbl) == [tbl EXCEPT ![hash(k)] = InFront(k, @)]
           Step == [n \in 1..Len(list) |-> [tbl \in Tables |-> With(list[n], tbl)]]
           Made(f) == f = [n \in 0..Len(list) |->
                              IF n = 0 THEN EmptyTable(size) ELSE With(list[n], f[n - 1])]
           chains == CHOOSE f : Made(f)
           Part(k, n) == \E m \in 1..n : list[m] = k
           Holds(tbl, n) == \A h \in Buckets(size) :
                               /\ Once(tbl[h])
                               /\ \A k \in Keys : In(k, tbl[h]) <=> hash(k) = h /\ Part(k, n)
<1>1. EmptyTable(size) \in Tables
  BY DEF EmptyTable
<1>2. ASSUME NEW k \in Keys, NEW tbl \in Tables PROVE With(k, tbl) \in Tables
  <2>1. hash(k) \in Buckets(size)
    BY HashInRange
  <2>2. tbl[hash(k)] \in Seq(Keys)
    BY <2>1
  <2>3. InFront(k, tbl[hash(k)]) \in Seq(Keys)
    BY <2>2, ListFront
  <2> HIDE DEF hash
  <2> QED BY <2>3
<1>3. Len(list) \in Nat /\ \A n \in 1..Len(list) : list[n] \in Keys
  OBVIOUS
<1> HIDE DEF Tables, With
<1>4. Step \in [1..Len(list) -> [Tables -> Tables]]
  BY <1>2, <1>3
<1>5. \A n \in 1..Len(list), tbl \in Tables : Step[n][tbl] = With(list[n], tbl)
  BY <1>3
<1> HIDE DEF Step
<1>6. PICK f \in [0..Len(list) -> Tables] :
            f[0] = EmptyTable(size) /\ \A n \in 1..Len(list) : f[n] = Step[n][f[n - 1]]
  <2> DEFINE N == Len(list)
             first == EmptyTable(size)
  <2>1. N \in Nat /\ first \in Tables /\ Step \in Steps(N, Tables)
    BY <1>1, <1>3, <1>4 DEF Steps
  <2> HIDE DEF N, first
  <2>2. \E f : Follows(f, N, Tables, first, Step)
    BY <2>1, Fold
  <2> QED BY <2>2 DEF N, first, Follows
<1>7. Made(f)
  <2>1. ASSUME NEW n \in 1..Len(list) PROVE f[n] = With(list[n], f[n - 1])
    <3>1. n - 1 \in 0..Len(list)
      BY <1>3
    <3>2. f[n - 1] \in Tables
      BY <3>1
    <3> QED BY <3>2, <1>5, <1>6
  <2>2. \A n \in 0..Len(list) :
           f[n] = IF n = 0 THEN EmptyTable(size) ELSE With(list[n], f[n - 1])
    BY <1>3, <1>6, <2>1
  <2> QED BY <2>2
<1>8. Made(chains)
  BY <1>7
<1>9. Chained(list, size) = chains[Len(list)]
  BY DEF Chained, With
<1> HIDE DEF chains
<1>10. chains[0] = EmptyTable(size)
       /\ \A n \in 1..Len(list) : chains[n] = With(list[n], chains[n - 1])
  <2>1. \A n \in 0..Len(list) :
           chains[n] = IF n = 0 THEN EmptyTable(size) ELSE With(list[n], chains[n - 1])
    BY <1>8
  <2>2. 0 \in 0..Len(list) /\ \A n \in 1..Len(list) : n \in 0..Len(list) /\ n # 0
    BY <1>3
  <2> HIDE DEF Made
  <2> QED BY <2>1, <2>2
<1> DEFINE Right == {n \in 0..Len(list) : chains[n] \in Tables /\ Holds(chains[n], n)}
<1>11. 0 \in Right
  <2>1. \A h \in Buckets(size) : EmptyTable(size)[h] = <<>>
    BY DEF EmptyTable
  <2>2. \A k \in Keys : ~In(k, <<>>) /\ ~Part(k, 0)
    BY DEF In
  <2>3. Once(<<>>)
    BY DEF Once
  <2>4. Holds(EmptyTable(size), 0)
    BY <2>1, <2>2, <2>3
  <2> HIDE DEF Holds
  <2> QED BY <2>4, <1>1, <1>10
<1>12. ASSUME NEW n \in 0..(Len(list) - 1), n \in Right PROVE n + 1 \in Right
  <2> DEFINE k == list[n + 1]
             old == chains[n]
             new == chains[n + 1]
  <2>1. k \in Keys /\ old \in Tables /\ Holds(old, n) /\ hash(k) \in Buckets(size)
    BY <1>3, <1>12, HashInRange
  <2>2. new = With(k, old)
    <3>1. n + 1 \in 1..Len(list) /\ (n + 1) - 1 = n
      OBVIOUS
    <3> QED BY <3>1, <1>10
  <2>3. ~Part(k, n)
    BY DEF Once
  <2>4. \A o : Part(o, n + 1) <=> o = k \/ Part(o, n)
    OBVIOUS
  <2> HIDE DEF k, old, new, Part
  <2>5. new[hash(k)] = InFront(k, old[hash(k)])
        /\ \A h \in Buckets(size) : h # hash(k) => new[h] = old[h]
    BY <2>1, <2>2 DEF With, Tables
  <2>6. ASSUME NEW h \in Buckets(size)
        PROVE  Once(new[h]) /\ \A o \in Keys : In(o, new[h]) <=> hash(o) = h /\ Part(o, n + 1)
    <3>1. old[h] \in Seq(Keys)
      BY <2>1 DEF Tables
    <3>2. Once(old[h]) /\ \A o \in Keys : In(o, old[h]) <=> hash(o) = h /\ Part(o, n)
      BY <2>1
    <3>3. CASE h = hash(k)
      <4>1. ~In(k, old[h])
        BY <3>2, <2>1, <2>3
      <4>2. Once(InFront(k, old[h]))
            /\ \A o : In(o, InFront(k, old[h])) <=> o = k \/ In(o, old[h])
        BY <4>1, <3>1, <3>2, <2>1, ListFront
      <4> HIDE DEF hash
      <4> QED BY <4>2, <3>2, <3>3, <2>4, <2>5
    <3>4. CASE h # hash(k)
      <4> HIDE DEF hash
      <4> QED BY <3>2, <3>4, <2>4, <2>5
    <3> QED BY <3>3, <3>4
  <2>7. Holds(new, n + 1)
    BY <2>6
  <2>8. new \in Tables
    BY <2>1, <2>2, <1>2
  <2>9. n + 1 \in 0..Len(list)
    OBVIOUS
  <2> HIDE DEF Holds
  <2> QED BY <2>7, <2>8, <2>9 DEF new
<1>13. Len(list) \in Right
  <2> HIDE DEF Right
  <2>1. 0..Len(list) \subseteq Right
    BY <1>3, <1>11, <1>12, Upto
  <2> QED BY <1>3, <2>1
<1>14. \A k : Part(k, Len(list)) <=> In(k, list)
  BY DEF In
<1>15. Chained(list, size) \in Tables /\ Holds(Chained(list, size), Len(list))
  BY <1>9, <1>13
<1> HIDE DEF Part
<1>16. Chains(Chained(list, size), size, list)
  BY <1>14, <1>15 DEF Chains
<1> QED BY <1>15, <1>16 DEF Tables
-----------------------------------------------------------------------------
\* The invariant holds at first.
LEMMA InitInv == Init => TableInv
<1> SUFFICES ASSUME Init PROVE TableInv
  OBVIOUS
<1>1. TypeOK
  BY SizeAssumption DEF Init, TypeOK, EmptyTable
<1>2. Once(<<>>) /\ \A k : ~In(k, <<>>)
  BY DEF Once, In
<1>3. \A h \in Buckets(InitialSize) : EmptyTable(InitialSize)[h] = <<>>
  BY DEF EmptyTable
<1>4. ChainsAreList
  BY <1>2, <1>3, SizeAssumption DEF Init, ChainsAreList
<1>5. WalkIsComplete /\ WalkGoesOn
  BY <1>2 DEF Init, WalkIsComplete, WalkGoesOn
<1> QED BY <1>1, <1>4, <1>5 DEF TableInv

\* ChainsAreList is Chains of the present table and list.
LEMMA ChainsParts ==
    ChainsAreList <=> /\ Once(mEntryIt) /\ Chains(mTable, mTableSize, mEntryIt)
                      /\ mCounter = Len(mEntryIt) /\ mCounter <= mTableSize
BY DEF ChainsAreList, Chains

\* A lookup through the chain finds what is in the list, in any state.
LEMMA Lookup ==
    ASSUME TypeOK, ChainsAreList
    PROVE  \A k \in Keys : InChain(k) <=> In(k, mEntryIt)
<1> SUFFICES ASSUME NEW k \in Keys PROVE InChain(k) <=> In(k, mEntryIt)
  OBVIOUS
<1>1. get_hash_value(k, mTableSize) \in Buckets(mTableSize)
  BY HashInRange DEF TypeOK
<1> QED BY <1>1 DEF ChainsAreList, InChain

\* An entry put into a table that holds a list, and into the list.
LEMMA ChainsWith ==
    ASSUME NEW size \in Nat \ {0}, NEW list \in Seq(Keys), NEW k \in Keys,
           NEW tbl \in [Buckets(size) -> Seq(Keys)],
           Chains(tbl, size, list), ~In(k, list),
           NEW new, new = [tbl EXCEPT ![get_hash_value(k, size)] = InFront(k, @)]
    PROVE  /\ new \in [Buckets(size) -> Seq(Keys)]
           /\ Chains(new, size, InFront(k, list))
<1> DEFINE at == get_hash_value(k, size)
<1>1. at \in Buckets(size)
  BY HashInRange
<1>2. new = [tbl EXCEPT ![at] = InFront(k, tbl[at])]
  OBVIOUS
<1> HIDE DEF at
<1>3. ~In(k, tbl[at])
  BY <1>1 DEF Chains
<1>4. new \in [Buckets(size) -> Seq(Keys)]
  <2>1. tbl[at] \in Seq(Keys)
    BY <1>1
  <2>2. InFront(k, tbl[at]) \in Seq(Keys)
    BY <2>1, ListFront
  <2> QED BY <1>1, <1>2, <2>2
<1>5. ASSUME NEW h \in Buckets(size)
      PROVE  /\ Once(new[h])
             /\ \A o \in Keys : In(o, new[h]) <=>
                    get_hash_value(o, size) = h /\ In(o, InFront(k, list))
  <2>1. Once(tbl[h]) /\ \A o \in Keys :
            In(o, tbl[h]) <=> get_hash_value(o, size) = h /\ In(o, list)
    BY DEF Chains
  <2>2. \A o : In(o, InFront(k, list)) <=> o = k \/ In(o, list)
    BY ListFront
  <2>3. CASE h = at
    <3>1. tbl[h] \in Seq(Keys) /\ new[h] = InFront(k, tbl[h])
      BY <1>2, <2>3
    <3>2. Once(new[h]) /\ \A o : In(o, new[h]) <=> o = k \/ In(o, tbl[h])
      <4>1. tbl[h] \in Seq(Keys) /\ ~In(k, tbl[h]) /\ Once(tbl[h])
        BY <1>3, <2>1, <2>3, <3>1
      <4>2. /\ \A o : In(o, InFront(k, tbl[h])) <=> o = k \/ In(o, tbl[h])
            /\ Once(InFront(k, tbl[h]))
        BY <4>1, ListFront
      <4> QED BY <3>1, <4>2
    <3> QED BY <2>1, <2>2, <2>3, <3>2 DEF at
  <2>4. CASE h # at
    <3>1. new[h] = tbl[h]
      BY <1>2, <2>4
    <3> QED BY <2>1, <2>2, <2>4, <3>1 DEF at
  <2> QED BY <2>3, <2>4
<1> QED BY <1>4, <1>5 DEF Chains

\* The same for an entry taken out.
LEMMA ChainsWithout ==
    ASSUME NEW size \in Nat \ {0}, NEW list \in Seq(Keys), NEW k \in Keys,
           NEW tbl \in [Buckets(size) -> Seq(Keys)],
           Chains(tbl, size, list), In(k, list), Once(list),
           NEW new, new = [tbl EXCEPT ![get_hash_value(k, size)] = Without(k, @)]
    PROVE  /\ new \in [Buckets(size) -> Seq(Keys)]
           /\ Chains(new, size, Without(k, list))
<1> DEFINE at == get_hash_value(k, size)
<1>1. at \in Buckets(size)
  BY HashInRange
<1>2. new = [tbl EXCEPT ![at] = Without(k, tbl[at])]
  OBVIOUS
<1>3. In(k, tbl[at]) /\ Once(tbl[at])
  BY <1>1 DEF Chains
<1> HIDE DEF at
<1>4. new \in [Buckets(size) -> Seq(Keys)]
  <2>1. tbl[at] \in Seq(Keys)
    BY <1>1
  <2>2. Without(k, tbl[at]) \in Seq(Keys)
    BY <1>3, <2>1, Out
  <2> QED BY <1>1, <1>2, <2>2
<1>5. ASSUME NEW h \in Buckets(size)
      PROVE  /\ Once(new[h])
             /\ \A o \in Keys : In(o, new[h]) <=>
                    get_hash_value(o, size) = h /\ In(o, Without(k, list))
  <2>1. Once(tbl[h]) /\ \A o \in Keys :
            In(o, tbl[h]) <=> get_hash_value(o, size) = h /\ In(o, list)
    BY DEF Chains
  <2>2. \A o : In(o, Without(k, list)) <=> o # k /\ In(o, list)
    BY Out
  <2>3. CASE h = at
    <3>1. tbl[h] \in Seq(Keys) /\ new[h] = Without(k, tbl[h])
      BY <1>2, <2>3
    <3>2. Once(new[h]) /\ \A o : In(o, new[h]) <=> o # k /\ In(o, tbl[h])
      BY <1>3, <2>3, <3>1, Out
    <3> QED BY <2>1, <2>2, <2>3, <3>2
  <2>4. CASE h # at
    <3>1. new[h] = tbl[h]
      BY <1>2, <2>4
    <3> QED BY <2>1, <2>2, <2>4, <3>1 DEF at
  <2> QED BY <2>3, <2>4
<1> QED BY <1>4, <1>5 DEF Chains

-----------------------------------------------------------------------------
\* What a walk has done stays done when the table changes under it, if the
\* order of the entries after the one it is at stays and what goes is not
\* steady any more.
LEMMA WalkStays ==
    ASSUME TableInv, it' = it, visited' = visited, steady' \subseteq steady,
           it # None => In(it, mEntryIt'),
           it # None => \A l : l \in steady' /\ After(it, l, mEntryIt) => After(it, l, mEntryIt'),
           it # None => \A l : After(it, l, mEntryIt') => After(it, l, mEntryIt)
    PROVE  WalkIsComplete' /\ WalkGoesOn'
<1> USE DEF TableInv, WalkIsComplete, WalkGoesOn
<1>1. WalkIsComplete'
  OBVIOUS
<1>2. ASSUME it # None PROVE WalkGoesOn'
  <2>1. In(it, mEntryIt') /\ Len(visited') > 0 /\ visited'[Len(visited')] = it
    BY <1>2
  <2>2. \A l \in steady' : In(l, visited) \/ After(it, l, mEntryIt')
    BY <1>2
  <2>3. \A l \in Keys : After(it, l, mEntryIt') => ~In(l, visited)
    BY <1>2
  <2> QED BY <2>1, <2>2, <2>3
<1> QED BY <1>1, <1>2

\* An entry put is in the list, and the others are as before.
LEMMA PutInv ==
    ASSUME TableInv, NEW k \in Keys, NEW x \in Items, hash_put(k, x)
    PROVE  TableInv' /\ \A o \in Keys : In(o, mEntryIt') <=> o = k \/ In(o, mEntryIt)
<1> DEFINE size  == IF Full THEN mTableSize * GrowBy ELSE mTableSize
           chain == IF Full THEN resize(mTableSize) ELSE mTable
           h     == get_hash_value(k, size)
           found == In(k, chain[h])
<1>1. TypeOK /\ Once(mEntryIt) /\ Chains(mTable, mTableSize, mEntryIt)
      /\ mCounter = Len(mEntryIt) /\ mCounter <= mTableSize
  BY ChainsParts DEF TableInv
<1>2. size \in Nat \ {0} /\ mCounter < size
  BY <1>1 DEF TypeOK, Full, GrowBy
<1>3. chain \in [Buckets(size) -> Seq(Keys)] /\ Chains(chain, size, mEntryIt)
  <2>1. CASE Full
    <3>1. size = mTableSize * GrowBy /\ chain = Chained(mEntryIt, size)
      BY <2>1 DEF resize
    <3> HIDE DEF size, chain
    <3> QED BY <1>1, <1>2, <3>1, ChainedHolds DEF TypeOK
  <2>2. CASE ~Full
    BY <1>1, <2>2 DEF TypeOK
  <2> QED BY <2>1, <2>2
<1>4. /\ mTableSize' = size
      /\ mItem' = [mItem EXCEPT ![k] = x]
      /\ mTable' = IF found THEN chain ELSE [chain EXCEPT ![h] = InFront(k, @)]
      /\ mEntryIt' = IF found THEN mEntryIt ELSE InFront(k, mEntryIt)
      /\ mCounter' = IF found THEN mCounter ELSE mCounter + 1
      /\ UNCHANGED walk
  BY DEF hash_put
<1> HIDE DEF size, chain
<1>5. found <=> In(k, mEntryIt)
  <2>1. h \in Buckets(size)
    BY <1>2, HashInRange
  <2> QED BY <1>3, <2>1 DEF Chains
<1> HIDE DEF found
<1>6. CASE found
  <2>1. mTable' = chain /\ mEntryIt' = mEntryIt /\ mCounter' = mCounter
    BY <1>4, <1>6
  <2>2. TypeOK'
    BY <1>1, <1>2, <1>3, <1>4, <2>1 DEF TypeOK, walk
  <2>3. ChainsAreList'
    BY <1>1, <1>2, <1>3, <1>4, <2>1 DEF ChainsAreList, Chains
  <2>4. WalkIsComplete' /\ WalkGoesOn'
    BY <1>4, <2>1 DEF TableInv, WalkIsComplete, WalkGoesOn, walk
  <2> QED BY <1>5, <1>6, <2>1, <2>2, <2>3, <2>4 DEF TableInv
<1>7. CASE ~found
  <2>1. mTable' = [chain EXCEPT ![h] = InFront(k, @)] /\ mEntryIt' = InFront(k, mEntryIt)
        /\ mCounter' = mCounter + 1
    BY <1>4, <1>7
  <2>2. mEntryIt \in Seq(Keys) /\ ~In(k, mEntryIt)
    BY <1>1, <1>5, <1>7 DEF TypeOK
  <2>3. /\ mEntryIt' \in Seq(Keys) /\ Len(mEntryIt') = Len(mEntryIt) + 1
        /\ Once(mEntryIt')
        /\ \A o : In(o, mEntryIt') <=> o = k \/ In(o, mEntryIt)
        /\ \A o, l : o # k => (After(o, l, mEntryIt') <=> After(o, l, mEntryIt))
    BY <1>1, <2>1, <2>2, ListFront
  <2>4. mTable' \in [Buckets(size) -> Seq(Keys)] /\ Chains(mTable', size, mEntryIt')
    BY <1>2, <1>3, <2>1, <2>2, ChainsWith
  <2>5. TypeOK'
    BY <1>1, <1>2, <1>4, <2>1, <2>3, <2>4 DEF TypeOK, walk
  <2>6. ChainsAreList'
    BY <1>1, <1>2, <1>4, <2>1, <2>3, <2>4 DEF ChainsAreList, Chains, TypeOK
  <2>7. it # None => In(it, mEntryIt) /\ it # k
    BY <2>2 DEF TableInv, WalkGoesOn
  <2>8. WalkIsComplete' /\ WalkGoesOn'
    BY <1>4, <2>3, <2>7, WalkStays DEF walk
  <2> QED BY <2>3, <2>5, <2>6, <2>8 DEF TableInv
<1> QED BY <1>6, <1>7

\* An entry erased is not.
LEMMA EraseInv ==
    ASSUME TableInv, NEW k \in Keys, hash_erase(k)
    PROVE  TableInv' /\ \A o \in Keys : In(o, mEntryIt') <=> o # k /\ In(o, mEntryIt)
<1>1. TypeOK /\ Once(mEntryIt) /\ Chains(mTable, mTableSize, mEntryIt)
      /\ mCounter = Len(mEntryIt) /\ mCounter <= mTableSize
  BY ChainsParts DEF TableInv
<1>2. InChain(k) <=> In(k, mEntryIt)
  BY Lookup DEF TableInv
<1>3. CASE ~InChain(k)
  <2>1. UNCHANGED vars
    BY <1>3 DEF hash_erase, vars, table, walk
  <2>2. TableInv'
    BY <2>1 DEF TableInv, TypeOK, ChainsAreList, WalkIsComplete, WalkGoesOn, vars, table, walk
  <2> QED BY <1>2, <1>3, <2>1, <2>2 DEF vars, table
<1>4. CASE InChain(k)
  <2>1. /\ mTable' = [mTable EXCEPT ![get_hash_value(k, mTableSize)] = Without(k, @)]
        /\ mEntryIt' = Without(k, mEntryIt)
        /\ mItem' = [mItem EXCEPT ![k] = None]
        /\ mCounter' = mCounter - 1
        /\ steady' = steady \ {k}
        /\ it # k /\ mTableSize' = mTableSize /\ it' = it /\ visited' = visited
    BY <1>4 DEF hash_erase
  <2>2. /\ mEntryIt \in Seq(Keys) /\ In(k, mEntryIt) /\ mTableSize \in Nat \ {0}
        /\ mTable \in [Buckets(mTableSize) -> Seq(Keys)]
    BY <1>1, <1>2, <1>4 DEF TypeOK
  <2>3. /\ mEntryIt' \in Seq(Keys) /\ Len(mEntryIt') = Len(mEntryIt) - 1
        /\ Once(mEntryIt')
        /\ \A o : In(o, mEntryIt') <=> o # k /\ In(o, mEntryIt)
        /\ \A o, l : o # k /\ l # k =>
               (After(o, l, mEntryIt') <=> After(o, l, mEntryIt))
    BY <1>1, <2>1, <2>2, Out
  <2>4. mTable' \in [Buckets(mTableSize) -> Seq(Keys)] /\ Chains(mTable', mTableSize, mEntryIt')
    BY <1>1, <2>1, <2>2, ChainsWithout
  <2>5. TypeOK'
    BY <1>1, <2>1, <2>3, <2>4 DEF TypeOK
  <2>6. ChainsAreList'
    BY <1>1, <2>1, <2>3, <2>4 DEF ChainsAreList, Chains, TypeOK
  <2>7. \A o : After(o, k, mEntryIt') => In(k, mEntryIt')
    BY DEF After, In
  <2>8. it # None => In(it, mEntryIt)
    BY DEF TableInv, WalkGoesOn
  <2>9. WalkIsComplete' /\ WalkGoesOn'
    BY <2>1, <2>3, <2>7, <2>8, WalkStays
  <2> QED BY <2>3, <2>5, <2>6, <2>9 DEF TableInv
<1> QED BY <1>3, <1>4

\* A replaced item keeps the invariant.
LEMMA ReplaceInv ==
    ASSUME TableInv, NEW k \in Keys, NEW x \in Items, hash_replace(k, x)
    PROVE  TableInv'
BY DEF TableInv, TypeOK, ChainsAreList, WalkIsComplete, WalkGoesOn, hash_replace, walk

\* Nothing is left when the table is cleared.
LEMMA ClearInv ==
    ASSUME TableInv, hash_clear
    PROVE  TableInv' /\ \A o : ~In(o, mEntryIt')
<1>1. Once(<<>>) /\ \A k : ~In(k, <<>>)
  BY DEF Once, In
<1>2. \A h \in Buckets(mTableSize) : EmptyTable(mTableSize)[h] = <<>>
  BY DEF EmptyTable
<1>3. TypeOK'
  BY DEF TableInv, TypeOK, hash_clear, EmptyTable, walk
<1>4. ChainsAreList'
  BY <1>1, <1>2 DEF TableInv, TypeOK, hash_clear, ChainsAreList
<1>5. WalkIsComplete' /\ WalkGoesOn'
  BY DEF TableInv, hash_clear, WalkIsComplete, WalkGoesOn, walk
<1> QED BY <1>1, <1>3, <1>4, <1>5 DEF TableInv, hash_clear

\* A walk begins.
LEMMA BeginInv ==
    ASSUME TableInv, hash_loop_begin
    PROVE  TableInv'
<1>1. mEntryIt \in Seq(Keys) /\ Len(mEntryIt) > 0 /\ mEntryIt[1] \in Keys
  BY DEF TableInv, TypeOK, hash_loop_begin
<1>2. /\ it' = mEntryIt[1] /\ visited' = <<mEntryIt[1]>>
      /\ steady' = {mEntryIt[n] : n \in 1..Len(mEntryIt)}
      /\ UNCHANGED table
  BY DEF hash_loop_begin
<1>3. TypeOK'
  BY <1>1, <1>2 DEF TableInv, TypeOK, table
<1>4. ChainsAreList'
  BY <1>2 DEF TableInv, ChainsAreList, table
<1>5. Once(mEntryIt)
  BY DEF TableInv, ChainsAreList
<1>6. \A o : In(o, visited') <=> o = it'
  BY <1>2 DEF In
<1>7. WalkIsComplete'
  BY <1>1, <1>2, NoneAssumption DEF WalkIsComplete, Once
<1>8. WalkGoesOn'
  <2>1. In(it', mEntryIt')
    BY <1>1, <1>2 DEF In, table
  <2>2. Len(visited') > 0 /\ visited'[Len(visited')] = it'
    BY <1>2
  <2>3. ASSUME NEW k \in steady' PROVE In(k, visited') \/ After(it', k, mEntryIt')
    <3>1. PICK n \in 1..Len(mEntryIt) : k = mEntryIt[n]
      BY <1>2
    <3>2. CASE n = 1
      BY <1>2, <1>6, <3>1, <3>2
    <3>3. CASE n # 1
      BY <1>1, <1>2, <3>1, <3>3 DEF After, table
    <3> QED BY <3>2, <3>3
  <2>4. ASSUME NEW k \in Keys, After(it', k, mEntryIt') PROVE ~In(k, visited')
    <3>1. PICK m \in 1..Len(mEntryIt), n \in 1..Len(mEntryIt) :
              m < n /\ mEntryIt[m] = it' /\ mEntryIt[n] = k
      BY <1>2, <2>4 DEF After, table
    <3>2. k # it'
      BY <1>1, <1>5, <3>1 DEF Once
    <3> QED BY <1>6, <3>2
  <2> QED BY <2>1, <2>2, <2>3, <2>4 DEF WalkGoesOn
<1> QED BY <1>3, <1>4, <1>7, <1>8 DEF TableInv

\* The entry after the one the walk is at is new to it, and what was to come
\* is that entry or comes after it.
LEMMA NextInv ==
    ASSUME TableInv, hash_loop_next
    PROVE  TableInv'
<1> DEFINE n == Place(it, mEntryIt)
           new == mEntryIt[n + 1]
<1>1. /\ it # None /\ it' = NextOf(it)
      /\ visited' = IF NextOf(it) = None THEN visited ELSE Append(visited, NextOf(it))
      /\ UNCHANGED <<table, steady>>
  BY DEF hash_loop_next
<1>2. /\ TypeOK /\ Once(mEntryIt) /\ Once(visited) /\ In(it, mEntryIt)
      /\ Len(visited) > 0 /\ visited[Len(visited)] = it
      /\ \A k \in steady : In(k, visited) \/ After(it, k, mEntryIt)
      /\ \A k \in Keys : After(it, k, mEntryIt) => ~In(k, visited)
  BY <1>1 DEF TableInv, ChainsAreList, WalkIsComplete, WalkGoesOn
<1>3. mEntryIt \in Seq(Keys) /\ visited \in Seq(Keys)
  BY <1>2 DEF TypeOK
<1>4. n \in 1..Len(mEntryIt) /\ mEntryIt[n] = it
  BY <1>2 DEF In, Place
<1>5. NextOf(it) = IF n = Len(mEntryIt) THEN None ELSE new
  BY DEF NextOf
<1> HIDE DEF n
<1>6. ChainsAreList'
  BY <1>1 DEF TableInv, ChainsAreList, table
<1>7. \A m \in 1..Len(mEntryIt) : mEntryIt[m] = it => m = n
  BY <1>2, <1>4 DEF Once
<1>8. CASE n = Len(mEntryIt)
  <2>1. it' = None /\ visited' = visited
    BY <1>1, <1>5, <1>8
  <2>2. \A k : ~After(it, k, mEntryIt)
    BY <1>3, <1>4, <1>7, <1>8 DEF After
  <2>3. TypeOK'
    BY <1>1, <1>2, <2>1 DEF TypeOK, table
  <2>4. WalkIsComplete' /\ WalkGoesOn'
    BY <1>1, <1>2, <2>1, <2>2 DEF WalkIsComplete, WalkGoesOn
  <2> QED BY <1>6, <2>3, <2>4 DEF TableInv
<1>9. CASE n # Len(mEntryIt)
  <2>1. n + 1 \in 1..Len(mEntryIt) /\ new \in Keys
    BY <1>3, <1>4, <1>9
  <2>2. it' = new /\ visited' = Append(visited, new)
    BY <1>1, <1>5, <1>9, <2>1, NoneAssumption
  <2>3. ~In(new, visited)
    BY <1>2, <1>4, <2>1 DEF After
  <2>4. TypeOK'
    BY <1>1, <1>2, <1>3, <2>1, <2>2 DEF TypeOK, table
  <2> HIDE DEF new
  <2>5. /\ visited' \in Seq(Keys) /\ Len(visited') = Len(visited) + 1
        /\ visited'[Len(visited) + 1] = new
        /\ \A m \in 1..Len(visited) : visited'[m] = visited[m]
    BY <1>3, <2>1, <2>2
  <2>6. \A o : In(o, visited') <=> o = new \/ In(o, visited)
    <3> SUFFICES ASSUME NEW o PROVE In(o, visited') <=> o = new \/ In(o, visited)
      OBVIOUS
    <3>1. ASSUME In(o, visited') PROVE o = new \/ In(o, visited)
      BY <1>3, <2>5, <3>1 DEF In
    <3>2. ASSUME o = new PROVE In(o, visited')
      <4>1. Len(visited) + 1 \in 1..Len(visited')
        BY <1>3, <2>5
      <4> QED BY <2>5, <3>2, <4>1 DEF In
    <3>3. ASSUME In(o, visited) PROVE In(o, visited')
      BY <1>3, <2>5, <3>3 DEF In
    <3> QED BY <3>1, <3>2, <3>3
  <2>7. Once(visited')
    BY <1>2, <1>3, <2>3, <2>5 DEF Once, In
  <2>8. WalkIsComplete'
    BY <2>1, <2>2, <2>7, NoneAssumption DEF WalkIsComplete
  <2>9. ASSUME NEW k PROVE After(it, k, mEntryIt) <=> k = new \/ After(new, k, mEntryIt)
    <3>1. ASSUME After(it, k, mEntryIt) PROVE k = new \/ After(new, k, mEntryIt)
      <4>1. PICK m \in 1..Len(mEntryIt) : n < m /\ mEntryIt[m] = k
        BY <1>7, <3>1 DEF After
      <4>2. CASE m = n + 1
        BY <4>1, <4>2 DEF new
      <4>3. CASE m # n + 1
        BY <1>3, <1>4, <2>1, <4>1, <4>3 DEF After, new
      <4> QED BY <4>2, <4>3
    <3>2. ASSUME k = new PROVE After(it, k, mEntryIt)
      BY <1>3, <1>4, <2>1, <3>2 DEF After, new
    <3>3. ASSUME After(new, k, mEntryIt) PROVE After(it, k, mEntryIt)
      <4>1. PICK l \in 1..Len(mEntryIt), m \in 1..Len(mEntryIt) :
                l < m /\ mEntryIt[l] = new /\ mEntryIt[m] = k
        BY <3>3 DEF After
      <4>2. l = n + 1
        BY <1>2, <2>1, <4>1 DEF Once, new
      <4>3. n < m
        BY <1>3, <1>4, <4>1, <4>2
      <4> QED BY <1>4, <4>1, <4>3 DEF After
    <3> QED BY <3>1, <3>2, <3>3
  <2>10. \A k : After(new, k, mEntryIt) => k # new
    BY <1>2, <1>3 DEF After, Once
  <2>11. In(new, mEntryIt)
    BY <2>1 DEF In, new
  <2>12. WalkGoesOn'
    <3>1. mEntryIt' = mEntryIt /\ steady' = steady /\ it' = new
      BY <1>1, <2>2 DEF table
    <3>2. Len(visited') > 0 /\ visited'[Len(visited')] = new
      BY <1>3, <2>5
    <3>3. \A k \in steady : In(k, visited') \/ After(new, k, mEntryIt)
      BY <1>2, <2>6, <2>9
    <3>4. \A k \in Keys : After(new, k, mEntryIt) => ~In(k, visited')
      BY <1>2, <2>6, <2>9, <2>10
    <3> QED BY <2>11, <3>1, <3>2, <3>3, <3>4 DEF WalkGoesOn
  <2> QED BY <1>6, <2>4, <2>8, <2>12 DEF TableInv
<1> QED BY <1>8, <1>9

-----------------------------------------------------------------------------
\* A step keeps the inductive invariant.
LEMMA StepInv == TableInv /\ [Next]_vars => TableInv'
<1> SUFFICES ASSUME TableInv, [Next]_vars PROVE TableInv'
  OBVIOUS
<1>1. ASSUME NEW k \in Keys, NEW x \in Items, hash_put(k, x) PROVE TableInv'
  BY <1>1, PutInv
<1>2. ASSUME NEW k \in Keys, NEW x \in Items, hash_replace(k, x) PROVE TableInv'
  BY <1>2, ReplaceInv
<1>3. ASSUME NEW k \in Keys, hash_erase(k) PROVE TableInv'
  BY <1>3, EraseInv
<1>4. CASE hash_clear
  BY <1>4, ClearInv
<1>5. CASE hash_loop_begin
  BY <1>5, BeginInv
<1>6. CASE hash_loop_next
  BY <1>6, NextInv
<1>7. CASE UNCHANGED vars
  BY <1>7 DEF TableInv, TypeOK, ChainsAreList, WalkIsComplete, WalkGoesOn, vars, table, walk
<1> QED BY <1>1, <1>2, <1>3, <1>4, <1>5, <1>6, <1>7 DEF Next

\* The inductive invariant holds in every reachable state, for any keys, any
\* hash values and any size the table is made with.
THEOREM TableInvariance == Spec => []TableInv
BY InitInv, StepInv, PTL DEF Spec

\* hash_put, hash_erase, hash_replace, hash_clear and the walk keep every
\* field of the table in its type, mTableSize above 0 (get_hash_value divides
\* by it).
THEOREM TypeCorrect == Spec => []TypeOK
<1>1. TableInv => TypeOK
  BY DEF TableInv
<1> QED BY <1>1, TableInvariance, PTL

\* The chains hold what the list holds, each entry once and in the chain that
\* its key hashes to, through every resize and every erase.
THEOREM ChainsAlwaysList == Spec => []ChainsAreList
<1>1. TableInv => ChainsAreList
  BY DEF TableInv
<1> QED BY <1>1, TableInvariance, PTL

\* A walk (hash_loop_begin, hash_loop_next) meets every entry that is there
\* from its start to its end, none twice, whatever user code does to the table
\* meanwhile.
THEOREM WalksAreComplete == Spec => []WalkIsComplete
<1>1. TableInv => WalkIsComplete
  BY DEF TableInv
<1> QED BY <1>1, TableInvariance, PTL

\* All that a table holds: its types, chains that are the list, and walks
\* that user code cannot upset.
THEOREM TablesAlwaysHold == Spec => []TablesHold
<1>1. TableInv => TablesHold
  BY DEF TableInv, TablesHold
<1> QED BY <1>1, TableInvariance, PTL

-----------------------------------------------------------------------------
\* What a lookup returns, read off the list.
Listed(k) == IF In(k, mEntryIt) THEN mItem[k] ELSE None

\* What is found along the chains is what the list holds.
LEMMA ItemIsListed == TableInv => \A k \in Keys : hash_item(k) = Listed(k)
<1> SUFFICES ASSUME TableInv, NEW k \in Keys PROVE hash_item(k) = Listed(k)
  OBVIOUS
<1>1. InChain(k) <=> In(k, mEntryIt)
  BY Lookup DEF TableInv
<1> QED BY <1>1 DEF hash_item, Listed

\* An empty table is an empty store.
LEMMA InitIsStore == Init => Store!Init
<1> SUFFICES ASSUME Init PROVE \A k \in Keys : hash_item(k) = None
  BY DEF Store!Init, items
<1>1. \A k \in Keys : mItem[k] = None
  BY DEF Init
<1> QED BY <1>1 DEF hash_item

\* Every step of the table is a step of the store or leaves it as it is.
LEMMA StepIsStore == TableInv /\ TableInv' /\ [Next]_vars => [Store!Next]_items
<1> SUFFICES ASSUME TableInv, TableInv', [Next]_vars PROVE Store!Next \/ items' = items
  OBVIOUS
<1> USE DEF Store!Next, Store!Put, Store!Replace, Store!Erase, Store!Clear
<1>1. items = [k \in Keys |-> Listed(k)]
  BY ItemIsListed DEF items
<1>2. items' = [k \in Keys |-> Listed(k)']
  <2>1. \A k \in Keys : hash_item(k)' = Listed(k)'
    <3> SUFFICES ASSUME NEW k \in Keys PROVE hash_item(k)' = Listed(k)'
      OBVIOUS
    <3>1. get_hash_value(k, mTableSize') \in Buckets(mTableSize')
      BY HashInRange DEF TableInv, TypeOK
    <3>2. InChain(k)' <=> In(k, mEntryIt')
      BY <3>1 DEF TableInv, ChainsAreList, InChain
    <3> QED BY <3>2 DEF hash_item, Listed
  <2> QED BY <2>1 DEF items
<1>3. ASSUME NEW k \in Keys, NEW x \in Items, hash_put(k, x)
      PROVE  items' = [items EXCEPT ![k] = x]
  <2>1. \A o \in Keys : In(o, mEntryIt') <=> o = k \/ In(o, mEntryIt)
    BY <1>3, PutInv
  <2>2. mItem' = [mItem EXCEPT ![k] = x] /\ mItem \in [Keys -> Items \cup {None}]
    BY <1>3 DEF hash_put, TableInv, TypeOK
  <2>3. \A o \in Keys : Listed(o)' = IF o = k THEN x ELSE Listed(o)
    BY <2>1, <2>2 DEF Listed
  <2> QED BY <1>1, <1>2, <2>3
<1>4. ASSUME NEW k \in Keys, NEW x \in Items, hash_replace(k, x)
      PROVE  items' = [items EXCEPT ![k] = x]
  <2>1. mItem' = [mItem EXCEPT ![k] = x] /\ mEntryIt' = mEntryIt /\ In(k, mEntryIt)
    BY <1>4, Lookup DEF hash_replace, TableInv
  <2>2. mItem \in [Keys -> Items \cup {None}]
    BY DEF TableInv, TypeOK
  <2>3. \A o \in Keys : Listed(o)' = IF o = k THEN x ELSE Listed(o)
    BY <2>1, <2>2 DEF Listed
  <2> QED BY <1>1, <1>2, <2>3
<1>5. ASSUME NEW k \in Keys, hash_erase(k)
      PROVE  items' = [items EXCEPT ![k] = None]
  <2>1. \A o \in Keys : In(o, mEntryIt') <=> o # k /\ In(o, mEntryIt)
    BY <1>5, EraseInv
  <2>2. \A o \in Keys : o # k => mItem'[o] = mItem[o]
    BY <1>5 DEF hash_erase, TableInv, TypeOK
  <2>3. \A o \in Keys : Listed(o)' = IF o = k THEN None ELSE Listed(o)
    BY <2>1, <2>2 DEF Listed
  <2> QED BY <1>1, <1>2, <2>3
<1>6. ASSUME hash_clear PROVE items' = [k \in Keys |-> None]
  <2>1. \A o \in Keys : Listed(o)' = None
    BY <1>6, ClearInv DEF Listed
  <2> QED BY <1>2, <2>1
<1>7. ASSUME UNCHANGED table PROVE items' = items
  <2>1. \A o \in Keys : Listed(o)' = Listed(o)
    BY <1>7 DEF Listed, table
  <2> QED BY <1>1, <1>2, <2>1
<1>8. CASE hash_loop_begin \/ hash_loop_next \/ UNCHANGED vars
  BY <1>7, <1>8 DEF hash_loop_begin, hash_loop_next, vars
<1> QED BY <1>3, <1>4, <1>5, <1>6, <1>8 DEF Next

\* The table is a store: what hash_item returns for any key is the item last
\* put under it and not erased, whatever the table looks like inside.
THEOREM TableIsStore == Spec => IsStore
<1>1. TableInv /\ TableInv' /\ [Next]_vars => [Store!Next]_items
  BY StepIsStore
<1> QED BY <1>1, InitIsStore, TableInvariance, PTL DEF Spec, IsStore, Store!Spec

-----------------------------------------------------------------------------
(* Pages of temporaries.                                                   *)

PagesConstants == SLOT_SIZE \in Nat \ {0} /\ MaxPages \in Nat /\ FirstPages \in 1..MaxPages

\* Places in the order they are given out; the one where a frame begins, and
\* behind the last frame the one where the next temporary goes.
Before(pg, s, qg, t) == pg < qg \/ (pg = qg /\ s < t)
PageOf(n) == IF n <= Len(frames) THEN frames[n][1] ELSE gStackPage
SlotOf(n) == IF n <= Len(frames) THEN frames[n][2] ELSE gStackSlot

\* Frames are nested, and one was given what lies between its beginning and
\* that of the next.
FramesTyped ==
    /\ frames \in Seq(Nat \X (0..SLOT_SIZE))
    /\ owned \in Seq(SUBSET (Nat \X P!Slots)) /\ Len(owned) = Len(frames)
FramesNest ==
    \A m, n \in 1..(Len(frames) + 1) :
        m <= n => ~Before(PageOf(n), SlotOf(n), PageOf(m), SlotOf(m))
OwnedLieBetween ==
    \A n \in 1..Len(owned) : \A pg \in Nat, s \in P!Slots :
        <<pg, s>> \in owned[n] <=>
            /\ ~Before(pg, s, PageOf(n), SlotOf(n))
            /\ Before(pg, s, PageOf(n + 1), SlotOf(n + 1))
HeldIsOwned ==
    \A pg \in DOMAIN gStack, s \in P!Slots :
        gStack[pg][s] <=> \E n \in 1..Len(owned) : <<pg, s>> \in owned[n]
EndedIsGiven ==
    /\ \A place \in ended.given : \E n \in DOMAIN ended.deleted : place \in ended.deleted[n]
    /\ \A n \in DOMAIN ended.deleted :
          /\ ended.deleted[n] \subseteq ended.given
          /\ \A m \in DOMAIN ended.deleted : m # n => ended.deleted[m] \cap ended.deleted[n] = {}

\* The inductive invariant of the pages.
PInv == P!TypeOK /\ FramesTyped /\ FramesNest /\ OwnedLieBetween /\ HeldIsOwned /\ EndedIsGiven

\* The invariant holds at first.
LEMMA PagesInit == ASSUME PagesConstants, P!Init PROVE PInv
<1>1. P!TypeOK
  BY DEF P!Init, P!TypeOK, P!Empty, P!Slots, PagesConstants
<1>2. FramesTyped
  BY DEF P!Init, FramesTyped
<1>3. FramesNest
  BY DEF P!Init, FramesNest, PageOf, SlotOf, Before
<1>4. OwnedLieBetween /\ HeldIsOwned /\ EndedIsGiven
  BY DEF P!Init, OwnedLieBetween, HeldIsOwned, EndedIsGiven, P!Empty
<1> QED BY <1>1, <1>2, <1>3, <1>4 DEF PInv

\* Places are places.
LEMMA Positions ==
    ASSUME P!TypeOK, FramesTyped
    PROVE  \A n \in 1..(Len(frames) + 1) : PageOf(n) \in Nat /\ SlotOf(n) \in 0..SLOT_SIZE
<1>1. gStackPage \in Nat /\ gStackSlot \in 0..SLOT_SIZE
  BY DEF P!TypeOK
<1>2. frames \in Seq(Nat \X (0..SLOT_SIZE))
  BY DEF FramesTyped
<1> DEFINE T == Nat \X (0..SLOT_SIZE)
<1>3. \A n \in 1..Len(frames) : frames[n] \in T
  BY <1>2
<1>4. \A t \in T : t[1] \in Nat /\ t[2] \in 0..SLOT_SIZE
  OBVIOUS
<1> HIDE DEF T
<1> QED BY <1>1, <1>3, <1>4 DEF PageOf, SlotOf

\* A call begins: its frame has nothing yet.
LEMMA PagesStart == ASSUME PagesConstants, PInv, P!stack_start_stack PROVE PInv'
<1> DEFINE N == Len(frames)
<1>1. /\ frames \in Seq(Nat \X (0..SLOT_SIZE)) /\ owned \in Seq(SUBSET (Nat \X P!Slots))
      /\ N \in Nat /\ Len(owned) = N /\ gStackPage \in Nat /\ gStackSlot \in 0..SLOT_SIZE
  BY DEF PInv, FramesTyped, P!TypeOK
<1>2. /\ frames' = Append(frames, <<gStackPage, gStackSlot>>) /\ owned' = Append(owned, {})
      /\ UNCHANGED <<gStackPageSize, gStack, gStackPage, gStackSlot, ended>>
  BY DEF P!stack_start_stack
<1>3. /\ frames' \in Seq(Nat \X (0..SLOT_SIZE)) /\ Len(frames') = N + 1
      /\ frames'[N + 1] = <<gStackPage, gStackSlot>> /\ \A n \in 1..N : frames'[n] = frames[n]
  BY <1>1, <1>2
<1>4. /\ owned' \in Seq(SUBSET (Nat \X P!Slots)) /\ Len(owned') = N + 1
      /\ owned'[N + 1] = {} /\ \A n \in 1..N : owned'[n] = owned[n]
  BY SMTT(30), <1>1, <1>2
<1>5. \A n \in 1..(N + 2) :
          /\ PageOf(n)' = IF n <= N + 1 THEN PageOf(n) ELSE PageOf(N + 1)
          /\ SlotOf(n)' = IF n <= N + 1 THEN SlotOf(n) ELSE SlotOf(N + 1)
  <2> SUFFICES ASSUME NEW n \in 1..(N + 2)
               PROVE  /\ PageOf(n)' = IF n <= N + 1 THEN PageOf(n) ELSE PageOf(N + 1)
                      /\ SlotOf(n)' = IF n <= N + 1 THEN SlotOf(n) ELSE SlotOf(N + 1)
    OBVIOUS
  <2>1. /\ PageOf(n)' = IF n <= N + 1 THEN frames'[n][1] ELSE gStackPage
        /\ SlotOf(n)' = IF n <= N + 1 THEN frames'[n][2] ELSE gStackSlot
    BY <1>2, <1>3 DEF PageOf, SlotOf
  <2>2. PageOf(N + 1) = gStackPage /\ SlotOf(N + 1) = gStackSlot
    BY <1>1 DEF PageOf, SlotOf
  <2>3. CASE n <= N
    <3>1. PageOf(n) = frames[n][1] /\ SlotOf(n) = frames[n][2]
      BY <2>3 DEF PageOf, SlotOf
    <3>2. n \in 1..N /\ frames'[n] = frames[n]
      BY <1>1, <1>3, <2>3
    <3> QED BY <1>1, <2>1, <2>3, <3>1, <3>2
  <2>4. CASE n = N + 1
    BY <1>1, <1>3, <2>1, <2>2, <2>4
  <2>5. CASE n = N + 2
    BY <1>1, <2>1, <2>2, <2>5
  <2> QED BY <1>1, <2>3, <2>4, <2>5
<1>6. \A n \in 1..(N + 1) : PageOf(n) \in Nat /\ SlotOf(n) \in 0..SLOT_SIZE
  BY Positions DEF PInv
<1> HIDE DEF N
<1>7. P!TypeOK'
  BY <1>1, <1>2, <1>3, <1>4 DEF PInv, P!TypeOK
<1>8. FramesTyped'
  BY <1>3, <1>4 DEF FramesTyped, P!Slots
<1>9. FramesNest'
  <2>1. \A m, n \in 1..(N + 1) :
            m <= n => ~Before(PageOf(n), SlotOf(n), PageOf(m), SlotOf(m))
    BY DEF PInv, FramesNest, N
  <2>2. \A m, n \in 1..(N + 2) :
            m <= n => ~Before(PageOf(n)', SlotOf(n)', PageOf(m)', SlotOf(m)')
    BY <1>1, <1>5, <2>1
  <2> QED BY <1>1, <1>3, <2>2 DEF FramesNest, Before
<1>10. OwnedLieBetween'
  <2>1. \A n \in 1..N : \A pg \in Nat, s \in P!Slots :
            <<pg, s>> \in owned[n] <=>
                /\ ~Before(pg, s, PageOf(n), SlotOf(n))
                /\ Before(pg, s, PageOf(n + 1), SlotOf(n + 1))
    BY <1>1 DEF PInv, OwnedLieBetween
  <2>2. \A n \in 1..(N + 1) : \A pg \in Nat, s \in P!Slots :
            <<pg, s>> \in owned'[n] <=>
                /\ ~Before(pg, s, PageOf(n)', SlotOf(n)')
                /\ Before(pg, s, PageOf(n + 1)', SlotOf(n + 1)')
    <3> SUFFICES ASSUME NEW n \in 1..(N + 1), NEW pg \in Nat, NEW s \in P!Slots
                 PROVE  <<pg, s>> \in owned'[n] <=>
                            /\ ~Before(pg, s, PageOf(n)', SlotOf(n)')
                            /\ Before(pg, s, PageOf(n + 1)', SlotOf(n + 1)')
      OBVIOUS
    <3>1. CASE n <= N
      BY <1>1, <1>4, <1>5, <2>1, <3>1
    <3>2. CASE n = N + 1
      <4>1. PageOf(n)' = PageOf(n + 1)' /\ SlotOf(n)' = SlotOf(n + 1)'
        BY <1>1, <1>5, <3>2
      <4> QED BY <1>4, <3>2, <4>1
    <3> QED BY <1>1, <3>1, <3>2
  <2> QED BY <1>4, <2>2 DEF OwnedLieBetween, Before, P!Slots
<1>11. HeldIsOwned'
  <2>1. \A place : (\E n \in 1..(N + 1) : place \in owned'[n]) <=> \E n \in 1..N : place \in owned[n]
    BY <1>1, <1>4
  <2>2. \A pg \in DOMAIN gStack, s \in P!Slots :
            gStack[pg][s] <=> \E n \in 1..N : <<pg, s>> \in owned[n]
    BY <1>1 DEF PInv, HeldIsOwned
  <2> QED BY <1>2, <1>4, <2>1, <2>2 DEF HeldIsOwned, P!Slots
<1>12. EndedIsGiven'
  BY <1>2 DEF PInv, EndedIsGiven
<1> QED BY <1>7, <1>8, <1>9, <1>10, <1>11, <1>12 DEF PInv

\* The loops of stack_end_stack go over what lies between the beginning of
\* the frame and the next free place, and over none of it twice.
LEMMA EndedLieBetween ==
    ASSUME PagesConstants, P!TypeOK, NEW page \in Nat, NEW slot \in 0..SLOT_SIZE,
           ~Before(gStackPage, gStackSlot, page, slot)
    PROVE  LET D == P!Ended(page, slot)
           IN  /\ \A n \in DOMAIN D : D[n] \subseteq Nat \X P!Slots
               /\ \A m, n \in DOMAIN D : m # n => D[m] \cap D[n] = {}
               /\ \A pg \in Nat, s \in P!Slots :
                     (\E n \in DOMAIN D : <<pg, s>> \in D[n]) <=>
                         /\ ~Before(pg, s, page, slot)
                         /\ Before(pg, s, gStackPage, gStackSlot)
<1> DEFINE D == P!Ended(page, slot)
<1>1. gStackPage \in Nat /\ gStackSlot \in 0..SLOT_SIZE /\ SLOT_SIZE \in Nat \ {0}
  BY DEF PagesConstants, P!TypeOK
<1>2. \A pg, from, to, q, s : <<q, s>> \in P!Places(pg, from, to) <=> q = pg /\ s \in from..(to - 1)
  BY DEF P!Places
<1>3. \A pg \in Nat, from \in 0..SLOT_SIZE, to \in 0..SLOT_SIZE :
          P!Places(pg, from, to) \subseteq Nat \X P!Slots
  BY <1>1 DEF P!Places, P!Slots
<1>4. CASE page = gStackPage
  <2>1. D = <<P!Places(page, slot, gStackSlot)>>
    BY <1>4 DEF P!Ended
  <2>2. DOMAIN D = {1} /\ D[1] = P!Places(page, slot, gStackSlot)
    BY <2>1
  <2> HIDE DEF D
  <2>3. \A n \in DOMAIN D : D[n] \subseteq Nat \X P!Slots
    BY <1>1, <1>3, <2>2
  <2>4. \A m, n \in DOMAIN D : m # n => D[m] \cap D[n] = {}
    BY <2>2
  <2>5. ASSUME NEW pg \in Nat, NEW s \in P!Slots
        PROVE  (\E n \in DOMAIN D : <<pg, s>> \in D[n]) <=>
                    /\ ~Before(pg, s, page, slot)
                    /\ Before(pg, s, gStackPage, gStackSlot)
    <3>1. (\E n \in DOMAIN D : <<pg, s>> \in D[n]) <=> pg = page /\ s \in slot..(gStackSlot - 1)
      BY <1>2, <2>2
    <3> QED BY <1>1, <1>4, <3>1 DEF Before, P!Slots
  <2> QED BY <2>3, <2>4, <2>5 DEF D
<1>5. CASE page # gStackPage
  <2> DEFINE Last  == P!Places(gStackPage, 0, gStackSlot)
             Mid   == UNION {P!Places(between, 0, SLOT_SIZE) : between \in (page + 1)..(gStackPage - 1)}
             First == P!Places(page, slot, SLOT_SIZE)
  <2>1. D = <<Last, Mid, First>>
    BY <1>5 DEF P!Ended
  <2>2. \A q, s : <<q, s>> \in Last <=> q = gStackPage /\ s \in 0..(gStackSlot - 1)
    BY <1>2
  <2>3. \A q, s : <<q, s>> \in First <=> q = page /\ s \in slot..(SLOT_SIZE - 1)
    BY <1>2
  <2>4. \A q, s : <<q, s>> \in Mid <=>
            q \in (page + 1)..(gStackPage - 1) /\ s \in 0..(SLOT_SIZE - 1)
    <3>1. \A q, s : <<q, s>> \in Mid <=>
              \E between \in (page + 1)..(gStackPage - 1) : <<q, s>> \in P!Places(between, 0, SLOT_SIZE)
      OBVIOUS
    <3>2. \A between, q, s : <<q, s>> \in P!Places(between, 0, SLOT_SIZE) <=>
              q = between /\ s \in 0..(SLOT_SIZE - 1)
      BY <1>2
    <3>3. ASSUME NEW q, NEW s
          PROVE  (\E between \in (page + 1)..(gStackPage - 1) : q = between /\ s \in 0..(SLOT_SIZE - 1))
                     <=> q \in (page + 1)..(gStackPage - 1) /\ s \in 0..(SLOT_SIZE - 1)
      OBVIOUS
    <3> DEFINE Between == (page + 1)..(gStackPage - 1)
               Within == 0..(SLOT_SIZE - 1)
    <3> HIDE DEF Mid, Between, Within
    <3> SUFFICES ASSUME NEW q, NEW s PROVE <<q, s>> \in Mid <=> q \in Between /\ s \in Within
      BY DEF Between, Within
    <3>4. <<q, s>> \in Mid <=>
              \E between \in Between : <<q, s>> \in P!Places(between, 0, SLOT_SIZE)
      BY <3>1 DEF Between
    <3>5. \A between : <<q, s>> \in P!Places(between, 0, SLOT_SIZE) <=> q = between /\ s \in Within
      BY <3>2 DEF Within
    <3> QED BY <3>4, <3>5
  <2>5. Last \subseteq Nat \X P!Slots /\ First \subseteq Nat \X P!Slots /\ Mid \subseteq Nat \X P!Slots
    <3>1. Last \subseteq Nat \X P!Slots /\ First \subseteq Nat \X P!Slots
      BY <1>1, <1>3
    <3>2. ASSUME NEW between \in (page + 1)..(gStackPage - 1)
          PROVE  P!Places(between, 0, SLOT_SIZE) \subseteq Nat \X P!Slots
      BY <1>1, <1>3
    <3> QED BY <3>1, <3>2
  <2>6. DOMAIN D = 1..3 /\ D[1] = Last /\ D[2] = Mid /\ D[3] = First
    BY <2>1
  <2> HIDE DEF D, Last, Mid, First
  <2>7. \A n \in DOMAIN D : D[n] \subseteq Nat \X P!Slots
    BY <2>5, <2>6
  <2>8. page < gStackPage
    BY <1>1, <1>5 DEF Before
  <2>9. /\ \A place \in Nat \X P!Slots : ~(place \in Last /\ place \in Mid)
        /\ \A place \in Nat \X P!Slots : ~(place \in Last /\ place \in First)
        /\ \A place \in Nat \X P!Slots : ~(place \in Mid /\ place \in First)
    <3> SUFFICES ASSUME NEW q \in Nat, NEW s \in P!Slots
                 PROVE  /\ ~(<<q, s>> \in Last /\ <<q, s>> \in Mid)
                        /\ ~(<<q, s>> \in Last /\ <<q, s>> \in First)
                        /\ ~(<<q, s>> \in Mid /\ <<q, s>> \in First)
      OBVIOUS
    <3> QED BY <1>1, <2>2, <2>3, <2>4, <2>8
  <2>10. ASSUME NEW m \in DOMAIN D, NEW n \in DOMAIN D, m # n PROVE D[m] \cap D[n] = {}
    <3>1. \A place \in D[m] : place \in Nat \X P!Slots
      BY <2>7
    <3>2. m \in {1, 2, 3} /\ n \in {1, 2, 3}
      BY <2>6
    <3> QED BY <2>6, <2>9, <2>10, <3>1, <3>2
  <2>11. ASSUME NEW pg \in Nat, NEW s \in P!Slots
         PROVE  (\E n \in DOMAIN D : <<pg, s>> \in D[n]) <=>
                    /\ ~Before(pg, s, page, slot)
                    /\ Before(pg, s, gStackPage, gStackSlot)
    <3>1. (\E n \in DOMAIN D : <<pg, s>> \in D[n]) <=>
              <<pg, s>> \in Last \/ <<pg, s>> \in Mid \/ <<pg, s>> \in First
      <4>1. \A n : n \in DOMAIN D <=> n = 1 \/ n = 2 \/ n = 3
        BY <2>6
      <4> QED BY <2>6, <4>1
    <3> QED BY <1>1, <2>2, <2>3, <2>4, <2>8, <3>1 DEF Before, P!Slots
  <2> QED BY <2>7, <2>10, <2>11 DEF D
<1> QED BY <1>4, <1>5

\* A call ends: all its temporaries go, and no other.
LEMMA PagesEnd == ASSUME PagesConstants, PInv, P!stack_end_stack PROVE PInv'
<1> DEFINE N == Len(frames)
           D == P!Ended(frames[N][1], frames[N][2])
<1>1. /\ frames \in Seq(Nat \X (0..SLOT_SIZE)) /\ owned \in Seq(SUBSET (Nat \X P!Slots))
      /\ N \in Nat /\ Len(owned) = N /\ frames # <<>>
  BY DEF PInv, FramesTyped, P!stack_end_stack
<1>2. N \in 1..N /\ N - 1 \in Nat
  BY <1>1
<1>3. /\ gStackPage' = frames[N][1] /\ gStackSlot' = frames[N][2]
      /\ frames' = SubSeq(frames, 1, N - 1) /\ owned' = SubSeq(owned, 1, N - 1)
      /\ ended' = [given |-> owned[N], deleted |-> D]
      /\ gStackPageSize' = gStackPageSize
      /\ gStack' = [pg \in DOMAIN gStack |-> [s \in P!Slots |->
                       gStack[pg][s] /\ \A n \in DOMAIN D : <<pg, s>> \notin D[n]]]
  BY DEF P!stack_end_stack
<1>4. /\ frames' \in Seq(Nat \X (0..SLOT_SIZE)) /\ Len(frames') = N - 1
      /\ \A n \in 1..(N - 1) : frames'[n] = frames[n]
  BY <1>1, <1>2, <1>3
<1>5. /\ owned' \in Seq(SUBSET (Nat \X P!Slots)) /\ Len(owned') = N - 1
      /\ \A n \in 1..(N - 1) : owned'[n] = owned[n]
  BY SMTT(30), <1>1, <1>2, <1>3
<1>6. /\ \A n \in 1..(N + 1) : PageOf(n) \in Nat /\ SlotOf(n) \in 0..SLOT_SIZE
      /\ PageOf(N) = frames[N][1] /\ SlotOf(N) = frames[N][2]
      /\ PageOf(N + 1) = gStackPage /\ SlotOf(N + 1) = gStackSlot
  BY <1>1, <1>2, Positions DEF PInv, PageOf, SlotOf
<1>7. \A n \in 1..N : PageOf(n)' = PageOf(n) /\ SlotOf(n)' = SlotOf(n)
  <2> SUFFICES ASSUME NEW n \in 1..N PROVE PageOf(n)' = PageOf(n) /\ SlotOf(n)' = SlotOf(n)
    OBVIOUS
  <2>1. /\ PageOf(n)' = IF n <= N - 1 THEN frames'[n][1] ELSE frames[N][1]
        /\ SlotOf(n)' = IF n <= N - 1 THEN frames'[n][2] ELSE frames[N][2]
    BY <1>3, <1>4 DEF PageOf, SlotOf
  <2>2. CASE n = N
    BY <1>1, <1>6, <2>1, <2>2
  <2>3. CASE n # N
    <3>1. n \in 1..(N - 1) /\ n <= N
      BY <1>1, <2>3
    <3>2. frames'[n] = frames[n]
      BY <1>4, <3>1
    <3> QED BY <2>1, <3>1, <3>2 DEF PageOf, SlotOf
  <2> QED BY <2>2, <2>3
<1>8. \A m, n \in 1..(N + 1) : m <= n => ~Before(PageOf(n), SlotOf(n), PageOf(m), SlotOf(m))
  BY DEF PInv, FramesNest
<1>9. /\ \A n \in DOMAIN D : D[n] \subseteq Nat \X P!Slots
      /\ \A m, n \in DOMAIN D : m # n => D[m] \cap D[n] = {}
      /\ \A pg \in Nat, s \in P!Slots :
            (\E n \in DOMAIN D : <<pg, s>> \in D[n]) <=>
                /\ ~Before(pg, s, frames[N][1], frames[N][2])
                /\ Before(pg, s, gStackPage, gStackSlot)
  <2>1. frames[N][1] \in Nat /\ frames[N][2] \in 0..SLOT_SIZE
    BY <1>1, <1>2, <1>6
  <2>2. ~Before(gStackPage, gStackSlot, frames[N][1], frames[N][2])
    <3>1. N + 1 \in 1..(N + 1) /\ N \in 1..(N + 1) /\ N <= N + 1
      BY <1>1, <1>2
    <3> QED BY <1>6, <1>8, <3>1
  <2> HIDE DEF N
  <2> QED BY <2>1, <2>2, EndedLieBetween DEF PInv
<1> HIDE DEF D
<1>10. /\ owned[N] \subseteq Nat \X P!Slots
       /\ \A pg \in Nat, s \in P!Slots :
             <<pg, s>> \in owned[N] <=> \E n \in DOMAIN D : <<pg, s>> \in D[n]
  <2>1. owned[N] \subseteq Nat \X P!Slots
    BY <1>1, <1>2
  <2>2. \A pg \in Nat, s \in P!Slots :
            <<pg, s>> \in owned[N] <=>
                /\ ~Before(pg, s, PageOf(N), SlotOf(N))
                /\ Before(pg, s, PageOf(N + 1), SlotOf(N + 1))
    BY <1>1, <1>2 DEF PInv, OwnedLieBetween
  <2> QED BY <1>6, <1>9, <2>1, <2>2
<1>11. \A n \in 1..(N - 1) : \A pg \in Nat, s \in P!Slots :
           <<pg, s>> \in owned[n] => <<pg, s>> \notin owned[N]
  <2> SUFFICES ASSUME NEW n \in 1..(N - 1), NEW pg \in Nat, NEW s \in P!Slots,
                      <<pg, s>> \in owned[n], <<pg, s>> \in owned[N]
               PROVE  FALSE
    OBVIOUS
  <2>1. n \in 1..N /\ n + 1 \in 1..(N + 1) /\ n + 1 <= N /\ N \in 1..(N + 1)
    BY SMTT(30), <1>1
  <2>2. Before(pg, s, PageOf(n + 1), SlotOf(n + 1)) /\ ~Before(pg, s, PageOf(N), SlotOf(N))
    BY <1>1, <1>2, <2>1 DEF PInv, OwnedLieBetween
  <2>3. ~Before(PageOf(N), SlotOf(N), PageOf(n + 1), SlotOf(n + 1))
    BY <1>8, <2>1
  <2>4. PageOf(N) \in Nat /\ SlotOf(N) \in Int /\ PageOf(n + 1) \in Nat /\ SlotOf(n + 1) \in Int
    BY <1>6, <2>1
  <2>5. s \in Int
    BY DEF P!Slots
  <2> QED BY <2>2, <2>3, <2>4, <2>5 DEF Before
<1>12. gStack \in [0..(gStackPageSize - 1) -> [P!Slots -> BOOLEAN]] /\ gStackPageSize \in 1..MaxPages
       /\ MaxPages \in Nat
  BY DEF PInv, P!TypeOK, PagesConstants
<1>13. P!TypeOK'
  <2>1. gStack' \in [0..(gStackPageSize - 1) -> [P!Slots -> BOOLEAN]]
    BY <1>3, <1>12
  <2>2. gStackPage' \in 0..(gStackPageSize - 1) /\ gStackSlot' \in 0..SLOT_SIZE
    <3>1. ~Before(PageOf(N + 1), SlotOf(N + 1), PageOf(N), SlotOf(N))
      <4>1. N + 1 \in 1..(N + 1) /\ N \in 1..(N + 1) /\ N <= N + 1
        BY <1>1, <1>2
      <4> QED BY <1>8, <4>1
    <3>2. PageOf(N) \in Nat /\ SlotOf(N) \in 0..SLOT_SIZE
      BY <1>1, <1>2, <1>6
    <3>3. gStackPage \in 0..(gStackPageSize - 1)
      BY DEF PInv, P!TypeOK
    <3> QED BY <1>3, <1>6, <1>12, <3>1, <3>2, <3>3 DEF Before
  <2> QED BY <1>3, <1>4, <1>5, <1>12, <2>1, <2>2 DEF P!TypeOK, P!Slots
<1>14. FramesTyped'
  BY <1>4, <1>5 DEF FramesTyped, P!Slots
<1>15. FramesNest'
  <2>1. \A m, n \in 1..N : m <= n => ~Before(PageOf(n)', SlotOf(n)', PageOf(m)', SlotOf(m)')
    <3> SUFFICES ASSUME NEW m \in 1..N, NEW n \in 1..N, m <= n
                 PROVE  ~Before(PageOf(n)', SlotOf(n)', PageOf(m)', SlotOf(m)')
      OBVIOUS
    <3>1. m \in 1..(N + 1) /\ n \in 1..(N + 1)
      BY <1>1
    <3>2. ~Before(PageOf(n), SlotOf(n), PageOf(m), SlotOf(m))
      BY <1>8, <3>1
    <3> QED BY <1>7, <3>2
  <2>2. Len(frames') + 1 = N
    BY <1>1, <1>4
  <2> QED BY <2>1, <2>2 DEF FramesNest, Before
<1>16. OwnedLieBetween'
  <2>1. \A n \in 1..(N - 1) : \A pg \in Nat, s \in P!Slots :
            <<pg, s>> \in owned'[n] <=>
                /\ ~Before(pg, s, PageOf(n)', SlotOf(n)')
                /\ Before(pg, s, PageOf(n + 1)', SlotOf(n + 1)')
    <3> SUFFICES ASSUME NEW n \in 1..(N - 1)
                 PROVE  \A pg \in Nat, s \in P!Slots :
                            <<pg, s>> \in owned'[n] <=>
                                /\ ~Before(pg, s, PageOf(n)', SlotOf(n)')
                                /\ Before(pg, s, PageOf(n + 1)', SlotOf(n + 1)')
      OBVIOUS
    <3>1. n \in 1..N /\ n + 1 \in 1..N
      BY <1>1
    <3>2. owned'[n] = owned[n]
          /\ PageOf(n)' = PageOf(n) /\ SlotOf(n)' = SlotOf(n)
          /\ PageOf(n + 1)' = PageOf(n + 1) /\ SlotOf(n + 1)' = SlotOf(n + 1)
      BY <1>5, <1>7, <3>1
    <3>3. \A pg \in Nat, s \in P!Slots :
              <<pg, s>> \in owned[n] <=>
                  /\ ~Before(pg, s, PageOf(n), SlotOf(n))
                  /\ Before(pg, s, PageOf(n + 1), SlotOf(n + 1))
      BY <1>1, <3>1 DEF PInv, OwnedLieBetween
    <3> QED BY <3>2, <3>3
  <2> QED BY <1>5, <2>1 DEF OwnedLieBetween, Before, P!Slots
<1>17. HeldIsOwned'
  <2> SUFFICES ASSUME NEW pg \in 0..(gStackPageSize - 1), NEW s \in P!Slots
               PROVE  gStack'[pg][s] <=> \E n \in 1..(N - 1) : <<pg, s>> \in owned[n]
    <3>1. DOMAIN gStack' = 0..(gStackPageSize - 1)
      BY <1>3, <1>12
    <3> QED BY <1>5, <3>1 DEF HeldIsOwned, P!Slots
  <2>1. pg \in Nat
    BY <1>12
  <2>2. gStack'[pg][s] <=> gStack[pg][s] /\ <<pg, s>> \notin owned[N]
    BY <1>3, <1>10, <1>12, <2>1
  <2>3. gStack[pg][s] <=> \E n \in 1..N : <<pg, s>> \in owned[n]
    BY <1>1, <1>12 DEF PInv, HeldIsOwned
  <2>4. \A n \in 1..N : n = N \/ n \in 1..(N - 1)
    BY <1>1
  <2>5. \A n \in 1..(N - 1) : n \in 1..N
    BY <1>1
  <2> QED BY <1>11, <2>1, <2>2, <2>3, <2>4, <2>5
<1>18. EndedIsGiven'
  <2>1. \A place \in owned[N] : \E n \in DOMAIN D : place \in D[n]
    BY <1>10
  <2>2. \A n \in DOMAIN D : D[n] \subseteq owned[N]
    BY <1>9, <1>10
  <2>3. ended'.given = owned[N] /\ ended'.deleted = D
    BY <1>3
  <2> QED BY <1>9, <2>1, <2>2, <2>3 DEF EndedIsGiven
<1> QED BY <1>13, <1>14, <1>15, <1>16, <1>17, <1>18 DEF PInv

\* A temporary is given out where the last frame goes on.
LEMMA PagesGive == ASSUME PagesConstants, PInv, P!stack_get_free_object PROVE PInv'
<1> DEFINE N == Len(frames)
           turn  == gStackSlot >= SLOT_SIZE
           page  == IF turn THEN gStackPage + 1 ELSE gStackPage
           slot  == IF turn THEN 0 ELSE gStackSlot
           full  == page = gStackPageSize
           paged == IF full THEN P!make_new_stack(gStackPageSize) ELSE gStack
           size  == IF full THEN 2 * gStackPageSize ELSE gStackPageSize
<1>1. /\ frames \in Seq(Nat \X (0..SLOT_SIZE)) /\ owned \in Seq(SUBSET (Nat \X P!Slots))
      /\ N \in Nat /\ Len(owned) = N /\ frames # <<>>
  BY DEF PInv, FramesTyped, P!stack_get_free_object
<1>2. N \in 1..N /\ N - 1 \in Nat
  BY <1>1
<1>3. /\ full => size <= MaxPages
      /\ gStackPageSize' = size
      /\ gStack' = [paged EXCEPT ![page][slot] = TRUE]
      /\ gStackPage' = page /\ gStackSlot' = slot + 1
      /\ owned' = [owned EXCEPT ![N] = @ \cup {<<page, slot>>}]
      /\ frames' = frames /\ ended' = ended
  BY <1>1 DEF P!stack_get_free_object
<1>4. /\ gStackPageSize \in 1..MaxPages /\ MaxPages \in Nat /\ SLOT_SIZE \in Nat \ {0}
      /\ gStackPage \in 0..(gStackPageSize - 1) /\ gStackSlot \in 0..SLOT_SIZE
      /\ gStack \in [0..(gStackPageSize - 1) -> [P!Slots -> BOOLEAN]]
  BY DEF PInv, P!TypeOK, PagesConstants
<1>5. /\ size \in 1..MaxPages /\ page \in 0..(size - 1) /\ page \in Nat /\ slot \in P!Slots
      /\ gStackPageSize <= size
  BY SMTT(30), <1>3, <1>4 DEF P!Slots
<1>6. /\ paged \in [0..(size - 1) -> [P!Slots -> BOOLEAN]]
      /\ \A pg \in 0..(gStackPageSize - 1) : paged[pg] = gStack[pg]
      /\ \A pg \in 0..(size - 1) : ~(pg < gStackPageSize) => paged[pg] = P!Empty
  <2>1. P!Empty \in [P!Slots -> BOOLEAN]
    BY DEF P!Empty
  <2>2. CASE full
    <3>1. paged = [pg \in 0..(size - 1) |-> IF pg < gStackPageSize THEN gStack[pg] ELSE P!Empty]
      BY <2>2 DEF P!make_new_stack
    <3>2. \A pg \in 0..(size - 1) : pg < gStackPageSize => pg \in 0..(gStackPageSize - 1)
      BY <1>4
    <3> HIDE DEF paged
    <3> QED BY <1>4, <1>5, <2>1, <3>1, <3>2
  <2>3. CASE ~full
    <3>1. paged = gStack /\ size = gStackPageSize
      BY <2>3
    <3> HIDE DEF paged
    <3> QED BY <1>4, <3>1
  <2> QED BY <2>2, <2>3
<1>7. /\ owned' \in Seq(SUBSET (Nat \X P!Slots)) /\ Len(owned') = N
      /\ owned'[N] = owned[N] \cup {<<page, slot>>}
      /\ \A n \in 1..N : n # N => owned'[n] = owned[n]
  <2> DEFINE S == SUBSET (Nat \X P!Slots)
             e == owned[N] \cup {<<page, slot>>}
  <2>1. owned \in Seq(S) /\ N \in 1..Len(owned) /\ owned[N] \in S
    BY <1>1, <1>2
  <2>2. e \in S
    BY <1>5, <2>1
  <2>3. owned' = [owned EXCEPT ![N] = e]
    BY <1>3
  <2> HIDE DEF S, e, N
  <2>4. owned' \in Seq(S) /\ Len(owned') = Len(owned)
        /\ \A n \in 1..Len(owned) : owned'[n] = IF n = N THEN e ELSE owned[n]
    BY <2>1, <2>2, <2>3
  <2> QED BY <1>1, <2>1, <2>4 DEF S, e
<1>8. /\ gStack' \in [0..(size - 1) -> [P!Slots -> BOOLEAN]]
      /\ \A pg \in 0..(size - 1), s \in P!Slots :
            gStack'[pg][s] <=> (pg = page /\ s = slot) \/ paged[pg][s]
  <2> HIDE DEF page, slot, paged, size
  <2> QED BY <1>3, <1>5, <1>6
<1>9. /\ \A n \in 1..(N + 1) : PageOf(n) \in Nat /\ SlotOf(n) \in 0..SLOT_SIZE
      /\ PageOf(N + 1) = gStackPage /\ SlotOf(N + 1) = gStackSlot
  BY <1>1, <1>2, Positions DEF PInv, PageOf, SlotOf
<1>10. /\ \A n \in 1..N : PageOf(n)' = PageOf(n) /\ SlotOf(n)' = SlotOf(n)
       /\ \A n \in 1..(N + 1) : n = N + 1 => PageOf(n)' = page /\ SlotOf(n)' = slot + 1
  BY <1>1, <1>3 DEF PageOf, SlotOf
<1>11. ~Before(page, slot + 1, gStackPage, gStackSlot)
  BY <1>4 DEF Before
<1>12. \A pg \in Nat, s \in P!Slots :
           Before(pg, s, page, slot + 1) <=>
               Before(pg, s, gStackPage, gStackSlot) \/ (pg = page /\ s = slot)
  BY <1>4 DEF Before, P!Slots
<1>13. ~Before(page, slot, gStackPage, gStackSlot)
  BY <1>4 DEF Before
<1> HIDE DEF page, slot, paged, size, full, turn
<1>14. \A m \in 1..(N + 1) : ~Before(gStackPage, gStackSlot, PageOf(m), SlotOf(m))
  <2> SUFFICES ASSUME NEW m \in 1..(N + 1)
               PROVE  ~Before(gStackPage, gStackSlot, PageOf(m), SlotOf(m))
    OBVIOUS
  <2>1. N + 1 \in 1..(Len(frames) + 1) /\ m \in 1..(Len(frames) + 1) /\ m <= N + 1
    BY <1>1
  <2>2. ~Before(PageOf(N + 1), SlotOf(N + 1), PageOf(m), SlotOf(m))
    BY <2>1 DEF PInv, FramesNest
  <2> QED BY <1>9, <2>2
<1>15. \A m \in 1..N : ~Before(page, slot + 1, PageOf(m), SlotOf(m))
                       /\ ~Before(page, slot, PageOf(m), SlotOf(m))
  <2> SUFFICES ASSUME NEW m \in 1..N
               PROVE  /\ ~Before(page, slot + 1, PageOf(m), SlotOf(m))
                      /\ ~Before(page, slot, PageOf(m), SlotOf(m))
    OBVIOUS
  <2>1. m \in 1..(N + 1)
    BY <1>1
  <2>2. ~Before(gStackPage, gStackSlot, PageOf(m), SlotOf(m))
    BY <1>14, <2>1
  <2>3. PageOf(m) \in Nat /\ SlotOf(m) \in Int /\ slot \in Int /\ gStackPage \in Int /\ gStackSlot \in Int
    BY <1>4, <1>5, <1>9, <2>1 DEF P!Slots
  <2> QED BY <1>5, <1>11, <1>13, <2>2, <2>3 DEF Before
<1>16. P!TypeOK'
  <2>1. gStackPage' \in 0..(gStackPageSize' - 1) /\ gStackSlot' \in 0..SLOT_SIZE
    BY <1>3, <1>4, <1>5 DEF P!Slots
  <2>2. gStackPageSize' \in 1..MaxPages
        /\ gStack' \in [0..(gStackPageSize' - 1) -> [P!Slots -> BOOLEAN]]
    BY <1>3, <1>5, <1>8
  <2>3. Len(frames') = Len(owned')
    BY <1>3, <1>7
  <2> QED BY <2>1, <2>2, <2>3 DEF P!TypeOK, P!Slots
<1>17. FramesTyped'
  BY <1>1, <1>3, <1>7 DEF FramesTyped, P!Slots
<1>18. FramesNest'
  <2>1. ASSUME NEW m \in 1..(N + 1), NEW n \in 1..(N + 1), m <= n
        PROVE  ~Before(PageOf(n)', SlotOf(n)', PageOf(m)', SlotOf(m)')
    <3>1. CASE n = N + 1 /\ m = N + 1
      <4>1. slot \in Int /\ page \in Int
        BY <1>5 DEF P!Slots
      <4>2. ~Before(page, slot + 1, page, slot + 1)
        BY <4>1 DEF Before
      <4>3. PageOf(n)' = page /\ SlotOf(n)' = slot + 1 /\ PageOf(m)' = page /\ SlotOf(m)' = slot + 1
        BY <1>10, <3>1
      <4> QED BY <4>2, <4>3
    <3>2. CASE n = N + 1 /\ m # N + 1
      <4>1. m \in 1..N
        BY <1>1, <3>2
      <4>2. ~Before(page, slot + 1, PageOf(m), SlotOf(m))
        BY <1>15, <4>1
      <4>3. PageOf(n)' = page /\ SlotOf(n)' = slot + 1
        BY <1>10, <3>2
      <4>4. PageOf(m)' = PageOf(m) /\ SlotOf(m)' = SlotOf(m)
        BY <1>10, <4>1
      <4> QED BY <4>2, <4>3, <4>4
    <3>3. CASE n # N + 1
      <4>1. m \in 1..N /\ n \in 1..N
        BY SMTT(30), <1>1, <2>1, <3>3
      <4>2. ~Before(PageOf(n), SlotOf(n), PageOf(m), SlotOf(m))
        BY <2>1 DEF PInv, FramesNest
      <4> QED BY <1>10, <4>1, <4>2
    <3> QED BY <3>1, <3>2, <3>3
  <2>2. Len(frames') + 1 = N + 1
    BY <1>3
  <2> QED BY <2>1, <2>2 DEF FramesNest, Before
<1>19. OwnedLieBetween'
  <2>1. ASSUME NEW n \in 1..N, NEW pg \in Nat, NEW s \in P!Slots
        PROVE  <<pg, s>> \in owned'[n] <=>
                   /\ ~Before(pg, s, PageOf(n)', SlotOf(n)')
                   /\ Before(pg, s, PageOf(n + 1)', SlotOf(n + 1)')
    <3>1. <<pg, s>> \in owned[n] <=>
              /\ ~Before(pg, s, PageOf(n), SlotOf(n))
              /\ Before(pg, s, PageOf(n + 1), SlotOf(n + 1))
      BY <1>1 DEF PInv, OwnedLieBetween
    <3>2. CASE n = N
      <4>1. <<pg, s>> \in owned'[n] <=> <<pg, s>> \in owned[n] \/ (pg = page /\ s = slot)
        BY <1>7, <3>2
      <4>2. ~Before(page, slot, PageOf(n), SlotOf(n))
        BY <1>15
      <4>3. PageOf(n + 1)' = page /\ SlotOf(n + 1)' = slot + 1
        BY <1>1, <1>3, <3>2 DEF PageOf, SlotOf
      <4>4. PageOf(n + 1) = gStackPage /\ SlotOf(n + 1) = gStackSlot
        BY <1>9, <3>2
      <4>5. PageOf(n)' = PageOf(n) /\ SlotOf(n)' = SlotOf(n)
        BY <1>10
      <4>6. Before(pg, s, page, slot + 1) <=>
                Before(pg, s, gStackPage, gStackSlot) \/ (pg = page /\ s = slot)
        BY <1>12
      <4>7. (pg = page /\ s = slot) => ~Before(pg, s, PageOf(n), SlotOf(n))
        BY <4>2
      <4> QED BY <3>1, <4>1, <4>3, <4>4, <4>5, <4>6, <4>7
    <3>3. CASE n # N
      <4>1. n + 1 \in 1..N /\ owned'[n] = owned[n]
        BY SMTT(30), <1>1, <1>7, <3>3
      <4> QED BY <1>10, <3>1, <4>1
    <3> QED BY <3>2, <3>3
  <2> QED BY <1>7, <2>1 DEF OwnedLieBetween, Before, P!Slots
<1>20. HeldIsOwned'
  <2> SUFFICES ASSUME NEW pg \in 0..(size - 1), NEW s \in P!Slots
               PROVE  gStack'[pg][s] <=> \E n \in 1..N : <<pg, s>> \in owned'[n]
    <3>1. DOMAIN gStack' = 0..(size - 1)
      BY <1>8
    <3> QED BY <1>7, <3>1 DEF HeldIsOwned, P!Slots
  <2>1. pg \in Nat
    BY <1>5
  <2>2. gStack'[pg][s] <=> (pg = page /\ s = slot) \/ paged[pg][s]
    BY <1>8
  <2>3. (\E n \in 1..N : <<pg, s>> \in owned'[n]) <=>
            (pg = page /\ s = slot) \/ \E n \in 1..N : <<pg, s>> \in owned[n]
    BY <1>2, <1>7
  <2>4. paged[pg][s] <=> \E n \in 1..N : <<pg, s>> \in owned[n]
    <3>1. CASE pg < gStackPageSize
      <4>1. pg \in 0..(gStackPageSize - 1) /\ DOMAIN gStack = 0..(gStackPageSize - 1)
        BY <1>4, <2>1, <3>1
      <4> QED BY <1>1, <1>6, <4>1 DEF PInv, HeldIsOwned
    <3>2. CASE ~(pg < gStackPageSize)
      <4>1. ~paged[pg][s]
        BY <1>6, <3>2 DEF P!Empty
      <4>2. ASSUME NEW n \in 1..N PROVE <<pg, s>> \notin owned[n]
        <5>1. n + 1 \in 1..(N + 1)
          BY <1>1
        <5>2. <<pg, s>> \in owned[n] => Before(pg, s, PageOf(n + 1), SlotOf(n + 1))
          BY <1>1, <2>1 DEF PInv, OwnedLieBetween
        <5>3. ~Before(gStackPage, gStackSlot, PageOf(n + 1), SlotOf(n + 1))
          BY <1>14, <5>1
        <5>4. PageOf(n + 1) \in Nat /\ SlotOf(n + 1) \in Int
          BY <1>9, <5>1
        <5> QED BY <1>4, <2>1, <3>2, <5>2, <5>3, <5>4 DEF Before
      <4> QED BY <4>1, <4>2
    <3> QED BY <3>1, <3>2
  <2> QED BY <2>2, <2>3, <2>4
<1>21. EndedIsGiven'
  BY <1>3 DEF PInv, EndedIsGiven
<1> QED BY <1>16, <1>17, <1>18, <1>19, <1>20, <1>21 DEF PInv

\* So every step keeps the invariant of the pages.
LEMMA PagesStep == ASSUME PagesConstants, PInv, P!Next \/ UNCHANGED pages PROVE PInv'
<1>1. CASE UNCHANGED pages
  <2>1. P!TypeOK' /\ FramesTyped'
    BY <1>1 DEF pages, PInv, P!TypeOK, FramesTyped, P!Slots
  <2>2. FramesNest' /\ OwnedLieBetween'
    BY <1>1 DEF pages, PInv, FramesNest, OwnedLieBetween, PageOf, SlotOf, Before, P!Slots
  <2>3. HeldIsOwned' /\ EndedIsGiven'
    BY <1>1 DEF pages, PInv, HeldIsOwned, EndedIsGiven, P!Slots
  <2> QED BY <2>1, <2>2, <2>3 DEF PInv
<1> QED BY <1>1, PagesStart, PagesEnd, PagesGive DEF P!Next

\* Frames that lie one behind the other have nothing in common.
LEMMA PagesHold == ASSUME PInv PROVE P!TypeOK /\ P!TemporariesLive
<1> DEFINE N == Len(frames)
<1>1. N \in Nat /\ Len(owned) = N /\ owned \in Seq(SUBSET (Nat \X P!Slots))
  BY DEF PInv, FramesTyped
<1>2. \A m, n \in 1..N : m < n => owned[m] \cap owned[n] = {}
  <2> SUFFICES ASSUME NEW m \in 1..N, NEW n \in 1..N, m < n,
                      NEW pg \in Nat, NEW s \in P!Slots,
                      <<pg, s>> \in owned[m], <<pg, s>> \in owned[n]
               PROVE  FALSE
    <3>1. ASSUME NEW m \in 1..N PROVE owned[m] \subseteq Nat \X P!Slots
      <4> DEFINE S == SUBSET (Nat \X P!Slots)
      <4>1. owned \in Seq(S) /\ m \in 1..Len(owned)
        BY <1>1
      <4> HIDE DEF S
      <4>2. owned[m] \in S
        BY <4>1
      <4> QED BY <4>2 DEF S
    <3> QED BY <3>1
  <2>1. m + 1 \in 1..(N + 1) /\ n \in 1..(N + 1) /\ m + 1 <= n
    BY <1>1
  <2>2. Before(pg, s, PageOf(m + 1), SlotOf(m + 1)) /\ ~Before(pg, s, PageOf(n), SlotOf(n))
    BY <1>1 DEF PInv, OwnedLieBetween
  <2>3. ~Before(PageOf(n), SlotOf(n), PageOf(m + 1), SlotOf(m + 1))
    BY <2>1 DEF PInv, FramesNest
  <2>4. /\ PageOf(m + 1) \in Nat /\ SlotOf(m + 1) \in 0..SLOT_SIZE
        /\ PageOf(n) \in Nat /\ SlotOf(n) \in 0..SLOT_SIZE
    BY <2>1, Positions DEF PInv
  <2>5. SlotOf(m + 1) \in Int /\ SlotOf(n) \in Int /\ s \in Int
    BY <2>4 DEF P!Slots
  <2> QED BY <2>2, <2>3, <2>4, <2>5 DEF Before
<1>3. \A m, n \in 1..Len(owned) : m # n => owned[m] \cap owned[n] = {}
  <2> SUFFICES ASSUME NEW m \in 1..N, NEW n \in 1..N, m # n PROVE owned[m] \cap owned[n] = {}
    BY <1>1
  <2>1. CASE m < n
    BY <1>2, <2>1
  <2>2. CASE n < m
    BY <1>2, <2>2
  <2> QED BY <2>1, <2>2
<1> QED BY <1>3 DEF PInv, HeldIsOwned, EndedIsGiven, P!TemporariesLive

-----------------------------------------------------------------------------
(* Options.                                                                *)

OptionsConstants ==
    /\ XYZSH_OPTION_MAX \in Nat \ {0}
    /\ OptionSums \in [Options -> Nat]
    /\ Null \notin Options \cup BOOLEAN \cup Nat

\* How far a slot is from the one where a probe for k begins.
StartOf(k) == O!options_hash_fun(k)
Way(k, s) == IF s >= StartOf(k) THEN s - StartOf(k) ELSE s - StartOf(k) + XYZSH_OPTION_MAX

\* A slot holds a key only if it was given and every slot from its start on
\* was taken before; and what was given is there.
Reached ==
    \A s \in O!Index : mOptions[s] # Null =>
        /\ mOptions[s] \in given
        /\ \A q \in O!Index : Way(mOptions[s], q) < Way(mOptions[s], s) => mOptions[q] # Null
Kept == \A k \in given : \E s \in O!Index : mOptions[s] = k

\* A probe has seen the slots from its start to where it is; it goes round
\* again only if it has seen them all.
Probes ==
    O!Probing =>
        /\ key \in Options
        /\ \A s \in seen : mOptions[s] # Null /\ (call = "get" => mOptions[s] # key)
        /\ \/ \A s \in O!Index : s \in seen <=> Way(key, s) < Way(key, p)
           \/ O!Start = 0 /\ seen = O!Index
Returned ==
    ~O!Probing /\ call # "none" =>
        /\ call = "get" => result = (key \in given)
        /\ call = "put" => result = TRUE \/ O!IsFull
        /\ result # Null

\* The inductive invariant of the options.
OInv == O!TypeOK /\ Reached /\ Kept /\ Probes /\ Returned

\* The invariant holds at first.
LEMMA OptionsInit == ASSUME OptionsConstants, O!Init PROVE OInv
BY DEF OptionsConstants, O!Init, O!TypeOK, O!Index, Reached, Kept, Probes, Returned, O!Probing, OInv

\* A search begins in the table.
LEMMA StartInIndex ==
    ASSUME OptionsConstants, NEW k \in Options
    PROVE  StartOf(k) \in O!Index
BY DEF OptionsConstants, StartOf, O!options_hash_fun, O!Index

\* A search begins.
LEMMA OptionsCall ==
    ASSUME OptionsConstants, OInv, NEW c \in {"put", "get"}, NEW k \in Options, O!Call(c, k)
    PROVE  OInv'
<1>1. StartOf(k) \in O!Index
  BY StartInIndex
<1>2. /\ call' = c /\ key' = k /\ p' = StartOf(k) /\ seen' = {} /\ result' = Null
      /\ mOptions' = mOptions /\ given' = given
  BY DEF O!Call, StartOf
<1>3. O!TypeOK'
  BY <1>1, <1>2 DEF OInv, O!TypeOK, O!Index
<1>4. Reached' /\ Kept'
  BY <1>2 DEF OInv, Reached, Kept, Way, StartOf, O!options_hash_fun, O!Index
<1>5. \A s \in O!Index : ~(Way(k, s) < Way(k, StartOf(k)))
  BY <1>1 DEF Way, O!Index, OptionsConstants
<1>6. Probes'
  BY <1>2, <1>5 DEF Probes, O!Probing, Way, StartOf, O!options_hash_fun, O!Index
<1>7. Returned'
  BY <1>2 DEF Returned, O!Probing
<1> QED BY <1>3, <1>4, <1>6, <1>7 DEF OInv

\* A probe meets every slot once on its way round.
LEMMA Ways ==
    ASSUME OptionsConstants, NEW k \in Options
    PROVE  /\ \A s \in O!Index : Way(k, s) \in O!Index
           /\ \A s, q \in O!Index : Way(k, s) = Way(k, q) => s = q
<1>1. StartOf(k) \in 0..(XYZSH_OPTION_MAX - 1) /\ XYZSH_OPTION_MAX \in Nat \ {0}
  BY StartInIndex DEF O!Index, OptionsConstants
<1> QED BY <1>1 DEF Way, O!Index

\* A call that ends where it is: at a free slot, or a lookup at its key.
LEMMA OptionsHere == ASSUME OptionsConstants, OInv, O!Here PROVE OInv'
<1>1. /\ O!Probing /\ O!Ends /\ call' = call /\ key' = key /\ p' = p
      /\ result' = (call = "put" \/ mOptions[p] # Null)
      /\ mOptions' = IF call = "put" THEN [mOptions EXCEPT ![p] = key] ELSE mOptions
      /\ given' = IF call = "put" THEN given \cup {key} ELSE given
      /\ seen' = seen \cup {p}
  BY DEF O!Here, O!Return
<1>2. /\ mOptions \in [O!Index -> Options \cup {Null}] /\ p \in O!Index /\ seen \subseteq O!Index
      /\ key \in Options /\ call \in {"put", "get"} /\ given \subseteq Options
      /\ Null \notin Options
  BY <1>1 DEF OInv, O!TypeOK, Probes, O!Probing, OptionsConstants
<1>3. result' \in BOOLEAN /\ result' # Null
  BY <1>1 DEF OptionsConstants
<1>4. ~O!Probing'
  BY <1>3 DEF O!Probing
<1>5. O!TypeOK'
  BY <1>1, <1>2, <1>3 DEF O!TypeOK, O!Index
<1>6. /\ \A s \in O!Index : Way(key, s) \in Int
      /\ \A s, q \in O!Index : Way(key, s) = Way(key, q) => s = q
  BY <1>2, Ways DEF O!Index
<1>7. /\ \A s \in seen : mOptions[s] # Null /\ (call = "get" => mOptions[s] # key)
      /\ \/ \A s \in O!Index : s \in seen <=> Way(key, s) < Way(key, p)
         \/ seen = O!Index
  BY <1>1 DEF OInv, Probes
<1>8. /\ \A s \in O!Index : mOptions[s] # Null => mOptions[s] \in given
      /\ \A s, q \in O!Index :
            mOptions[s] # Null /\ Way(mOptions[s], q) < Way(mOptions[s], s) => mOptions[q] # Null
  BY DEF OInv, Reached
<1>9. CASE call = "put"
  <2>1. /\ mOptions[p] = Null /\ given' = given \cup {key} /\ result' = TRUE
        /\ mOptions'[p] = key /\ \A s \in O!Index : s # p => mOptions'[s] = mOptions[s]
    BY <1>1, <1>2, <1>9 DEF O!Ends
  <2>2. \A q \in O!Index : Way(key, q) < Way(key, p) => mOptions[q] # Null
    BY <1>2, <1>7, <2>1
  <2>3. ASSUME NEW s \in O!Index, mOptions'[s] # Null
        PROVE  /\ mOptions'[s] \in given'
               /\ \A q \in O!Index : Way(mOptions'[s], q) < Way(mOptions'[s], s) => mOptions'[q] # Null
    <3>1. \A q \in O!Index : mOptions[q] # Null => mOptions'[q] # Null
      BY <2>1
    <3>2. CASE s = p
      BY <2>1, <2>2, <3>1, <3>2
    <3>3. CASE s # p
      BY <1>8, <2>1, <2>3, <3>1, <3>3
    <3> QED BY <3>2, <3>3
  <2>4. Reached'
    BY <2>3 DEF Reached, O!Index, Way, StartOf, O!options_hash_fun
  <2>5. \A k \in given : \E s \in O!Index : mOptions[s] = k
    BY DEF OInv, Kept
  <2>6. Kept'
    <3>1. ASSUME NEW k \in given' PROVE \E s \in O!Index : mOptions'[s] = k
      <4>1. CASE k = key
        BY <1>2, <2>1, <4>1
      <4>2. CASE k # key
        <5>1. PICK s \in O!Index : mOptions[s] = k
          BY <2>1, <2>5, <4>2
        <5>2. k # Null
          BY <1>2, <2>1, <4>2
        <5> QED BY <2>1, <5>1, <5>2
      <4> QED BY <4>1, <4>2
    <3> QED BY <3>1 DEF Kept, O!Index
  <2>7. Returned'
    BY <1>1, <1>3, <1>9, <2>1 DEF Returned
  <2> QED BY <1>4, <1>5, <2>4, <2>6, <2>7 DEF OInv, Probes
<1>10. CASE call = "get"
  <2>1. mOptions' = mOptions /\ given' = given /\ result' = (mOptions[p] # Null)
    BY <1>1, <1>10
  <2>2. Reached' /\ Kept'
    BY <2>1 DEF OInv, Reached, Kept, O!Index, Way, StartOf, O!options_hash_fun
  <2>3. CASE mOptions[p] # Null
    <3>1. mOptions[p] = key
      BY <1>1, <2>3 DEF O!Ends
    <3>2. key \in given
      BY <1>2, <1>8, <2>3, <3>1
    <3> QED BY <1>1, <1>3, <1>4, <1>5, <1>10, <2>1, <2>2, <2>3, <3>2 DEF OInv, Probes, Returned
  <2>4. CASE mOptions[p] = Null
    <3>1. key \notin given
      <4> SUFFICES ASSUME key \in given PROVE FALSE
        OBVIOUS
      <4>1. PICK s \in O!Index : mOptions[s] = key
        BY DEF OInv, Kept
      <4>2. ~(Way(key, p) < Way(key, s))
        BY <1>2, <1>8, <2>4, <4>1
      <4>3. Way(key, s) # Way(key, p)
        BY <1>2, <1>6, <2>4, <4>1
      <4>4. Way(key, s) < Way(key, p)
        BY <1>2, <1>6, <4>2, <4>3
      <4> QED BY <1>2, <1>7, <1>10, <2>4, <4>1, <4>4
    <3> QED BY <1>1, <1>3, <1>4, <1>5, <1>10, <2>1, <2>2, <2>4, <3>1 DEF OInv, Probes, Returned
  <2> QED BY <2>3, <2>4
<1> QED BY <1>2, <1>9, <1>10

\* A probe that goes on, or meets its start again.
LEMMA OptionsMove == ASSUME OptionsConstants, OInv, O!Move PROVE OInv'
<1>1. /\ O!Probing /\ ~O!Ends /\ mOptions' = mOptions /\ given' = given /\ call' = call /\ key' = key
      /\ seen' = seen \cup {p}
      /\ \/ O!After(p + 1) = Null /\ result' = FALSE /\ p' = p
         \/ O!After(p + 1) # Null /\ result' = result /\ p' = O!After(p + 1)
  BY DEF O!Move, O!Return
<1>2. /\ mOptions \in [O!Index -> Options \cup {Null}] /\ p \in O!Index /\ seen \subseteq O!Index
      /\ key \in Options /\ call \in {"put", "get"} /\ given \subseteq Options
      /\ Null \notin Nat /\ Null # FALSE /\ result = Null
  BY <1>1 DEF OInv, O!TypeOK, Probes, O!Probing, OptionsConstants
<1>3. mOptions[p] # Null /\ (call = "get" => mOptions[p] # key)
  BY <1>1 DEF O!Ends
<1>4. /\ \A s \in seen : mOptions[s] # Null /\ (call = "get" => mOptions[s] # key)
      /\ \/ \A s \in O!Index : s \in seen <=> Way(key, s) < Way(key, p)
         \/ StartOf(key) = 0 /\ seen = O!Index
  BY <1>1 DEF OInv, Probes, O!Start, StartOf
<1>5. \A s \in seen' : mOptions[s] # Null /\ (call = "get" => mOptions[s] # key)
  BY <1>1, <1>3, <1>4
<1>6. StartOf(key) \in 0..(XYZSH_OPTION_MAX - 1) /\ XYZSH_OPTION_MAX \in Nat \ {0}
      /\ p \in 0..(XYZSH_OPTION_MAX - 1)
  BY <1>2, StartInIndex DEF O!Index, OptionsConstants
<1>7. O!After(p + 1) = IF p + 1 = StartOf(key) THEN Null
                       ELSE IF p + 1 = XYZSH_OPTION_MAX THEN 0 ELSE p + 1
  BY DEF O!After, O!Start, StartOf
<1>8. /\ \A s \in O!Index : Way(key, s) \in 0..(XYZSH_OPTION_MAX - 1)
      /\ \A s, q \in O!Index : Way(key, s) = Way(key, q) => s = q
  BY <1>2, Ways DEF O!Index
<1>9. Reached' /\ Kept'
  BY <1>1 DEF OInv, Reached, Kept, O!Index, Way, StartOf, O!options_hash_fun
<1>10. \A s \in O!Index : Way(key, s) = Way(key, p) <=> s = p
  BY <1>2, <1>8
<1>11. CASE O!After(p + 1) = Null
  <2>1. p + 1 = StartOf(key)
    BY <1>2, <1>6, <1>7, <1>11
  <2>2. Way(key, p) = XYZSH_OPTION_MAX - 1
    BY <1>6, <2>1 DEF Way
  <2>3. seen' = O!Index
    <3>1. \A s \in O!Index : s = p \/ Way(key, s) < Way(key, p)
      BY <1>6, <1>8, <1>10, <2>2
    <3> QED BY <1>1, <1>2, <1>4, <3>1
  <2>4. result' = FALSE /\ p' = p
    BY <1>1, <1>11
  <2>5. O!TypeOK'
    BY <1>1, <1>2, <2>3, <2>4 DEF O!TypeOK, O!Index
  <2>6. ~O!Probing'
    BY <1>2, <2>4 DEF O!Probing
  <2>7. O!IsFull'
    BY <1>1, <1>5, <2>3 DEF O!IsFull, O!Index
  <2>8. call = "get" => key \notin given
    BY <1>5, <2>3 DEF OInv, Kept
  <2>9. Returned'
    <3>1. call' = "get" => result' = (key' \in given')
      <4> SUFFICES ASSUME call' = "get" PROVE result' = (key' \in given')
        OBVIOUS
      <4>1. call = "get"
        BY <1>1
      <4>2. key' \notin given'
        BY <1>1, <2>8, <4>1
      <4>3. (key' \in given') = FALSE
        BY <4>2
      <4> QED BY <2>4, <4>3
    <3> HIDE DEF O!IsFull
    <3> QED BY <1>2, <2>4, <2>7, <3>1 DEF Returned
  <2> QED BY <1>9, <2>5, <2>6, <2>9 DEF OInv, Probes
<1>12. CASE O!After(p + 1) # Null
  <2>1. /\ p + 1 # StartOf(key) /\ result' = Null
        /\ p' = IF p + 1 = XYZSH_OPTION_MAX THEN 0 ELSE p + 1
    BY <1>1, <1>2, <1>7, <1>12
  <2>2. p' \in O!Index
    BY <1>6, <2>1 DEF O!Index
  <2>3. O!TypeOK'
    BY <1>1, <1>2, <2>1, <2>2 DEF O!TypeOK, O!Index
  <2>4. O!Probing'
    BY <1>1, <2>1 DEF O!Probing
  <2>5. \/ \A s \in O!Index : s \in seen' <=> Way(key, s) < Way(key, p')
        \/ StartOf(key) = 0 /\ seen' = O!Index
    <3>1. CASE StartOf(key) = 0 /\ seen = O!Index
      BY <1>1, <1>2, <3>1
    <3>2. CASE /\ \A s \in O!Index : s \in seen <=> Way(key, s) < Way(key, p)
               /\ StartOf(key) = 0 /\ p + 1 = XYZSH_OPTION_MAX
      <4>1. Way(key, p) = XYZSH_OPTION_MAX - 1
        BY <1>6, <3>2 DEF Way
      <4>2. \A s \in O!Index : s = p \/ Way(key, s) < Way(key, p)
        BY <1>6, <1>8, <1>10, <4>1
      <4> QED BY <1>1, <1>2, <3>2, <4>2
    <3>3. CASE /\ \A s \in O!Index : s \in seen <=> Way(key, s) < Way(key, p)
               /\ ~(StartOf(key) = 0 /\ p + 1 = XYZSH_OPTION_MAX)
      <4>1. Way(key, p') = Way(key, p) + 1
        BY <1>6, <2>1, <3>3 DEF Way
      <4>2. Way(key, p) \in Int /\ \A s \in O!Index : Way(key, s) \in Int
        BY <1>2, <1>8
      <4> QED BY <1>1, <1>10, <3>3, <4>1, <4>2
    <3> QED BY <1>4, <3>1, <3>2, <3>3
  <2>6. Probes'
    BY <1>1, <1>2, <1>5, <2>5 DEF Probes, O!Start, O!Index, Way, StartOf, O!options_hash_fun
  <2> QED BY <1>9, <2>3, <2>4, <2>6 DEF OInv, Returned
<1> QED BY <1>11, <1>12

\* So every step keeps the invariant of the options.
LEMMA OptionsStep == ASSUME OptionsConstants, OInv, O!Next \/ UNCHANGED options PROVE OInv'
<1>1. CASE UNCHANGED options
  <2>1. O!TypeOK'
    BY <1>1 DEF options, OInv, O!TypeOK, O!Index
  <2>2. Reached' /\ Kept'
    BY <1>1 DEF options, OInv, Reached, Kept, O!Index, Way, StartOf, O!options_hash_fun
  <2>3. Probes' /\ Returned'
    BY <1>1 DEF options, OInv, Probes, Returned, O!Probing, O!Start, O!IsFull, O!Index,
                Way, StartOf, O!options_hash_fun
  <2> QED BY <2>1, <2>2, <2>3 DEF OInv
<1>2. CASE \E k \in Options, c \in {"put", "get"} : O!Call(c, k)
  BY <1>2, OptionsCall
<1> QED BY <1>1, <1>2, OptionsHere, OptionsMove DEF O!Next

\* Of which their property follows.
LEMMA OptionsHold == ASSUME OptionsConstants, OInv PROVE O!TypeOK /\ O!FoundIfGiven
<1>1. O!Probing /\ p \in seen => O!Start = 0 /\ O!IsFull
  <2> SUFFICES ASSUME O!Probing, p \in seen PROVE O!Start = 0 /\ O!IsFull
    OBVIOUS
  <2>1. key \in Options /\ p \in O!Index
    BY DEF OInv, Probes, O!TypeOK
  <2>2. Way(key, p) \in Int
    BY <2>1, Ways DEF O!Index
  <2>3. ~(Way(key, p) < Way(key, p))
    BY <2>2
  <2>4. O!Start = 0 /\ seen = O!Index
    BY <2>1, <2>3 DEF OInv, Probes
  <2> QED BY <2>4 DEF OInv, Probes, O!IsFull
<1> QED BY <1>1 DEF OInv, Returned, O!FoundIfGiven

-----------------------------------------------------------------------------
(* Containers: the buffers of vectors and strings.                         *)

ContainersConstants ==
    /\ CellsMax \in Nat /\ MaxCount \in Nat /\ MaxLen \in Nat
    /\ FirstSize \in Nat \ {0} /\ ShortString \in Nat \ {0} /\ ShortPut \in Nat \ {0, 1}
    /\ Null \notin Nat

\* The inductive invariant of the buffers.
BuffersTyped ==
    /\ vector \in [mCount : 0..MaxCount, mTableSize : Nat, reach : Nat]
    /\ string \in [mLen : 0..MaxLen, mMallocLen : Nat, reach : Nat]
BInv == BuffersTyped /\ C!BuffersHold /\ vector.mTableSize > 0

\* The invariant of the buffers holds at first.
LEMMA BuffersInit == ASSUME ContainersConstants, C!Init PROVE BInv
BY DEF ContainersConstants, C!Init, C!NewVector, C!NewString, BInv, BuffersTyped, C!BuffersHold

\* Each operation on a vector makes room for what it writes.
LEMMA VectorGrows ==
    ASSUME ContainersConstants, BInv, C!VectorStep, UNCHANGED string
    PROVE  BInv'
<1> DEFINE count == vector.mCount
           size  == vector.mTableSize
           Fits(v) == /\ v \in [mCount : 0..MaxCount, mTableSize : Nat, reach : Nat]
                      /\ v.mCount <= v.mTableSize /\ v.reach <= v.mTableSize /\ v.mTableSize > 0
<1>1. /\ vector \in [mCount : 0..MaxCount, mTableSize : Nat, reach : Nat]
      /\ count \in 0..MaxCount /\ size \in Nat /\ count <= size /\ size > 0 /\ MaxCount \in Nat
  BY DEF BInv, BuffersTyped, C!BuffersHold, ContainersConstants
<1>2. SUFFICES Fits(vector')
  BY DEF BInv, BuffersTyped, C!BuffersHold
<1>3. ASSUME NEW n \in 0..count, C!vector_insert(n) PROVE Fits(vector')
  <2>1. /\ count < MaxCount
        /\ vector' = [mCount |-> count + 1, reach |-> count + 1,
                      mTableSize |-> IF count = size THEN size * 2 ELSE size]
    BY <1>3 DEF C!vector_insert, C!Grown
  <2> HIDE DEF count, size
  <2> QED BY <1>1, <2>1
<1>4. ASSUME NEW n \in 0..count, NEW s \in 1..2, C!vector_mass_insert(n, s) PROVE Fits(vector')
  <2>1. /\ count + s <= MaxCount
        /\ vector' = [mCount |-> count + s, reach |-> count + s,
                      mTableSize |-> IF count + s >= size THEN (size + s) * 2 ELSE size]
    BY <1>4 DEF C!vector_mass_insert
  <2> HIDE DEF count, size
  <2> QED BY <1>1, <2>1
<1>5. ASSUME NEW n \in Int, C!vector_erase(n) PROVE Fits(vector')
  <2>1. count - 1 \in 0..MaxCount
    BY <1>1, <1>5 DEF C!vector_erase
  <2>2. vector' = [vector EXCEPT !.mCount = count - 1, !.reach = count - 1]
    BY <1>5 DEF C!vector_erase
  <2>3. vector' = [mCount |-> count - 1, mTableSize |-> size, reach |-> count - 1]
    BY <1>1, <2>2
  <2> HIDE DEF count, size
  <2> QED BY <1>1, <2>1, <2>3
<1>6. ASSUME C!vector_clear PROVE Fits(vector')
  <2>1. vector' = [mCount |-> 0, mTableSize |-> size, reach |-> 0]
    BY <1>1, <1>6 DEF C!vector_clear
  <2> HIDE DEF size
  <2> QED BY <1>1, <2>1
<1>7. \A n \in -1..vector.mCount : n \in Int
  BY <1>1
<1> HIDE DEF Fits
<1> QED BY <1>3, <1>4, <1>5, <1>6, <1>7 DEF C!VectorStep

\* And so does each on a string, for its characters and the end mark.
LEMMA StringGrows ==
    ASSUME ContainersConstants, BInv, C!StringStep, UNCHANGED vector
    PROVE  BInv'
<1> DEFINE len   == string.mLen
           alloc == string.mMallocLen
           Fits(t) == /\ t \in [mLen : 0..MaxLen, mMallocLen : Nat, reach : Nat]
                      /\ t.mLen < t.mMallocLen /\ t.reach <= t.mMallocLen
<1>1. /\ len \in Nat /\ alloc \in Nat /\ len < alloc /\ MaxLen \in Nat
      /\ ShortString \in Nat \ {0} /\ ShortPut \in Nat \ {0, 1}
  BY DEF BInv, BuffersTyped, C!BuffersHold, ContainersConstants
<1>2. SUFFICES Fits(string')
  BY DEF BInv, BuffersTyped, C!BuffersHold
<1>3. ASSUME NEW l \in Nat, NEW a \in Nat, NEW r \in Nat, C!Holds(l, a, r), l < a, r <= a
      PROVE  Fits(string')
  BY <1>1, <1>3 DEF C!Holds
<1> HIDE DEF Fits
<1>4. ASSUME NEW l \in Nat, C!string_put(l) PROVE Fits(string')
  <2> DEFINE a == IF l + 1 < alloc THEN alloc ELSE IF l < ShortPut THEN ShortPut ELSE (l + 1) * 2
  <2>1. a \in Nat /\ l < a /\ l + 1 <= a /\ l + 1 \in Nat
    BY <1>1
  <2>2. C!Holds(l, a, l + 1)
    BY <1>4 DEF C!string_put, C!S
  <2> HIDE DEF a
  <2> QED BY <1>3, <2>1, <2>2
<1>5. ASSUME NEW l \in Nat, C!string_new(l) PROVE Fits(string')
  <2> DEFINE a == C!MallocOf(l)
  <2>1. a \in Nat /\ l < a /\ l + 1 <= a /\ l + 1 \in Nat
    BY <1>1 DEF C!MallocOf
  <2>2. C!Holds(l, a, l + 1)
    BY <1>5 DEF C!string_new
  <2> HIDE DEF a
  <2> QED BY <1>3, <2>1, <2>2
<1>6. ASSUME NEW n \in Nat, C!string_push_back(n) PROVE Fits(string')
  <2> DEFINE a == IF len + n < alloc THEN alloc ELSE (len + n + 1) * 2
  <2>1. a \in Nat /\ len + n < a /\ len + n + 1 <= a /\ len + n \in Nat /\ len + n + 1 \in Nat
    BY <1>1
  <2>2. C!Holds(len + n, a, len + n + 1)
    BY <1>6 DEF C!string_push_back, C!RoomFor, C!S
  <2> HIDE DEF a, len
  <2> QED BY <1>3, <2>1, <2>2
<1>7. ASSUME NEW n \in Nat, NEW pos \in Nat, C!string_insert(n, pos) PROVE Fits(string')
  <2> DEFINE a == IF len + n + 1 > alloc THEN (len + n + 1) * 2 ELSE alloc
  <2>1. a \in Nat /\ len + n < a /\ len + n + 1 <= a /\ len + n \in Nat /\ len + n + 1 \in Nat
    BY <1>1
  <2>2. C!Holds(len + n, a, len + n + 1)
    BY <1>7 DEF C!string_insert, C!S
  <2> HIDE DEF a, len
  <2> QED BY <1>3, <2>1, <2>2
<1>8. ASSUME C!string_push_back2 PROVE Fits(string')
  <2> DEFINE a == IF len + 1 < alloc THEN alloc ELSE (len + 1) * 2
  <2>1. a \in Nat /\ len + 1 < a /\ len + 2 <= a /\ len + 1 \in Nat /\ len + 2 \in Nat
    BY <1>1
  <2>2. C!Holds(len + 1, a, len + 2)
    BY <1>8 DEF C!string_push_back2, C!RoomFor, C!S
  <2> HIDE DEF a, len
  <2> QED BY <1>3, <2>1, <2>2
<1>9. ASSUME C!string_put2 PROVE Fits(string')
  <2> DEFINE a == IF alloc > 1 THEN alloc ELSE ShortPut
  <2>1. a \in Nat /\ 1 < a /\ 2 <= a
    BY <1>1
  <2>2. C!Holds(1, a, 2)
    BY <1>9 DEF C!string_put2, C!S
  <2> HIDE DEF a
  <2> QED BY <1>3, <2>1, <2>2
<1>10. ASSUME NEW n \in Int, C!string_trunc(n) PROVE Fits(string')
  <2>1. n \in Nat /\ n < alloc /\ n + 1 <= alloc /\ n + 1 \in Nat
    BY <1>1, <1>10 DEF C!string_trunc, C!S
  <2>2. C!Holds(n, alloc, n + 1)
    BY <1>10 DEF C!string_trunc, C!S
  <2> HIDE DEF alloc
  <2> QED BY <1>1, <1>3, <2>1, <2>2
<1>11. ASSUME NEW pos \in Int, NEW l \in Int, C!string_erase(pos, l) PROVE Fits(string')
  <2>1. CASE C!string_put(0)
    BY <1>4, <2>1
  <2>2. CASE ~C!string_put(0)
    <3>1. l > 0 /\ pos >= 0 /\ pos + l <= len /\ C!Holds(len - l, alloc, len - l + 1)
      BY <1>11, <2>2 DEF C!string_erase, C!S
    <3>2. len - l \in Nat /\ len - l < alloc /\ len - l + 1 <= alloc /\ len - l + 1 \in Nat
      BY <1>1, <3>1
    <3> HIDE DEF alloc, len
    <3> QED BY <1>1, <1>3, <3>1, <3>2
  <2> QED BY <2>1, <2>2
<1>12. ASSUME NEW n \in 1..2, C!string_chomp(n) \/ C!string_pomch(n) PROVE Fits(string')
  <2>1. CASE C!string_chomp(n)
    <3>1. C!string_trunc(len - n) /\ len - n \in Int
      BY <1>1, <2>1 DEF C!string_chomp, C!S
    <3> HIDE DEF len
    <3> QED BY <1>10, <3>1
  <2>2. CASE C!string_pomch(n)
    BY <1>6, <1>8, <2>2 DEF C!string_pomch
  <2> QED BY <1>12, <2>1, <2>2
<1>13. /\ \A l \in 0..MaxLen : l \in Nat
       /\ \A n \in 0..3 : n \in Nat
       /\ \A n \in -1..MaxLen : n \in Int
  BY <1>1
<1> QED
  BY <1>4, <1>5, <1>6, <1>7, <1>8, <1>9, <1>10, <1>11, <1>12, <1>13 DEF C!StringStep

-----------------------------------------------------------------------------
(* Containers: the list.                                                   *)

\* The k-th of a sequence of cells, Null at either end.
Nth(cs, k) == IF k \in 1..Len(cs) THEN cs[k] ELSE Null

ListTyped ==
    /\ mNextIt \in [C!Cells -> C!Cells \cup {Null}] /\ mPrevIt \in [C!Cells -> C!Cells \cup {Null}]
    /\ mCellItem \in [C!Cells -> Elements \cup {Null}] /\ used \subseteq C!Cells
    /\ asked \in Seq(Elements)

\* The cells of the list, in the order of the items it was asked to hold.
Distinct(cs) == \A o, k \in 1..Len(cs) : cs[o] = cs[k] => o = k
Represents(cs) ==
    /\ Len(cs) = Len(asked) /\ mCount = Len(asked) /\ Distinct(cs)
    /\ \A c \in C!Cells : c \in used <=> \E k \in 1..Len(cs) : cs[k] = c
    /\ \A k \in 1..Len(cs) :
          /\ mCellItem[cs[k]] = asked[k]
          /\ mPrevIt[cs[k]] = Nth(cs, k - 1) /\ mNextIt[cs[k]] = Nth(cs, k + 1)
    /\ mFirstIt = Nth(cs, 1) /\ mLastIt = Nth(cs, Len(cs))

\* The inductive invariant of the list.
LInv == ListTyped /\ \E cs \in Seq(C!Cells) : Represents(cs)

\* And that of the list.
LEMMA ListInit == ASSUME ContainersConstants, C!Init PROVE LInv
<1>1. ListTyped
  BY DEF C!Init, ListTyped
<1>2. <<>> \in Seq(C!Cells) /\ Represents(<<>>)
  BY DEF C!Init, Represents, Distinct, Nth
<1> QED BY <1>1, <1>2 DEF LInv

\* What With and Without return.
LEMMA WithIs ==
    ASSUME NEW T, NEW s \in Seq(T), NEW v \in T, NEW n \in 1..(Len(s) + 1)
    PROVE  /\ C!With(s, n, v) \in Seq(T) /\ Len(C!With(s, n, v)) = Len(s) + 1
           /\ \A k \in 1..(Len(s) + 1) :
                 C!With(s, n, v)[k] = IF k < n THEN s[k] ELSE IF k = n THEN v ELSE s[k - 1]
<1>1. Len(s) \in Nat /\ \A k \in 1..Len(s) : s[k] \in T
  OBVIOUS
<1>2. \A k \in 1..(Len(s) + 1) : (IF k < n THEN s[k] ELSE IF k = n THEN v ELSE s[k - 1]) \in T
  BY <1>1
<1>3. C!With(s, n, v) \in [1..(Len(s) + 1) -> T]
  BY <1>2 DEF C!With
<1>4. Len(s) + 1 \in Nat
  BY <1>1
<1> QED BY <1>3, <1>4 DEF C!With

\* A sequence with an element taken out.
LEMMA WithoutIs ==
    ASSUME NEW T, NEW s \in Seq(T), NEW n \in 1..Len(s)
    PROVE  /\ C!Without(s, n) \in Seq(T) /\ Len(C!Without(s, n)) = Len(s) - 1
           /\ \A k \in 1..(Len(s) - 1) : C!Without(s, n)[k] = IF k < n THEN s[k] ELSE s[k + 1]
<1>1. Len(s) \in Nat /\ \A k \in 1..Len(s) : s[k] \in T
  OBVIOUS
<1>2. \A k \in 1..(Len(s) - 1) : (IF k < n THEN s[k] ELSE s[k + 1]) \in T
  BY <1>1
<1>3. C!Without(s, n) \in [1..(Len(s) - 1) -> T]
  BY <1>2 DEF C!Without
<1>4. Len(s) - 1 \in Nat
  BY <1>1
<1> QED BY <1>3, <1>4 DEF C!Without

\* A new cell comes to stand at n, between the two that are neighbours.
LEMMA ListInsert ==
    ASSUME ContainersConstants, ListTyped, NEW cs \in Seq(C!Cells), Represents(cs),
           NEW n \in 1..(Len(cs) + 1), NEW c \in C!Cells, NEW x \in Elements,
           C!Allocate(c, x, Nth(cs, n - 1), Nth(cs, n)),
           mFirstIt' = IF n = 1 THEN c ELSE mFirstIt,
           mLastIt' = IF n = Len(cs) + 1 THEN c ELSE mLastIt,
           mCount' = mCount + 1, asked' = C!With(asked, n, x)
    PROVE  LInv'
<1> DEFINE L == Len(cs)
           a == Nth(cs, n - 1)
           b == Nth(cs, n)
           T == C!Cells
<1>1. /\ L \in Nat /\ n \in 1..(L + 1) /\ Null \notin T
      /\ cs \in Seq(T) /\ asked \in Seq(Elements) /\ L = Len(asked) /\ mCount = L
      /\ \A k \in 1..L : cs[k] \in T
  <2>1. Null \notin T
    BY DEF C!Cells, ContainersConstants
  <2>2. asked \in Seq(Elements) /\ L = Len(asked) /\ mCount = L
    BY DEF Represents, ListTyped
  <2> HIDE DEF T
  <2>3. cs \in Seq(T)
    BY DEF T
  <2> QED BY <2>1, <2>2, <2>3
<1>2. /\ c \notin used /\ used' = used \cup {c}
      /\ mPrevIt' = [d \in T |-> IF d \in used \cup {c}
                        THEN C!Set(C!Set(mPrevIt, c, a), b, c)[d] ELSE Null]
      /\ mNextIt' = [d \in T |-> IF d \in used \cup {c}
                        THEN C!Set(C!Set(mNextIt, c, b), a, c)[d] ELSE Null]
      /\ mCellItem' = [d \in T |-> IF d \in used \cup {c}
                          THEN [mCellItem EXCEPT ![c] = x][d] ELSE Null]
  BY DEF C!Allocate, C!Fresh, C!Linked
<1>3. /\ \A o, k \in 1..L : cs[o] = cs[k] => o = k
      /\ \A d \in T : d \in used <=> \E k \in 1..L : cs[k] = d
      /\ \A k \in 1..L : /\ mCellItem[cs[k]] = asked[k]
                         /\ mPrevIt[cs[k]] = Nth(cs, k - 1) /\ mNextIt[cs[k]] = Nth(cs, k + 1)
      /\ mFirstIt = Nth(cs, 1) /\ mLastIt = Nth(cs, L)
  BY DEF Represents, Distinct
<1>4. PICK qs \in Seq(T) :
          /\ Len(qs) = L + 1
          /\ \A k \in 1..(L + 1) : qs[k] = IF k < n THEN cs[k] ELSE IF k = n THEN c ELSE cs[k - 1]
  <2> HIDE DEF T
  <2>1. /\ C!With(cs, n, c) \in Seq(T) /\ Len(C!With(cs, n, c)) = L + 1
        /\ \A k \in 1..(L + 1) :
              C!With(cs, n, c)[k] = IF k < n THEN cs[k] ELSE IF k = n THEN c ELSE cs[k - 1]
    <3>1. c \in T
      BY DEF T
    <3> QED BY <1>1, <3>1, WithIs
  <2> QED BY <2>1
<1>5. /\ asked' \in Seq(Elements) /\ Len(asked') = L + 1
      /\ \A k \in 1..(L + 1) :
            asked'[k] = IF k < n THEN asked[k] ELSE IF k = n THEN x ELSE asked[k - 1]
  <2>1. asked \in Seq(Elements) /\ n \in 1..(Len(asked) + 1) /\ asked' = C!With(asked, n, x)
    BY <1>1
  <2>2. \A s \in Seq(Elements) : \A m \in 1..(Len(s) + 1) :
            /\ C!With(s, m, x) \in Seq(Elements) /\ Len(C!With(s, m, x)) = Len(s) + 1
            /\ \A k \in 1..(Len(s) + 1) :
                  C!With(s, m, x)[k] = IF k < m THEN s[k] ELSE IF k = m THEN x ELSE s[k - 1]
    BY WithIs
  <2> DEFINE w == C!With(asked, n, x)
             l == Len(asked)
  <2>3. /\ w \in Seq(Elements) /\ Len(w) = l + 1
        /\ \A k \in 1..(l + 1) : w[k] = IF k < n THEN asked[k] ELSE IF k = n THEN x ELSE asked[k - 1]
    BY <2>1, <2>2, Zenon
  <2>4. l = L
    BY <1>1
  <2> HIDE DEF w, l
  <2>5. asked' = w
    BY <2>1 DEF w
  <2> QED BY <2>3, <2>4, <2>5
<1>6. /\ \A k \in Int : Nth(cs, k) = IF k \in 1..L THEN cs[k] ELSE Null
      /\ \A k \in Int : Nth(qs, k) = IF k < n THEN Nth(cs, k) ELSE IF k = n THEN c ELSE Nth(cs, k - 1)
  BY <1>1, <1>4 DEF Nth
<1>7. /\ a \in T \cup {Null} /\ b \in T \cup {Null} /\ a # c /\ b # c
      /\ \A k \in 1..L : (cs[k] = b <=> k = n) /\ (cs[k] = a <=> k = n - 1) /\ cs[k] # c
  <2>1. \A k \in 1..L : cs[k] # c
    BY <1>1, <1>2, <1>3
  <2>2. a = IF n - 1 \in 1..L THEN cs[n - 1] ELSE Null
    BY <1>1, <1>6
  <2>3. b = IF n \in 1..L THEN cs[n] ELSE Null
    BY <1>1, <1>6
  <2> HIDE DEF a, b, T, L
  <2>4. a \in T \cup {Null} /\ b \in T \cup {Null}
    BY <1>1, <2>2, <2>3
  <2>5. a # c /\ b # c
    <3>1. c # Null
      BY <1>1 DEF T
    <3> QED BY <2>1, <2>2, <2>3, <3>1
  <2>6. ASSUME NEW k \in 1..L PROVE (cs[k] = b <=> k = n) /\ (cs[k] = a <=> k = n - 1)
    <3>1. cs[k] # Null
      BY <1>1
    <3>2. cs[k] = b <=> k = n
      BY <1>3, <2>3, <3>1
    <3>3. cs[k] = a <=> k = n - 1
      BY <1>3, <2>2, <3>1
    <3> QED BY <3>2, <3>3
  <2> QED BY <2>1, <2>4, <2>5, <2>6
<1> HIDE DEF a, b, T
<1>8. /\ mPrevIt \in [T -> T \cup {Null}] /\ mNextIt \in [T -> T \cup {Null}]
      /\ mCellItem \in [T -> Elements \cup {Null}] /\ used \subseteq T /\ c \in T
  BY DEF ListTyped, T
<1>9. /\ \A d \in T : C!Set(C!Set(mPrevIt, c, a), b, c)[d] =
                          IF d = b THEN c ELSE IF d = c THEN a ELSE mPrevIt[d]
      /\ \A d \in T : C!Set(C!Set(mNextIt, c, b), a, c)[d] =
                          IF d = a THEN c ELSE IF d = c THEN b ELSE mNextIt[d]
  BY <1>1, <1>7, <1>8 DEF C!Set
<1>10. \A d \in T : [mCellItem EXCEPT ![c] = x][d] = IF d = c THEN x ELSE mCellItem[d]
  BY <1>8
<1>11. /\ \A d \in T : mPrevIt'[d] = IF d \notin used \cup {c} THEN Null
                                     ELSE IF d = b THEN c ELSE IF d = c THEN a ELSE mPrevIt[d]
       /\ \A d \in T : mNextIt'[d] = IF d \notin used \cup {c} THEN Null
                                     ELSE IF d = a THEN c ELSE IF d = c THEN b ELSE mNextIt[d]
       /\ \A d \in T : mCellItem'[d] = IF d \notin used \cup {c} THEN Null
                                       ELSE IF d = c THEN x ELSE mCellItem[d]
  BY <1>2, <1>9, <1>10
<1>12. ListTyped'
  <2>1. /\ mPrevIt' \in [T -> T \cup {Null}] /\ mNextIt' \in [T -> T \cup {Null}]
        /\ mCellItem' \in [T -> Elements \cup {Null}]
    BY <1>2, <1>7, <1>8, <1>9, <1>10, <1>11
  <2> QED BY <1>2, <1>5, <1>8, <2>1 DEF ListTyped, T, C!Cells
<1>13. \A k \in 1..L : cs[k] \in used
  BY <1>1, <1>3
<1>14. ASSUME NEW k \in 1..(L + 1)
       PROVE  /\ mCellItem'[qs[k]] = asked'[k]
              /\ mPrevIt'[qs[k]] = Nth(qs, k - 1) /\ mNextIt'[qs[k]] = Nth(qs, k + 1)
  <2>1. CASE k < n
    <3>1. k \in 1..L /\ qs[k] = cs[k] /\ cs[k] \in T /\ cs[k] \in used /\ cs[k] # c
      BY <1>1, <1>4, <1>7, <1>13, <2>1
    <3>2. mCellItem'[cs[k]] = mCellItem[cs[k]] /\ asked'[k] = asked[k]
      BY <1>5, <1>11, <2>1, <3>1
    <3>3. cs[k] # b /\ mPrevIt'[cs[k]] = mPrevIt[cs[k]]
      BY <1>7, <1>11, <2>1, <3>1
    <3>4. Nth(qs, k - 1) = Nth(cs, k - 1)
      BY <1>6, <2>1
    <3>5. CASE k = n - 1
      <4>1. cs[k] = a /\ mNextIt'[cs[k]] = c
        BY <1>7, <1>11, <3>1, <3>5
      <4>2. k + 1 \in Int /\ k + 1 = n
        BY <3>5
      <4>3. Nth(qs, k + 1) = c
        BY <1>6, <4>2
      <4> QED BY <1>3, <3>1, <3>2, <3>3, <3>4, <4>1, <4>3
    <3>6. CASE k # n - 1
      <4>1. cs[k] # a /\ mNextIt'[cs[k]] = mNextIt[cs[k]]
        BY <1>7, <1>11, <3>1, <3>3, <3>6
      <4>2. k + 1 \in Int /\ k + 1 < n
        BY <2>1, <3>6
      <4>3. Nth(qs, k + 1) = Nth(cs, k + 1)
        BY <1>6, <4>2
      <4> QED BY <1>3, <3>1, <3>2, <3>3, <3>4, <4>1, <4>3
    <3> QED BY <3>5, <3>6
  <2>2. CASE k = n
    <3>1. qs[k] = c /\ asked'[k] = x
      BY <1>4, <1>5, <2>2
    <3>2. mCellItem'[c] = x /\ mPrevIt'[c] = a /\ mNextIt'[c] = b
      BY <1>7, <1>8, <1>11
    <3>3. Nth(qs, k - 1) = Nth(cs, n - 1)
      <4>1. k - 1 \in Int /\ k - 1 < n
        BY <2>2
      <4> QED BY <1>6, <2>2, <4>1
    <3>4. Nth(qs, k + 1) = Nth(cs, n)
      <4>1. k + 1 \in Int /\ ~(k + 1 < n) /\ k + 1 # n /\ (k + 1) - 1 = n
        BY <2>2
      <4> QED BY <1>6, <4>1
    <3> QED BY <3>1, <3>2, <3>3, <3>4 DEF a, b
  <2>3. CASE k > n
    <3> DEFINE o == k - 1
    <3>1. o \in 1..L /\ o >= n /\ o \in Int
      BY <1>1, <2>3
    <3> HIDE DEF o
    <3>2. qs[k] = cs[o] /\ asked'[k] = asked[o] /\ cs[o] \in T /\ cs[o] \in used /\ cs[o] # c
      BY <1>1, <1>4, <1>5, <1>7, <1>13, <2>3, <3>1 DEF o
    <3>3. mCellItem'[cs[o]] = mCellItem[cs[o]]
      BY <1>11, <3>2
    <3>4. cs[o] # a /\ mNextIt'[cs[o]] = mNextIt[cs[o]]
      <4>1. o # n - 1
        BY <3>1
      <4>2. cs[o] # a
        BY <1>7, <3>1, <4>1
      <4> QED BY <1>11, <3>2, <4>2
    <3>5. Nth(qs, k + 1) = Nth(cs, o + 1)
      <4>1. k + 1 \in Int /\ ~(k + 1 < n) /\ k + 1 # n /\ (k + 1) - 1 = o + 1
        BY <2>3 DEF o
      <4> QED BY <1>6, <4>1
    <3>6. CASE o = n
      <4>1. cs[o] = b /\ mPrevIt'[cs[o]] = c
        BY <1>7, <1>11, <3>1, <3>2, <3>6
      <4>2. k - 1 \in Int /\ k - 1 = n
        BY <3>6 DEF o
      <4>3. Nth(qs, k - 1) = c
        BY <1>6, <4>2
      <4> QED BY <1>3, <3>1, <3>2, <3>3, <3>4, <3>5, <4>1, <4>3
    <3>7. CASE o # n
      <4>1. cs[o] # b /\ mPrevIt'[cs[o]] = mPrevIt[cs[o]]
        BY <1>7, <1>11, <3>1, <3>2, <3>7
      <4>2. k - 1 \in Int /\ ~(k - 1 < n) /\ k - 1 # n /\ (k - 1) - 1 = o - 1
        BY <3>1, <3>7 DEF o
      <4>3. Nth(qs, k - 1) = Nth(cs, o - 1)
        BY <1>6, <4>2
      <4> QED BY <1>3, <3>1, <3>2, <3>3, <3>4, <3>5, <4>1, <4>3
    <3> QED BY <3>6, <3>7
  <2> QED BY <2>1, <2>2, <2>3
<1>15. \A o, k \in 1..(L + 1) : qs[o] = qs[k] => o = k
  <2> SUFFICES ASSUME NEW o \in 1..(L + 1), NEW k \in 1..(L + 1), qs[o] = qs[k] PROVE o = k
    OBVIOUS
  <2>1. \A u \in 1..(L + 1) : u = n \/ (u < n /\ u \in 1..L) \/ (u > n /\ u - 1 \in 1..L)
    BY <1>1
  <2>2. \A u \in 1..L : cs[u] # c
    BY <1>7
  <2>3. ASSUME NEW u \in 1..(L + 1)
        PROVE  (u = n <=> qs[u] = c) /\ (u # n => \E l \in 1..L :
                   cs[l] = qs[u] /\ u = IF l < n THEN l ELSE l + 1)
    <3>1. CASE u = n
      BY <1>4, <3>1
    <3>2. CASE u < n /\ u \in 1..L
      BY <1>4, <2>2, <3>2
    <3>3. CASE u > n /\ u - 1 \in 1..L
      <4>1. qs[u] = cs[u - 1]
        BY <1>1, <1>4, <3>3
      <4>2. u = IF u - 1 < n THEN u - 1 ELSE (u - 1) + 1
        BY <3>3
      <4>3. u # n /\ qs[u] # c
        BY <2>2, <3>3, <4>1
      <4>4. \E l \in 1..L : cs[l] = qs[u] /\ u = IF l < n THEN l ELSE l + 1
        BY <3>3, <4>1, <4>2
      <4> QED BY <4>3, <4>4
    <3> QED BY <2>1, <3>1, <3>2, <3>3
  <2>4. CASE o = n \/ k = n
    BY <2>3, <2>4
  <2>5. CASE o # n /\ k # n
    <3>1. PICK l \in 1..L : cs[l] = qs[o] /\ o = IF l < n THEN l ELSE l + 1
      BY <2>3, <2>5
    <3>2. PICK m \in 1..L : cs[m] = qs[k] /\ k = IF m < n THEN m ELSE m + 1
      BY <2>3, <2>5
    <3>3. l = m
      BY <1>3, <3>1, <3>2
    <3> QED BY <3>1, <3>2, <3>3
  <2> QED BY <2>4, <2>5
<1>16. \A d \in T : d \in used' <=> \E k \in 1..(L + 1) : qs[k] = d
  <2>1. ASSUME NEW d \in used' PROVE \E k \in 1..(L + 1) : qs[k] = d
    <3>1. CASE d = c
      BY <1>1, <1>4, <3>1
    <3>2. CASE d # c
      <4>1. PICK k \in 1..L : cs[k] = d
        BY <1>2, <1>3, <1>8, <2>1, <3>2
      <4>2. CASE k < n
        <5>1. k \in 1..(L + 1)
          BY <1>1
        <5>2. qs[k] = d
          BY <1>4, <4>1, <4>2, <5>1
        <5> QED BY <5>1, <5>2
      <4>3. CASE ~(k < n)
        <5>1. k + 1 \in 1..(L + 1) /\ ~(k + 1 < n) /\ k + 1 # n /\ (k + 1) - 1 = k
          BY <1>1, <4>3
        <5>2. qs[k + 1] = d
          BY <1>4, <4>1, <5>1
        <5> QED BY <5>1, <5>2
      <4> QED BY <4>2, <4>3
    <3> QED BY <3>1, <3>2
  <2>2. ASSUME NEW k \in 1..(L + 1) PROVE qs[k] \in used'
    <3>1. k = n \/ (k < n /\ k \in 1..L) \/ (k > n /\ k - 1 \in 1..L)
      BY <1>1
    <3>2. k \in Int /\ n \in Int
      BY <1>1
    <3>3. qs[k] = IF k < n THEN cs[k] ELSE IF k = n THEN c ELSE cs[k - 1]
      BY <1>4
    <3>4. qs[k] = c \/ qs[k] \in used
      BY <1>13, <3>1, <3>2, <3>3
    <3> QED BY <1>2, <3>4
  <2> QED BY <2>1, <2>2
<1>17. mFirstIt' = Nth(qs, 1) /\ mLastIt' = Nth(qs, L + 1)
  <2>1. mFirstIt' = Nth(qs, 1)
    BY <1>1, <1>3, <1>6
  <2>2. mLastIt' = Nth(qs, L + 1)
    <3>1. L + 1 \in Int /\ ~(L + 1 < n) /\ (L + 1) - 1 = L
      BY <1>1
    <3> QED BY <1>3, <1>6, <3>1
  <2> QED BY <2>1, <2>2
<1>18. mCount' = L + 1
  BY <1>1
<1>19. Represents(qs)'
  BY <1>4, <1>5, <1>14, <1>15, <1>16, <1>17, <1>18 DEF Represents, Distinct, T, C!Cells, Nth
<1> QED BY <1>4, <1>12, <1>19 DEF LInv, T, C!Cells

\* The cell at n goes, and its neighbours become each other's.
LEMMA ListRemove ==
    ASSUME ContainersConstants, ListTyped, NEW cs \in Seq(C!Cells), Represents(cs),
           NEW n \in 1..Len(cs), C!Release(cs[n]),
           mFirstIt' = IF n = 1 THEN Nth(cs, 2) ELSE mFirstIt,
           mLastIt' = IF n = Len(cs) THEN Nth(cs, n - 1) ELSE mLastIt,
           mCount' = mCount - 1, asked' = C!Without(asked, n)
    PROVE  LInv'
<1> DEFINE L == Len(cs)
           c == cs[n]
           a == Nth(cs, n - 1)
           b == Nth(cs, n + 1)
           T == C!Cells
<1>1. /\ L \in Nat /\ n \in 1..L /\ Null \notin T
      /\ cs \in Seq(T) /\ asked \in Seq(Elements) /\ L = Len(asked) /\ mCount = L
      /\ \A k \in 1..L : cs[k] \in T
  <2>1. Null \notin T
    BY DEF C!Cells, ContainersConstants
  <2>2. asked \in Seq(Elements) /\ L = Len(asked) /\ mCount = L
    BY DEF Represents, ListTyped
  <2> HIDE DEF T
  <2>3. cs \in Seq(T)
    BY DEF T
  <2> QED BY <2>1, <2>2, <2>3
<1>2. /\ \A o, k \in 1..L : cs[o] = cs[k] => o = k
      /\ \A d \in T : d \in used <=> \E k \in 1..L : cs[k] = d
      /\ \A k \in 1..L : /\ mCellItem[cs[k]] = asked[k]
                         /\ mPrevIt[cs[k]] = Nth(cs, k - 1) /\ mNextIt[cs[k]] = Nth(cs, k + 1)
      /\ mFirstIt = Nth(cs, 1) /\ mLastIt = Nth(cs, L)
  BY DEF Represents, Distinct
<1>3. /\ used' = used \ {c}
      /\ mPrevIt' = [d \in T |-> IF d \in used \ {c} THEN C!Set(mPrevIt, b, a)[d] ELSE Null]
      /\ mNextIt' = [d \in T |-> IF d \in used \ {c} THEN C!Set(mNextIt, a, b)[d] ELSE Null]
      /\ mCellItem' = [d \in T |-> IF d \in used \ {c} THEN mCellItem[d] ELSE Null]
  <2>1. mPrevIt[c] = a /\ mNextIt[c] = b
    BY <1>2
  <2> QED BY <2>1 DEF C!Release, C!Linked
<1>4. PICK qs \in Seq(T) :
          /\ Len(qs) = L - 1
          /\ \A k \in 1..(L - 1) : qs[k] = IF k < n THEN cs[k] ELSE cs[k + 1]
  <2> HIDE DEF T
  <2>1. /\ C!Without(cs, n) \in Seq(T) /\ Len(C!Without(cs, n)) = L - 1
        /\ \A k \in 1..(L - 1) : C!Without(cs, n)[k] = IF k < n THEN cs[k] ELSE cs[k + 1]
    BY <1>1, WithoutIs
  <2> QED BY <2>1
<1>5. /\ asked' \in Seq(Elements) /\ Len(asked') = L - 1
      /\ \A k \in 1..(L - 1) : asked'[k] = IF k < n THEN asked[k] ELSE asked[k + 1]
  <2>1. asked \in Seq(Elements) /\ n \in 1..Len(asked) /\ asked' = C!Without(asked, n)
    BY <1>1
  <2>2. \A s \in Seq(Elements) : \A m \in 1..Len(s) :
            /\ C!Without(s, m) \in Seq(Elements) /\ Len(C!Without(s, m)) = Len(s) - 1
            /\ \A k \in 1..(Len(s) - 1) : C!Without(s, m)[k] = IF k < m THEN s[k] ELSE s[k + 1]
    BY WithoutIs
  <2> DEFINE w == C!Without(asked, n)
             l == Len(asked)
  <2>3. /\ w \in Seq(Elements) /\ Len(w) = l - 1
        /\ \A k \in 1..(l - 1) : w[k] = IF k < n THEN asked[k] ELSE asked[k + 1]
    BY <2>1, <2>2, Zenon
  <2>4. l = L
    BY <1>1
  <2> HIDE DEF w, l
  <2>5. asked' = w
    BY <2>1 DEF w
  <2> QED BY <2>3, <2>4, <2>5
<1>6. /\ \A k \in Int : Nth(cs, k) = IF k \in 1..L THEN cs[k] ELSE Null
      /\ \A k \in Int : Nth(qs, k) = IF k < n THEN Nth(cs, k) ELSE Nth(cs, k + 1)
  BY <1>1, <1>4 DEF Nth
<1>7. /\ a \in T \cup {Null} /\ b \in T \cup {Null} /\ c \in T
      /\ \A k \in 1..L : (cs[k] = b <=> k = n + 1) /\ (cs[k] = a <=> k = n - 1) /\ (cs[k] = c <=> k = n)
  <2>1. a = IF n - 1 \in 1..L THEN cs[n - 1] ELSE Null
    BY DEF Nth
  <2>2. b = IF n + 1 \in 1..L THEN cs[n + 1] ELSE Null
    BY DEF Nth
  <2>3. \A k \in 1..L : cs[k] = c <=> k = n
    BY <1>2
  <2>4. c \in T
    BY <1>1
  <2> HIDE DEF a, b, T, L
  <2>5. a \in T \cup {Null} /\ b \in T \cup {Null}
    BY <1>1, <2>1, <2>2
  <2>6. ASSUME NEW k \in 1..L PROVE (cs[k] = b <=> k = n + 1) /\ (cs[k] = a <=> k = n - 1)
    <3>1. cs[k] # Null
      BY <1>1
    <3>2. cs[k] = b <=> k = n + 1
      BY <1>2, <2>2, <3>1
    <3>3. cs[k] = a <=> k = n - 1
      BY <1>2, <2>1, <3>1
    <3> QED BY <3>2, <3>3
  <2> QED BY <2>3, <2>4, <2>5, <2>6
<1> HIDE DEF a, b, c, T
<1>8. /\ mPrevIt \in [T -> T \cup {Null}] /\ mNextIt \in [T -> T \cup {Null}]
      /\ mCellItem \in [T -> Elements \cup {Null}] /\ used \subseteq T
  BY DEF ListTyped, T
<1>9. /\ \A d \in T : C!Set(mPrevIt, b, a)[d] = IF d = b THEN a ELSE mPrevIt[d]
      /\ \A d \in T : C!Set(mNextIt, a, b)[d] = IF d = a THEN b ELSE mNextIt[d]
  BY <1>1, <1>7, <1>8 DEF C!Set
<1>10. /\ \A d \in T : mPrevIt'[d] = IF d \notin used \ {c} THEN Null
                                     ELSE IF d = b THEN a ELSE mPrevIt[d]
       /\ \A d \in T : mNextIt'[d] = IF d \notin used \ {c} THEN Null
                                     ELSE IF d = a THEN b ELSE mNextIt[d]
       /\ \A d \in T : mCellItem'[d] = IF d \notin used \ {c} THEN Null ELSE mCellItem[d]
  BY <1>3, <1>9
<1>11. ListTyped'
  <2>1. mPrevIt' \in [T -> T \cup {Null}]
    <3>1. \A d \in T : mPrevIt'[d] \in T \cup {Null}
      BY <1>7, <1>8, <1>10
    <3> QED BY <1>3, <3>1
  <2>2. mNextIt' \in [T -> T \cup {Null}]
    <3>1. \A d \in T : mNextIt'[d] \in T \cup {Null}
      BY <1>7, <1>8, <1>10
    <3> QED BY <1>3, <3>1
  <2>3. mCellItem' \in [T -> Elements \cup {Null}]
    <3>1. \A d \in T : mCellItem'[d] \in Elements \cup {Null}
      BY <1>8, <1>10
    <3> QED BY <1>3, <3>1
  <2> QED BY <1>3, <1>5, <1>8, <2>1, <2>2, <2>3 DEF ListTyped, T, C!Cells
<1>12. \A k \in 1..L : k # n => cs[k] \in used \ {c}
  BY <1>1, <1>2, <1>7
<1>13. ASSUME NEW k \in 1..(L - 1)
       PROVE  /\ mCellItem'[qs[k]] = asked'[k]
              /\ mPrevIt'[qs[k]] = Nth(qs, k - 1) /\ mNextIt'[qs[k]] = Nth(qs, k + 1)
  <2>1. CASE k < n
    <3>1. k \in 1..L /\ k # n /\ qs[k] = cs[k] /\ cs[k] \in T /\ cs[k] \in used \ {c}
      BY <1>1, <1>4, <1>12, <2>1
    <3>2. mCellItem'[cs[k]] = mCellItem[cs[k]] /\ asked'[k] = asked[k]
      BY <1>5, <1>10, <2>1, <3>1
    <3>3. cs[k] # b /\ mPrevIt'[cs[k]] = mPrevIt[cs[k]]
      BY <1>7, <1>10, <2>1, <3>1
    <3>4. Nth(qs, k - 1) = Nth(cs, k - 1)
      BY <1>6, <2>1
    <3>5. CASE k = n - 1
      <4>1. cs[k] = a /\ mNextIt'[cs[k]] = b
        BY <1>7, <1>10, <3>1, <3>5
      <4>2. k + 1 \in Int /\ ~(k + 1 < n) /\ (k + 1) + 1 = n + 1
        BY <3>5
      <4>3. Nth(qs, k + 1) = Nth(cs, n + 1)
        BY <1>6, <4>2
      <4> QED BY <1>2, <3>1, <3>2, <3>3, <3>4, <4>1, <4>3 DEF b
    <3>6. CASE k # n - 1
      <4>1. cs[k] # a /\ mNextIt'[cs[k]] = mNextIt[cs[k]]
        BY <1>7, <1>10, <3>1, <3>6
      <4>2. k + 1 \in Int /\ k + 1 < n
        BY <2>1, <3>6
      <4>3. Nth(qs, k + 1) = Nth(cs, k + 1)
        BY <1>6, <4>2
      <4> QED BY <1>2, <3>1, <3>2, <3>3, <3>4, <4>1, <4>3
    <3> QED BY <3>5, <3>6
  <2>2. CASE ~(k < n)
    <3> DEFINE o == k + 1
    <3>1. o \in 1..L /\ o > n /\ o \in Int
      BY <1>1, <2>2
    <3> HIDE DEF o
    <3>2. qs[k] = cs[o] /\ asked'[k] = asked[o] /\ cs[o] \in T /\ cs[o] \in used \ {c}
      BY <1>1, <1>4, <1>5, <1>12, <2>2, <3>1 DEF o
    <3>3. mCellItem'[cs[o]] = mCellItem[cs[o]]
      BY <1>10, <3>2
    <3>4. cs[o] # a /\ mNextIt'[cs[o]] = mNextIt[cs[o]]
      <4>1. o # n - 1
        BY <3>1
      <4>2. cs[o] # a
        BY <1>7, <3>1, <4>1
      <4> QED BY <1>10, <3>2, <4>2
    <3>5. Nth(qs, k + 1) = Nth(cs, o + 1)
      <4>1. k + 1 \in Int /\ ~(k + 1 < n) /\ (k + 1) + 1 = o + 1
        BY <2>2 DEF o
      <4> QED BY <1>6, <4>1
    <3>6. CASE o = n + 1
      <4>1. cs[o] = b /\ mPrevIt'[cs[o]] = a
        BY <1>7, <1>10, <3>1, <3>2, <3>6
      <4>2. k - 1 \in Int /\ k - 1 < n /\ k - 1 = n - 1
        BY <3>6 DEF o
      <4>3. Nth(qs, k - 1) = Nth(cs, n - 1)
        BY <1>6, <4>2
      <4> QED BY <1>2, <3>1, <3>2, <3>3, <3>4, <3>5, <4>1, <4>3 DEF a
    <3>7. CASE o # n + 1
      <4>1. cs[o] # b /\ mPrevIt'[cs[o]] = mPrevIt[cs[o]]
        BY <1>7, <1>10, <3>1, <3>2, <3>7
      <4>2. k - 1 \in Int /\ ~(k - 1 < n) /\ (k - 1) + 1 = o - 1
        BY <3>1, <3>7 DEF o
      <4>3. Nth(qs, k - 1) = Nth(cs, o - 1)
        BY <1>6, <4>2
      <4> QED BY <1>2, <3>1, <3>2, <3>3, <3>4, <3>5, <4>1, <4>3
    <3> QED BY <3>6, <3>7
  <2> QED BY <2>1, <2>2
<1>14. \A o, k \in 1..(L - 1) : qs[o] = qs[k] => o = k
  <2> SUFFICES ASSUME NEW o \in 1..(L - 1), NEW k \in 1..(L - 1), qs[o] = qs[k] PROVE o = k
    OBVIOUS
  <2>1. ASSUME NEW u \in 1..(L - 1)
        PROVE  \E l \in 1..L : l # n /\ cs[l] = qs[u] /\ u = IF l < n THEN l ELSE l - 1
    <3>1. CASE u < n
      <4>1. u \in 1..L /\ qs[u] = cs[u] /\ u # n
        BY <1>1, <1>4, <3>1
      <4> QED BY <3>1, <4>1
    <3>2. CASE ~(u < n)
      <4>1. u + 1 \in 1..L /\ ~(u + 1 < n) /\ u + 1 # n /\ u = (u + 1) - 1 /\ qs[u] = cs[u + 1]
        BY <1>1, <1>4, <3>2
      <4> QED BY <4>1
    <3> QED BY <3>1, <3>2
  <2>2. PICK l \in 1..L : l # n /\ cs[l] = qs[o] /\ o = IF l < n THEN l ELSE l - 1
    BY <2>1
  <2>3. PICK m \in 1..L : m # n /\ cs[m] = qs[k] /\ k = IF m < n THEN m ELSE m - 1
    BY <2>1
  <2>4. l = m
    BY <1>2, <2>2, <2>3
  <2> QED BY <2>2, <2>3, <2>4
<1>15. \A d \in T : d \in used' <=> \E k \in 1..(L - 1) : qs[k] = d
  <2>1. ASSUME NEW d \in used' PROVE \E k \in 1..(L - 1) : qs[k] = d
    <3>1. PICK k \in 1..L : cs[k] = d /\ k # n
      BY <1>2, <1>3, <1>7, <1>8, <2>1
    <3>2. CASE k < n
      <4>1. k \in 1..(L - 1)
        BY <1>1, <3>2
      <4>2. qs[k] = d
        BY <1>4, <3>1, <3>2, <4>1
      <4> QED BY <4>1, <4>2
    <3>3. CASE ~(k < n)
      <4>1. k - 1 \in 1..(L - 1) /\ ~(k - 1 < n) /\ (k - 1) + 1 = k
        BY <1>1, <3>1, <3>3
      <4>2. qs[k - 1] = d
        BY <1>4, <3>1, <4>1
      <4> QED BY <4>1, <4>2
    <3> QED BY <3>2, <3>3
  <2>2. ASSUME NEW k \in 1..(L - 1) PROVE qs[k] \in used'
    <3>1. (k < n /\ k \in 1..L /\ k # n) \/ (~(k < n) /\ k + 1 \in 1..L /\ k + 1 # n)
      BY <1>1
    <3>2. qs[k] = IF k < n THEN cs[k] ELSE cs[k + 1]
      BY <1>4
    <3> QED BY <1>3, <1>12, <3>1, <3>2
  <2> QED BY <2>1, <2>2
<1>16. mFirstIt' = Nth(qs, 1) /\ mLastIt' = Nth(qs, L - 1)
  <2>1. mFirstIt' = Nth(qs, 1)
    <3>1. Nth(qs, 1) = IF 1 < n THEN Nth(cs, 1) ELSE Nth(cs, 2)
      BY <1>6
    <3>2. n # 1 <=> 1 < n
      BY <1>1
    <3>3. mFirstIt' = IF n = 1 THEN Nth(cs, 2) ELSE Nth(cs, 1)
      BY <1>2
    <3> QED BY <3>1, <3>2, <3>3
  <2>2. mLastIt' = Nth(qs, L - 1)
    <3>1. L - 1 \in Int /\ (L - 1) + 1 = L
      BY <1>1
    <3>2. Nth(qs, L - 1) = IF L - 1 < n THEN Nth(cs, L - 1) ELSE Nth(cs, L)
      BY <1>6, <3>1
    <3>3. n = L <=> L - 1 < n
      BY <1>1
    <3>4. mLastIt' = IF n = L THEN Nth(cs, L - 1) ELSE Nth(cs, L)
      BY <1>2 DEF L
    <3> QED BY <3>2, <3>3, <3>4
  <2> QED BY <2>1, <2>2
<1>17. mCount' = L - 1
  BY <1>1
<1>18. Represents(qs)'
  BY <1>4, <1>5, <1>13, <1>14, <1>15, <1>16, <1>17 DEF Represents, Distinct, T, C!Cells, Nth
<1> QED BY <1>4, <1>11, <1>18 DEF LInv, T, C!Cells

\* list_at follows the cells one by one, and there is one function that does.
LEMMA ListAt ==
    ASSUME ContainersConstants, ListTyped, NEW cs \in Seq(C!Cells), Represents(cs),
           NEW index \in Nat
    PROVE  C!list_at(index) = Nth(cs, index + 1)
<1> DEFINE I == 0..index
           Follow(f) == [n \in I |-> IF n = 0 THEN mFirstIt
                                     ELSE IF f[n - 1] = Null THEN Null ELSE mNextIt[f[n - 1]]]
           g == [n \in I |-> Nth(cs, n + 1)]
           At == CHOOSE f : f = Follow(f)
<1>1. C!list_at(index) = At[index]
  BY DEF C!list_at
<1>2. /\ Len(cs) \in Nat /\ mFirstIt = Nth(cs, 1)
      /\ \A k \in 1..Len(cs) : cs[k] # Null /\ mNextIt[cs[k]] = Nth(cs, k + 1)
  <2>1. Null \notin C!Cells
    BY DEF C!Cells, ContainersConstants
  <2> DEFINE T == C!Cells
  <2>2. cs \in Seq(T) /\ Null \notin T
    BY <2>1
  <2> HIDE DEF T
  <2>3. \A k \in 1..Len(cs) : cs[k] # Null
    BY <2>2
  <2> QED BY SMTT(30), <2>3 DEF Represents
<1>3. \A n \in I : n # 0 =>
          Nth(cs, n + 1) = IF Nth(cs, n) = Null THEN Null ELSE mNextIt[Nth(cs, n)]
  <2> SUFFICES ASSUME NEW n \in I, n # 0
               PROVE  Nth(cs, n + 1) = IF Nth(cs, n) = Null THEN Null ELSE mNextIt[Nth(cs, n)]
    OBVIOUS
  <2>1. n \in Nat /\ n >= 1
    OBVIOUS
  <2>2. CASE n <= Len(cs)
    <3>1. n \in 1..Len(cs) /\ Nth(cs, n) = cs[n]
      BY <1>2, <2>1, <2>2 DEF Nth
    <3> QED BY <1>2, <3>1
  <2>3. CASE ~(n <= Len(cs))
    <3>1. n \notin 1..Len(cs) /\ n + 1 \notin 1..Len(cs)
      BY <1>2, <2>1, <2>3
    <3> QED BY <3>1 DEF Nth
  <2> QED BY <2>2, <2>3
<1>4. g = Follow(g)
  <2>1. \A n \in I : n # 0 => n - 1 \in I /\ (n - 1) + 1 = n
    OBVIOUS
  <2>2. \A n \in I : n # 0 => g[n - 1] = Nth(cs, n)
    BY <2>1
  <2>3. \A n \in I : Nth(cs, n + 1) = IF n = 0 THEN mFirstIt
                                      ELSE IF g[n - 1] = Null THEN Null ELSE mNextIt[g[n - 1]]
    BY <1>2, <1>3, <2>2
  <2> QED BY <2>3
<1>5. At = Follow(At)
  <2>1. \E f : f = Follow(f)
    BY <1>4
  <2> HIDE DEF Follow
  <2> QED BY <2>1
<1> HIDE DEF At
<1>6. \A n \in I : At[n] = IF n = 0 THEN mFirstIt
                           ELSE IF At[n - 1] = Null THEN Null ELSE mNextIt[At[n - 1]]
  BY <1>5
<1>7. \A n \in I : At[n] = Nth(cs, n + 1)
  <2> DEFINE Wrong == {n \in I : At[n] # Nth(cs, n + 1)}
  <2>1. SUFFICES ASSUME Wrong # {} PROVE FALSE
    OBVIOUS
  <2>2. Wrong \in SUBSET Nat
    OBVIOUS
  <2> HIDE DEF Wrong
  <2>3. PICK n \in Wrong : \A k \in Wrong : n <= k
    BY <2>1, <2>2, Least
  <2>4. n \in I /\ At[n] # Nth(cs, n + 1)
    BY DEF Wrong
  <2>5. n # 0
    BY <1>2, <1>6, <2>4
  <2>6. n - 1 \in I /\ (n - 1) + 1 = n /\ n - 1 \notin Wrong
    BY <2>3, <2>4, <2>5
  <2>7. At[n - 1] = Nth(cs, n)
    BY <2>6 DEF Wrong
  <2> QED BY <1>3, <1>6, <2>4, <2>5, <2>7
<1> QED BY <1>1, <1>7

\* The list is what it represents.
LEMMA ListHolds ==
    ASSUME ContainersConstants, LInv
    PROVE  C!ListIsSequence /\ mCount \in Nat /\ mFirstIt \in C!Cells \cup {Null}
           /\ mLastIt \in C!Cells \cup {Null}
<1>1. PICK cs \in Seq(C!Cells) : Represents(cs)
  BY DEF LInv
<1>2. \A n \in Nat : C!list_at(n) = Nth(cs, n + 1)
  BY <1>1, ListAt DEF LInv
<1>3. mCount = Len(cs) /\ mCount = Len(asked) /\ mCount \in Nat
  BY <1>1 DEF Represents
<1>4. \A k \in 1..mCount : cs[k] \in C!Cells
  <2> DEFINE T == C!Cells
  <2>1. cs \in Seq(T)
    OBVIOUS
  <2> HIDE DEF T
  <2>2. \A k \in 1..Len(cs) : cs[k] \in T
    BY <2>1
  <2> QED BY <1>3, <2>2 DEF T
<1>5. mFirstIt \in C!Cells \cup {Null} /\ mLastIt \in C!Cells \cup {Null}
  <2>1. mFirstIt = Nth(cs, 1) /\ mLastIt = Nth(cs, mCount)
    BY <1>1, <1>3 DEF Represents
  <2> QED BY <1>3, <1>4, <2>1 DEF Nth
<1>6. ASSUME NEW n \in 0..(mCount - 1)
      PROVE  /\ C!list_at(n) \in used
             /\ mCellItem[C!list_at(n)] = asked[n + 1]
             /\ mPrevIt[C!list_at(n)] = IF n = 0 THEN Null ELSE C!list_at(n - 1)
  <2>1. n \in Nat /\ n + 1 \in 1..mCount /\ (n # 0 => n - 1 \in Nat) /\ (n - 1) + 1 = n
        /\ (n + 1) - 1 = n
    BY <1>3
  <2>2. C!list_at(n) = cs[n + 1]
    BY <1>2, <1>3, <2>1 DEF Nth
  <2>3. /\ cs[n + 1] \in used /\ mCellItem[cs[n + 1]] = asked[n + 1]
        /\ mPrevIt[cs[n + 1]] = Nth(cs, n)
    BY <1>1, <1>3, <1>4, <2>1 DEF Represents
  <2>4. Nth(cs, n) = IF n = 0 THEN Null ELSE C!list_at(n - 1)
    BY <1>2, <2>1 DEF Nth
  <2> QED BY <2>2, <2>3, <2>4
<1>7. ASSUME NEW c \in used PROVE \E n \in 0..(mCount - 1) : c = C!list_at(n)
  <2>1. PICK k \in 1..mCount : cs[k] = c
    BY <1>1, <1>3 DEF Represents, LInv, ListTyped
  <2>2. k - 1 \in 0..(mCount - 1) /\ k - 1 \in Nat /\ (k - 1) + 1 = k
    BY <1>3
  <2>3. C!list_at(k - 1) = c
    BY <1>2, <1>3, <2>1, <2>2 DEF Nth
  <2> QED BY <2>2, <2>3
<1>8. C!list_at(mCount) = Null
  BY <1>2, <1>3 DEF Nth
<1>9. mLastIt = IF mCount = 0 THEN Null ELSE C!list_at(mCount - 1)
  <2>1. mLastIt = Nth(cs, mCount)
    BY <1>1, <1>3 DEF Represents
  <2>2. mCount # 0 => mCount - 1 \in Nat /\ (mCount - 1) + 1 = mCount
    BY <1>3
  <2>3. CASE mCount = 0
    BY <2>1, <2>3 DEF Nth
  <2>4. CASE mCount # 0
    <3>1. C!list_at(mCount - 1) = Nth(cs, (mCount - 1) + 1)
      BY <1>2, <2>2, <2>4
    <3> QED BY <2>1, <2>2, <2>4, <3>1
  <2> QED BY <2>3, <2>4
<1> QED BY <1>3, <1>5, <1>6, <1>7, <1>8, <1>9 DEF C!ListIsSequence

\* Each operation on a list puts one cell in, takes one out, or changes the
\* item of one.
LEMMA ListStep == ASSUME ContainersConstants, LInv, C!ListStep PROVE LInv'
<1>1. PICK cs \in Seq(C!Cells) : Represents(cs)
  BY DEF LInv
<1> DEFINE L == Len(cs)
<1>2. ListTyped /\ asked \in Seq(Elements) /\ L = Len(asked) /\ mCount = L /\ L \in Nat
      /\ mFirstIt = Nth(cs, 1) /\ mLastIt = Nth(cs, L)
  BY <1>1 DEF LInv, ListTyped, Represents
<1>3. /\ \A k \in 1..L : cs[k] \in C!Cells /\ cs[k] # Null
      /\ \A o, k \in 1..L : cs[o] = cs[k] => o = k
      /\ \A k \in 1..L : mPrevIt[cs[k]] = Nth(cs, k - 1) /\ mNextIt[cs[k]] = Nth(cs, k + 1)
  <2>1. Null \notin C!Cells
    BY DEF C!Cells, ContainersConstants
  <2> DEFINE T == C!Cells
  <2>2. cs \in Seq(T) /\ Null \notin T
    BY <2>1
  <2> HIDE DEF T
  <2>3. \A k \in 1..L : cs[k] \in T /\ cs[k] # Null
    BY <2>2
  <2> QED BY <1>1, <2>3 DEF T, Represents, Distinct
<1>4. ASSUME NEW n \in 0..(mCount - 1)
      PROVE  /\ n + 1 \in 1..L /\ C!list_at(n) = cs[n + 1]
             /\ mPrevIt[cs[n + 1]] = Nth(cs, (n + 1) - 1)
             /\ mNextIt[cs[n + 1]] = Nth(cs, (n + 1) + 1)
  <2>1. n \in Nat /\ n + 1 \in 1..L
    BY <1>2
  <2>2. C!list_at(n) = Nth(cs, n + 1)
    BY <1>1, <1>2, <2>1, ListAt
  <2> QED BY <1>3, <2>1, <2>2 DEF Nth
<1>5. \A k \in Int : Nth(cs, k) = IF k \in 1..L THEN cs[k] ELSE Null
  BY DEF Nth
<1>6. ASSUME NEW c \in C!Cells, NEW x \in Elements, C!list_push_front(c, x) PROVE LInv'
  <2>1. /\ C!Allocate(c, x, Null, mFirstIt) /\ mLastIt' = IF mFirstIt = Null THEN c ELSE mLastIt
        /\ mFirstIt' = c /\ mCount' = mCount + 1 /\ asked' = C!With(asked, 1, x)
    BY <1>6 DEF C!list_push_front
  <2>2. 1 \in 1..(L + 1) /\ Nth(cs, 1 - 1) = Null /\ (mFirstIt = Null <=> 1 = L + 1)
    BY <1>2, <1>3, <1>5
  <2> HIDE DEF L
  <2> QED BY <1>1, <1>2, <2>1, <2>2, ListInsert DEF L
<1>7. ASSUME NEW c \in C!Cells, NEW x \in Elements, C!list_push_back(c, x) PROVE LInv'
  <2>1. /\ C!Allocate(c, x, mLastIt, Null) /\ mFirstIt' = IF mLastIt = Null THEN c ELSE mFirstIt
        /\ mLastIt' = c /\ mCount' = mCount + 1 /\ asked' = C!With(asked, Len(asked) + 1, x)
    BY <1>7 DEF C!list_push_back
  <2>2. /\ L + 1 \in 1..(L + 1) /\ Nth(cs, L + 1) = Null /\ Nth(cs, (L + 1) - 1) = mLastIt
        /\ (mLastIt = Null <=> L + 1 = 1)
    BY <1>2, <1>3, <1>5
  <2> HIDE DEF L
  <2> QED BY <1>1, <1>2, <2>1, <2>2, ListInsert DEF L
<1>8. ASSUME NEW c \in C!Cells, NEW x \in Elements, NEW n \in 0..(mCount - 1),
             C!list_insert_front(c, n, x)
      PROVE  LInv'
  <2>1. /\ C!Allocate(c, x, mPrevIt[cs[n + 1]], cs[n + 1])
        /\ mFirstIt' = IF mFirstIt = cs[n + 1] THEN c ELSE mFirstIt
        /\ mLastIt' = mLastIt /\ mCount' = mCount + 1 /\ asked' = C!With(asked, n + 1, x)
    BY <1>4, <1>8 DEF C!list_insert_front
  <2>2. /\ n + 1 \in 1..(L + 1) /\ n + 1 # L + 1 /\ Nth(cs, n + 1) = cs[n + 1]
        /\ mPrevIt[cs[n + 1]] = Nth(cs, (n + 1) - 1) /\ (mFirstIt = cs[n + 1] <=> n + 1 = 1)
    BY <1>2, <1>3, <1>4, <1>5
  <2> HIDE DEF L
  <2> QED BY <1>1, <1>2, <2>1, <2>2, ListInsert DEF L
<1>9. ASSUME NEW c \in C!Cells, NEW x \in Elements, NEW n \in 0..(mCount - 1),
             C!list_insert_back(c, n, x)
      PROVE  LInv'
  <2>1. /\ C!Allocate(c, x, cs[n + 1], mNextIt[cs[n + 1]])
        /\ mLastIt' = IF mLastIt = cs[n + 1] THEN c ELSE mLastIt
        /\ mFirstIt' = mFirstIt /\ mCount' = mCount + 1 /\ asked' = C!With(asked, n + 2, x)
    BY <1>4, <1>9 DEF C!list_insert_back
  <2>2. /\ n + 2 \in 1..(L + 1) /\ n + 2 # 1 /\ Nth(cs, (n + 2) - 1) = cs[n + 1]
        /\ mNextIt[cs[n + 1]] = Nth(cs, n + 2) /\ (mLastIt = cs[n + 1] <=> n + 2 = L + 1)
    <3>1. (n + 2) - 1 = n + 1 /\ (n + 1) + 1 = n + 2
      BY <1>2
    <3> QED BY SMTT(30), <1>2, <1>3, <1>4, <1>5, <3>1
  <2> HIDE DEF L
  <2> QED BY <1>1, <1>2, <2>1, <2>2, ListInsert DEF L
<1>10. ASSUME NEW n \in 0..(mCount - 1), C!list_erase(n) PROVE LInv'
  <2>1. /\ mFirstIt' = IF mFirstIt = cs[n + 1] THEN mNextIt[cs[n + 1]] ELSE mFirstIt
        /\ mLastIt' = IF mLastIt = cs[n + 1] THEN mPrevIt[cs[n + 1]] ELSE mLastIt
        /\ C!Release(cs[n + 1]) /\ mCount' = mCount - 1 /\ asked' = C!Without(asked, n + 1)
    BY <1>4, <1>10 DEF C!list_erase, C!LastWithout
  <2>2. /\ n + 1 \in 1..L /\ (mFirstIt = cs[n + 1] <=> n + 1 = 1)
        /\ (mLastIt = cs[n + 1] <=> n + 1 = L)
        /\ mPrevIt[cs[n + 1]] = Nth(cs, (n + 1) - 1) /\ (n + 1 = 1 => mNextIt[cs[n + 1]] = Nth(cs, 2))
    BY SMTT(30), <1>2, <1>3, <1>4, <1>5
  <2> HIDE DEF L
  <2> QED BY <1>1, <1>2, <2>1, <2>2, ListRemove DEF L
<1>11. ASSUME C!list_pop_front PROVE LInv'
  <2>1. /\ mFirstIt # Null /\ mLastIt' = IF mLastIt = mFirstIt THEN Null ELSE mLastIt
        /\ mFirstIt' = mNextIt[mFirstIt]
        /\ C!Release(mFirstIt) /\ mCount' = mCount - 1 /\ asked' = C!Without(asked, 1)
    BY <1>11 DEF C!list_pop_front
  <2>2. 1 \in 1..L /\ mFirstIt = cs[1] /\ mNextIt[mFirstIt] = Nth(cs, 2)
    BY <1>2, <1>3, <1>5, <2>1
  <2>3. (mLastIt = mFirstIt <=> 1 = L) /\ Nth(cs, 1 - 1) = Null
    BY <1>2, <1>3, <1>5, <2>2
  <2> HIDE DEF L
  <2> QED BY <1>1, <1>2, <2>1, <2>2, <2>3, ListRemove DEF L
<1>12. ASSUME C!list_pop_back PROVE LInv'
  <2>1. /\ mLastIt # Null /\ mFirstIt' = IF mFirstIt = mLastIt THEN Null ELSE mFirstIt
        /\ mLastIt' = mPrevIt[mLastIt]
        /\ C!Release(mLastIt) /\ mCount' = mCount - 1 /\ asked' = C!Without(asked, Len(asked))
    BY <1>12 DEF C!list_pop_back
  <2>2. L \in 1..L /\ mLastIt = cs[L] /\ mPrevIt[mLastIt] = Nth(cs, L - 1)
    BY <1>2, <1>3, <1>5, <2>1
  <2>3. (mFirstIt = mLastIt <=> L = 1) /\ (L = 1 => Nth(cs, 2) = Null)
    BY SMTT(30), <1>2, <1>3, <1>5, <2>2
  <2> HIDE DEF L
  <2> QED BY <1>1, <1>2, <2>1, <2>2, <2>3, ListRemove DEF L
<1>13. ASSUME C!list_clear PROVE LInv'
  <2>1. /\ used' = {} /\ mPrevIt' = [c \in C!Cells |-> Null] /\ mNextIt' = [c \in C!Cells |-> Null]
        /\ mCellItem' = [c \in C!Cells |-> Null]
        /\ mFirstIt' = Null /\ mLastIt' = Null /\ mCount' = 0 /\ asked' = <<>>
    BY <1>13 DEF C!list_clear, C!Linked
  <2>2. ListTyped'
    BY <2>1 DEF ListTyped, C!Cells
  <2>3. <<>> \in Seq(C!Cells) /\ Represents(<<>>)'
    BY <2>1 DEF Represents, Distinct, Nth, C!Cells
  <2> QED BY <2>2, <2>3 DEF LInv, C!Cells
<1>14. ASSUME NEW n \in 0..(mCount - 1), NEW x \in Elements, C!list_replace(n, x) PROVE LInv'
  <2>1. /\ mCellItem' = [mCellItem EXCEPT ![cs[n + 1]] = x] /\ asked' = [asked EXCEPT ![n + 1] = x]
        /\ UNCHANGED <<mNextIt, mPrevIt, used, mFirstIt, mLastIt, mCount>>
    BY <1>4, <1>14 DEF C!list_replace
  <2>2. n + 1 \in 1..L /\ cs[n + 1] \in C!Cells
    BY <1>3, <1>4
  <2>3. /\ asked' \in Seq(Elements) /\ Len(asked') = L
        /\ \A k \in 1..L : asked'[k] = IF k = n + 1 THEN x ELSE asked[k]
    BY <1>2, <2>1, <2>2
  <2>4. /\ mCellItem' \in [C!Cells -> Elements \cup {Null}]
        /\ \A c \in C!Cells : mCellItem'[c] = IF c = cs[n + 1] THEN x ELSE mCellItem[c]
    BY <1>2, <2>1, <2>2 DEF ListTyped
  <2>5. ListTyped'
    BY <1>2, <2>1, <2>3, <2>4 DEF ListTyped, C!Cells
  <2>6. \A k \in 1..L : mCellItem'[cs[k]] = asked'[k]
    <3>1. \A k \in 1..L : mCellItem[cs[k]] = asked[k]
      BY <1>1 DEF Represents
    <3> QED BY <1>3, <2>2, <2>3, <2>4, <3>1
  <2>7. Represents(cs)'
    BY <1>1, <2>1, <2>3, <2>6 DEF Represents, C!Cells
  <2> QED BY <2>5, <2>7 DEF LInv, C!Cells
<1> QED BY <1>6, <1>7, <1>8, <1>9, <1>10, <1>11, <1>12, <1>13, <1>14 DEF C!ListStep

\* The inductive invariant of the containers.
CInv == LInv /\ BInv

\* So every step keeps the invariant of the containers.
LEMMA ContainersStep ==
    ASSUME ContainersConstants, CInv, C!Next \/ UNCHANGED containers
    PROVE  CInv'
<1>1. ASSUME UNCHANGED C!list PROVE LInv'
  <2>1. /\ UNCHANGED <<mNextIt, mPrevIt, mCellItem, used>>
        /\ UNCHANGED <<mFirstIt, mLastIt, mCount, asked>>
    BY <1>1 DEF C!list, C!cells
  <2>2. ListTyped'
    BY <2>1 DEF CInv, LInv, ListTyped, C!Cells
  <2>3. PICK cs \in Seq(C!Cells) : Represents(cs)
    BY DEF CInv, LInv
  <2>4. Represents(cs)'
    BY <2>1, <2>3 DEF Represents, C!Cells
  <2> QED BY <2>2, <2>3, <2>4 DEF LInv, C!Cells
<1>2. ASSUME UNCHANGED <<vector, string>> PROVE BInv'
  BY <1>2 DEF CInv, BInv, BuffersTyped, C!BuffersHold
<1>3. CASE C!ListStep /\ UNCHANGED <<vector, string>>
  BY <1>2, <1>3, ListStep DEF CInv
<1>4. CASE C!VectorStep /\ UNCHANGED <<C!list, string>>
  <2>1. UNCHANGED C!list /\ UNCHANGED string
    BY <1>4
  <2> QED BY <1>1, <1>4, <2>1, VectorGrows DEF CInv
<1>5. CASE C!StringStep /\ UNCHANGED <<C!list, vector>>
  <2>1. UNCHANGED C!list /\ UNCHANGED vector
    BY <1>5
  <2> QED BY <1>1, <1>5, <2>1, StringGrows DEF CInv
<1>6. CASE UNCHANGED containers
  <2>1. UNCHANGED C!list /\ UNCHANGED <<vector, string>>
    BY <1>6 DEF containers, C!list, C!cells
  <2> QED BY <1>1, <1>2, <2>1 DEF CInv
<1> QED BY <1>3, <1>4, <1>5, <1>6 DEF C!Next

\* Of which their property follows.
LEMMA ContainersHold ==
    ASSUME ContainersConstants, CInv
    PROVE  C!TypeOK /\ C!ListIsSequence /\ C!BuffersHold
BY ListHolds DEF CInv, LInv, ListTyped, BInv, BuffersTyped, C!TypeOK

-----------------------------------------------------------------------------
(* The memory as a whole.                                                  *)

Constants == ContainersConstants /\ PagesConstants /\ OptionsConstants

\* The inductive invariant.
MemoryInv == CInv /\ PInv /\ OInv

\* The invariant is inductive: an operation on one of the containers, the
\* pages or the options keeps it, and leaves the others as they are
\* (obj_list.c, obj_vector.c, obj_string.c, stack.c, block.c, obj_fun.c).
THEOREM MemoryInvariance == ASSUME Constants PROVE MemorySpec => []MemoryInv
<1>1. MemoryInit => MemoryInv
  BY ListInit, BuffersInit, PagesInit, OptionsInit DEF Constants, MemoryInit, MemoryInv, CInv
<1>2. MemoryInv /\ [MemoryNext]_<<subject, containers, pages, options>> => MemoryInv'
  <2> SUFFICES ASSUME MemoryInv, [MemoryNext]_<<subject, containers, pages, options>> PROVE MemoryInv'
    OBVIOUS
  <2>1. /\ C!Next \/ UNCHANGED containers
        /\ P!Next \/ UNCHANGED pages
        /\ O!Next \/ UNCHANGED options
    BY DEF MemoryNext
  <2> QED BY <2>1, ContainersStep, PagesStep, OptionsStep DEF Constants, MemoryInv
<1> QED BY <1>1, <1>2, PTL DEF MemorySpec

\* Whatever the sizes: the cells of a list are the items it was asked to
\* hold, no buffer is written past its end, the temporaries of a call end
\* with it and no others do, and an option is found exactly when it was
\* given.
THEOREM MemoryAlwaysHolds == ASSUME Constants PROVE MemorySpec => []MemoryHolds
<1>1. MemoryInv => MemoryHolds
  BY ContainersHold, PagesHold, OptionsHold DEF Constants, MemoryInv, MemoryHolds
<1> QED BY <1>1, MemoryInvariance, PTL

-----------------------------------------------------------------------------
(* Sorting.  Nothing in the code compares i or j with the ends of the       *)
(* range.  What stops a scan is a position ahead of it: at first the centre *)
(* line, later a line that the last swap has put there.  With -shuffle the  *)
(* numbers stay behind when lines are swapped, and it is the middle         *)
(* position or the centre line that stops a scan, each on one side.         *)

\* What is assumed of the constants: a count, and numbers to compare.
SortConstants == Count \in Nat /\ Numbers \subseteq Int

Busy   == phase \in {"left", "right"}
Centre    == Middle(left, right)
Blocks == shuffle_num = Nothing

\* The order that the answers give, if they are one.
Preferred(a, b) == <<b, a>> \in before

\* Positions that stop the scan from the left, and the one from the right,
\* when a block answers.
StopsLeft(s)  == mLines[s] = center_item \/ ~Preferred(center_item, mLines[s])
StopsRight(s) == mLines[s] = center_item \/ ~Preferred(mLines[s], center_item)

\* Ranges: a position in one, two in the same, none in two; and a table in
\* which only positions of the same range may be in the wrong order.
Spans(m, r)      == r[1] <= m /\ m <= r[2]
Together(m, n, rs) == \E k \in 1..Len(rs) : Spans(m, rs[k]) /\ Spans(n, rs[k])
Disjoint(rs)     == \A k, l \in 1..Len(rs) : \A m \in Lines :
                        Spans(m, rs[k]) /\ Spans(m, rs[l]) => k = l
Inside(rs)       == \A k \in 1..Len(rs) : 1 <= rs[k][1] /\ rs[k][2] <= Count
Separated(t, rs) == Blocks /\ IsOrder => \A m, n \in Lines :
                        m < n /\ ~Together(m, n, rs) => ~Preferred(t[m], t[n])

\* The ranges that are not sorted yet: the one at work, and those pending.
Todo == <<<<left, right>>>> \o pending

\* The inductive invariant, in parts.
SortTyped ==
    /\ SortTypeOK
    /\ shuffle_num \in [Lines -> Numbers] \cup {Nothing}
    /\ \A line \in Lines : \E n \in Lines : mLines[n] = line
    /\ \A m, n \in Lines : mLines[m] = mLines[n] => m = n

Ranges == Busy => /\ left \in Lines /\ right \in Lines /\ left < right
                  /\ i \in left..right /\ j \in left..right
                  /\ center_item \in Lines
                  /\ Disjoint(Todo) /\ Inside(pending) /\ Separated(mLines, Todo)

\* A scan has something ahead of it that stops it.
StoppedByBlock ==
    Busy /\ Blocks =>
        /\ \E s \in left..j : StopsRight(s)
        /\ phase = "left" => \E s \in i..right : StopsLeft(s)
        /\ phase = "right" => StopsLeft(i)

StoppedByNumber ==
    Busy /\ ~Blocks => \E q \in left..right :
        /\ mLines[q] = center_item
        /\ \/ q = Centre /\ i <= Centre /\ Centre <= j
           \/ Centre < i /\ i <= q /\ Centre <= j /\ j < q
           \/ q < i /\ i <= Centre /\ q <= j /\ j < Centre

\* What the scans have passed is on its side of the centre line.
Parted ==
    Busy /\ Blocks /\ IsOrder =>
        /\ \A k \in left..(i - 1) : ~Preferred(mLines[k], center_item)
        /\ \A k \in (j + 1)..right : ~Preferred(center_item, mLines[k])

Written == phase = "sorted" => nextout = mLines /\ Separated(mLines, <<>>)

SortedInv == SortTyped /\ Ranges /\ StoppedByBlock /\ StoppedByNumber /\ Parted /\ Written

-----------------------------------------------------------------------------
\* The middle of a range lies in it.
LEMMA MiddleInside ==
    ASSUME NEW l \in Int, NEW r \in Int, l <= r
    PROVE  Middle(l, r) \in l..r
BY DEF Middle

\* The ranges at work and pending, by their places.
LEMMA TodoPlaces ==
    ASSUME pending \in Seq(Nat \X Nat), left \in Nat, right \in Nat
    PROVE  /\ Len(Todo) = Len(pending) + 1
           /\ Todo[1][1] = left /\ Todo[1][2] = right
           /\ \A k \in 1..Len(pending) : Todo[k + 1] = pending[k]
<1>1. <<<<left, right>>>> \in Seq(Nat \X Nat) /\ Len(<<<<left, right>>>>) = 1
  OBVIOUS
<1>2. Len(Todo) = Len(pending) + 1 /\ \A k \in 1..Len(pending) : Todo[k + 1] = pending[k]
  BY <1>1 DEF Todo
<1>3. Todo[1] = <<left, right>>
  BY <1>1 DEF Todo
<1> QED BY <1>2, <1>3

\* A new range is begun, or nothing is left to sort.
LEMMA SortEnterInv ==
    ASSUME SortConstants, NEW rs \in Seq(Nat \X Nat), Inside(rs), Disjoint(rs),
           Enter(mLines', rs),
           mLines' \in [Lines -> Lines],
           Blocks' /\ IsOrder' => \A m, n \in Lines :
               m < n /\ ~Together(m, n, rs) => <<mLines'[n], mLines'[m]>> \notin before'
    PROVE  SortTypeOK' /\ Ranges' /\ StoppedByBlock' /\ StoppedByNumber' /\ Parted' /\ Written'
<1> DEFINE two(n) == rs[n][1] < rs[n][2]
<1>1. Count \in Nat /\ \A k \in 1..Len(rs) : rs[k] \in Nat \X Nat
  BY DEF SortConstants
<1>2. CASE /\ \A n \in 1..Len(rs) : ~two(n)
           /\ phase' = "sorted" /\ nextout' = mLines'
           /\ left' = 0 /\ right' = 0 /\ center_item' = Nothing /\ i' = 0 /\ j' = 0
           /\ pending' = <<>>
  <2>1. SortTypeOK'
    BY <1>1, <1>2 DEF SortTypeOK
  <2>2. \A m, n \in Lines : m < n => ~Together(m, n, rs)
    BY <1>1, <1>2 DEF Together, Spans, Lines
  <2>3. Written'
    BY <1>2, <2>2 DEF Written, Separated, Preferred
  <2> QED BY <1>2, <2>1, <2>3 DEF Busy, Ranges, StoppedByBlock, StoppedByNumber, Parted
<1>3. ASSUME NEW n \in 1..Len(rs),
             /\ two(n) /\ \A m \in 1..(n - 1) : ~two(m)
             /\ phase' = "left"
             /\ left' = rs[n][1] /\ right' = rs[n][2]
             /\ i' = left' /\ j' = right'
             /\ center_item' = mLines'[Middle(left', right')]
             /\ pending' = SubSeq(rs, n + 1, Len(rs))
      PROVE  SortTypeOK' /\ Ranges' /\ StoppedByBlock' /\ StoppedByNumber' /\ Parted' /\ Written'
  <2>1. /\ left' \in Nat /\ right' \in Nat /\ left' < right'
        /\ 1 <= left' /\ right' <= Count
    BY <1>1, <1>3 DEF Inside
  <2>2. left' \in Lines /\ right' \in Lines /\ Centre' \in left'..right' /\ Centre' \in Lines
    <3>1. left' \in Lines /\ right' \in Lines
      BY <1>1, <2>1 DEF Lines
    <3>2. Middle(left', right') \in left'..right'
      BY <2>1, MiddleInside
    <3>3. Middle(left', right') \in Lines
      <4>1. \A m \in left'..right' : m \in Lines
        BY <1>1, <2>1 DEF Lines
      <4> QED BY <3>2, <4>1
    <3> QED BY <3>1, <3>2, <3>3 DEF Centre
  <2>3. center_item' \in Lines /\ center_item' = mLines'[Centre']
    BY <1>3, <2>2 DEF Centre
  <2>4. /\ pending' \in Seq(Nat \X Nat) /\ Len(pending') = Len(rs) - n
        /\ \A k \in 1..Len(pending') : pending'[k] = rs[n + k]
    BY SMTT(30), <1>1, <1>3
  <2>5. /\ Len(Todo') = Len(pending') + 1
        /\ Todo'[1][1] = left' /\ Todo'[1][2] = right'
        /\ \A k \in 1..Len(pending') : Todo'[k + 1] = pending'[k]
    <3>1. <<<<left', right'>>>> \in Seq(Nat \X Nat) /\ Len(<<<<left', right'>>>>) = 1
      BY <2>1
    <3>2. Len(Todo') = Len(pending') + 1
          /\ \A k \in 1..Len(pending') : Todo'[k + 1] = pending'[k]
      <4>1. pending' \in Seq(Nat \X Nat)
        BY <2>4
      <4> QED BY <3>1, <4>1 DEF Todo
    <3>3. Todo'[1] = <<left', right'>>
      BY <3>1, <2>4 DEF Todo
    <3> QED BY <3>2, <3>3
  <2>6. Len(Todo') \in Nat /\ Len(Todo') = Len(rs) - n + 1
    BY <1>1, <2>4, <2>5
  <2>7. ASSUME NEW k \in 1..Len(Todo'), NEW m
        PROVE  n + k - 1 \in 1..Len(rs) /\ (Spans(m, Todo'[k]) <=> Spans(m, rs[n + k - 1]))
    <3>1. n + k - 1 \in 1..Len(rs)
      BY <2>6
    <3>2. CASE k = 1
      <4>1. n + k - 1 = n
        BY <3>2
      <4> QED BY <3>1, <3>2, <4>1, <1>3, <2>5 DEF Spans
    <3>3. CASE k # 1
      <4>1. k - 1 \in 1..Len(pending') /\ (k - 1) + 1 = k /\ n + (k - 1) = n + k - 1
        BY <3>3, <2>4, <2>5
      <4>2. Todo'[k] = rs[n + k - 1]
        BY <4>1, <2>4, <2>5
      <4> QED BY <3>1, <4>2 DEF Spans
    <3> QED BY <3>2, <3>3
  <2>8. Disjoint(Todo')
    <3> SUFFICES ASSUME NEW k \in 1..Len(Todo'), NEW l \in 1..Len(Todo'), NEW m \in Lines,
                        Spans(m, Todo'[k]), Spans(m, Todo'[l])
                 PROVE  k = l
      BY DEF Disjoint
    <3>1. n + k - 1 = n + l - 1
      BY <2>7 DEF Disjoint
    <3> QED BY <3>1, <2>6
  <2>9. Inside(pending')
    <3> SUFFICES ASSUME NEW k \in 1..Len(pending')
                 PROVE  1 <= pending'[k][1] /\ pending'[k][2] <= Count
      BY DEF Inside
    <3>1. n + k \in 1..Len(rs)
      BY <1>1, <2>4
    <3>2. pending'[k] = rs[n + k]
      BY <2>4
    <3> QED BY <3>1, <3>2 DEF Inside
  <2>10. ASSUME NEW m \in Lines, NEW l \in Lines, m < l, Together(m, l, rs)
         PROVE  Together(m, l, Todo')
    <3>1. PICK k \in 1..Len(rs) : Spans(m, rs[k]) /\ Spans(l, rs[k])
      BY <2>10 DEF Together
    <3>2. k \in n..Len(rs)
      <4>1. rs[k][1] \in Nat /\ rs[k][2] \in Nat /\ m \in Int /\ l \in Int
        BY <1>1 DEF Lines
      <4>2. two(k)
        BY <2>10, <3>1, <4>1 DEF Spans
      <4>3. ~(k < n)
        BY <1>3, <4>2
      <4> QED BY <4>3
    <3>3. k - n + 1 \in 1..Len(Todo') /\ n + (k - n + 1) - 1 = k
      BY <2>6, <3>2
    <3>4. Spans(m, Todo'[k - n + 1]) /\ Spans(l, Todo'[k - n + 1])
      BY <2>7, <3>1, <3>3
    <3> QED BY <3>3, <3>4 DEF Together
  <2>11. (Separated(mLines, Todo))'
    BY <2>10 DEF Separated, Preferred
  <2>12. Ranges'
    <3>1. i' \in left'..right' /\ j' \in left'..right'
      BY SMTT(30), <1>3, <2>1
    <3> QED BY <2>1, <2>2, <2>3, <2>8, <2>9, <2>11, <3>1 DEF Ranges
  <2>13. SortTypeOK'
    <3>1. i' \in 0..(Count + 1) /\ j' \in 0..(Count + 1)
      BY <1>1, <1>3, <2>1
    <3> QED BY <1>3, <2>4, <3>1 DEF SortTypeOK
  <2>14. StopsRight(Centre)' /\ StopsLeft(Centre)'
    BY <2>3 DEF StopsRight, StopsLeft
  <2>15. StoppedByBlock'
    BY <1>3, <2>2, <2>14 DEF StoppedByBlock
  <2>16. StoppedByNumber'
    BY <1>3, <2>1, <2>2, <2>3 DEF StoppedByNumber
  <2>17. Parted'
    BY SMTT(30), <1>3, <2>1 DEF Parted
  <2>18. Written'
    BY <1>3 DEF Written
  <2> QED BY <2>12, <2>13, <2>15, <2>16, <2>17, <2>18
<1> HIDE DEF two
<1> QED BY <1>2, <1>3 DEF Enter, two

-----------------------------------------------------------------------------
\* The invariant holds at first.
LEMMA SortInitInv == ASSUME SortConstants, SortInit PROVE SortedInv
<1>1. Count \in Nat
  BY DEF SortConstants
<1>2. SortTypeOK
  BY <1>1 DEF SortInit, SortTypeOK, Lines
<1>3. SortTyped
  BY <1>2 DEF SortInit, SortTyped
<1> QED BY <1>3 DEF SortInit, SortedInv, Busy, Ranges, StoppedByBlock, StoppedByNumber, Parted, Written

\* sort begins.
LEMMA SortInv ==
    ASSUME SortConstants, SortedInv, cmd_sort
    PROVE  SortedInv'
<1> DEFINE rs == <<<<1, Count>>>>
<1>1. Count \in Nat
  BY DEF SortConstants
<1>2. rs \in Seq(Nat \X Nat) /\ Len(rs) = 1 /\ rs[1][1] = 1 /\ rs[1][2] = Count
  BY <1>1
<1>3. mLines' = mLines /\ mLines \in [Lines -> Lines] /\ Enter(mLines', rs)
  BY DEF cmd_sort, SortedInv, SortTyped, SortTypeOK
<1> HIDE DEF rs
<1>4. Inside(rs) /\ Disjoint(rs)
  BY <1>1, <1>2 DEF Inside, Disjoint
<1>5. \A m, n \in Lines : Together(m, n, rs)
  BY <1>1, <1>2 DEF Together, Spans, Lines
<1>6. SortTypeOK' /\ Ranges' /\ StoppedByBlock' /\ StoppedByNumber' /\ Parted' /\ Written'
  BY <1>2, <1>3, <1>4, <1>5, SortEnterInv
<1>7. SortTyped'
  BY <1>3, <1>6 DEF cmd_sort, SortedInv, SortTyped
<1> QED BY <1>6, <1>7 DEF SortedInv

\* A comparison that fails.
LEMMA FailInv ==
    ASSUME SortConstants, SortedInv, Fail
    PROVE  SortedInv'
BY DEF Fail, scan, SortedInv, SortTyped, SortTypeOK, Busy, Ranges, StoppedByBlock, StoppedByNumber, Parted, Written

\* The scan from the left stops at a line that may be swapped, or what it
\* passes is before the centre line and what stops it is still ahead.
LEMMA ScanLeftInv ==
    ASSUME SortConstants, SortedInv, ScanLeft
    PROVE  SortedInv'
<1>1. PICK answer \in fun(i, Centre, LineAt(i), center_item) :
          IF Stops(LineAt(i), answer)
          THEN phase' = "right" /\ UNCHANGED i
          ELSE i' = i + 1 /\ UNCHANGED phase
  BY DEF ScanLeft, Centre
<1>2. /\ phase = "left" /\ Busy /\ SortTyped /\ Ranges /\ StoppedByBlock /\ StoppedByNumber
      /\ Parted /\ i \in Lines /\ Count \in Nat
      /\ UNCHANGED <<mLines, shuffle_num, before, left, right, center_item, j, pending, nextout>>
  BY DEF ScanLeft, SortedInv, Busy, SortConstants
<1>3. LineAt(i) = mLines[i] /\ mLines[i] \in Lines /\ center_item \in Lines
      /\ left \in Int /\ right \in Int /\ left < right /\ i \in left..right /\ j \in left..right
      /\ Centre \in left..right /\ Centre \in Lines
  <2>1. left \in Int /\ right \in Int /\ left < right /\ i \in left..right /\ j \in left..right
        /\ left >= 1 /\ right <= Count
    BY <1>2 DEF Ranges, Lines
  <2>2. Centre \in left..right
    BY <2>1, MiddleInside DEF Centre
  <2>3. \A m \in left..right : m \in Lines
    BY <1>2, <2>1 DEF Lines
  <2> QED BY <1>2, <2>1, <2>2, <2>3 DEF LineAt, SortTyped, SortTypeOK, Ranges
<1>4. Blocks /\ mLines[i] # center_item => (answer <=> Preferred(center_item, mLines[i]))
  BY <1>3 DEF fun, Blocks, Preferred
<1>5. ~Blocks => answer = (shuffle_num[i] < shuffle_num[Centre])
  BY DEF fun, Blocks
<1>6. answer \in BOOLEAN
  <2>1. CASE Blocks
    <3>1. CASE mLines[i] = center_item
      <4>1. fun(i, Centre, LineAt(i), center_item) = BOOLEAN
        BY <1>3, <2>1, <3>1 DEF fun, Blocks
      <4> QED BY <4>1
    <3>2. CASE mLines[i] # center_item
      <4> DEFINE b == <<mLines[i], center_item>> \in before
      <4>1. fun(i, Centre, LineAt(i), center_item) = {b}
        BY <1>3, <2>1, <3>2 DEF fun, Blocks
      <4>2. b \in BOOLEAN
        OBVIOUS
      <4> HIDE DEF b
      <4> QED BY <4>1, <4>2
    <3> QED BY <3>1, <3>2
  <2>2. CASE ~Blocks
    <3>1. shuffle_num[i] \in Int /\ shuffle_num[Centre] \in Int
      BY <1>2, <1>3, <2>2 DEF SortTyped, Blocks, SortConstants
    <3>2. (shuffle_num[i] < shuffle_num[Centre]) \in BOOLEAN
      BY <3>1
    <3> QED BY <1>5, <2>2, <3>2
  <2> QED BY <2>1, <2>2
<1>7. CASE Stops(LineAt(i), answer)
  <2>1. phase' = "right" /\ i' = i
    BY <1>1, <1>7
  <2>2. Blocks => StopsLeft(i)
    BY <1>3, <1>4, <1>6, <1>7 DEF Stops, StopsLeft
  <2>3. SortTyped'
    BY <1>2, <2>1 DEF SortTyped, SortTypeOK
  <2>4. Ranges'
    BY <1>2, <2>1 DEF Ranges, Busy, Todo, Separated, Blocks, IsOrder, Preferred
  <2>5. StoppedByBlock'
    BY <1>2, <2>1, <2>2 DEF StoppedByBlock, Busy, Blocks, StopsLeft, StopsRight, Preferred
  <2>6. StoppedByNumber'
    BY <1>2, <2>1 DEF StoppedByNumber, Busy, Blocks, Centre
  <2>7. Parted'
    BY <1>2, <2>1 DEF Parted, Busy, Blocks, IsOrder, Preferred
  <2>8. Written'
    BY <2>1 DEF Written
  <2> QED BY <2>3, <2>4, <2>5, <2>6, <2>7, <2>8 DEF SortedInv
<1>8. CASE ~Stops(LineAt(i), answer)
  <2>1. phase' = "left" /\ i' = i + 1 /\ mLines[i] # center_item /\ answer = TRUE
    BY <1>1, <1>2, <1>3, <1>6, <1>8 DEF Stops
  <2>2. Blocks => Preferred(center_item, mLines[i]) /\ ~StopsLeft(i)
    BY <1>4, <2>1 DEF StopsLeft
  <2>3. Blocks => \E s \in (i + 1)..right : StopsLeft(s)
    <3>1. ASSUME Blocks PROVE \E s \in (i + 1)..right : StopsLeft(s)
      <4>1. PICK s \in i..right : StopsLeft(s)
        BY <1>2, <3>1 DEF StoppedByBlock
      <4>2. s # i
        BY <2>2, <3>1, <4>1
      <4>3. s \in (i + 1)..right
        BY <1>3, <4>1, <4>2
      <4> QED BY <4>1, <4>3
    <3> QED BY <3>1
  <2>4. ASSUME ~Blocks
        PROVE  \E q \in left..right :
                  /\ mLines[q] = center_item
                  /\ \/ q = Centre /\ i + 1 <= Centre /\ Centre <= j
                     \/ Centre < i + 1 /\ i + 1 <= q /\ Centre <= j /\ j < q
                     \/ q < i + 1 /\ i + 1 <= Centre /\ q <= j /\ j < Centre
    <3>1. PICK q \in left..right :
              /\ mLines[q] = center_item
              /\ \/ q = Centre /\ i <= Centre /\ Centre <= j
                 \/ Centre < i /\ i <= q /\ Centre <= j /\ j < q
                 \/ q < i /\ i <= Centre /\ q <= j /\ j < Centre
      BY <1>2, <2>4 DEF StoppedByNumber
    <3>2. i # q
      BY <2>1, <3>1
    <3>3. i # Centre
      <4>1. shuffle_num[Centre] \in Int
        BY <1>2, <1>3, <2>4 DEF SortTyped, Blocks, SortConstants
      <4>2. shuffle_num[i] < shuffle_num[Centre]
        BY <1>5, <2>1, <2>4
      <4> QED BY <4>1, <4>2
    <3> QED BY <1>3, <3>1, <3>2, <3>3
  <2>5. i + 1 \in left..right
    BY <1>3, <2>3, <2>4
  <2>6. SortTyped'
    <3>1. i' \in 0..(Count + 1)
      BY <1>2, <2>1, <1>3 DEF Lines
    <3> QED BY <1>2, <2>1, <3>1 DEF SortTyped, SortTypeOK
  <2>7. Ranges'
    BY <1>2, <2>1, <2>5 DEF Ranges, Busy, Todo, Separated, Blocks, IsOrder, Preferred
  <2>8. StoppedByBlock'
    BY <1>2, <2>1, <2>3 DEF StoppedByBlock, Busy, Blocks, StopsLeft, StopsRight, Preferred
  <2>9. StoppedByNumber'
    BY <1>2, <2>1, <2>4 DEF StoppedByNumber, Busy, Blocks, Centre
  <2>10. Parted'
    <3>1. ASSUME Blocks, IsOrder, NEW k \in left..i PROVE ~Preferred(mLines[k], center_item)
      <4>1. CASE k = i
        BY <1>3, <2>2, <3>1, <4>1 DEF IsOrder, Preferred
      <4>2. CASE k # i
        BY <1>2, <1>3, <3>1, <4>2 DEF Parted
      <4> QED BY <4>1, <4>2
    <3>2. (i + 1) - 1 = i
      BY <1>3
    <3>3. Blocks /\ IsOrder => \A k \in (j + 1)..right : ~Preferred(center_item, mLines[k])
      BY <1>2 DEF Parted
    <3> QED BY <1>2, <2>1, <3>1, <3>2, <3>3 DEF Parted, Busy, Blocks, IsOrder, Preferred
  <2>11. Written'
    BY <2>1 DEF Written
  <2> QED BY <2>6, <2>7, <2>8, <2>9, <2>10, <2>11 DEF SortedInv
<1> QED BY <1>7, <1>8

\* Two positions of the range at work may be swapped.
LEMMA SwapKeeps ==
    ASSUME Count \in Nat, SortTyped, Ranges, Busy
    PROVE  /\ Swapped \in [Lines -> Lines]
           /\ Swapped[i] = mLines[j] /\ Swapped[j] = mLines[i]
           /\ \A k \in Lines : k # i /\ k # j => Swapped[k] = mLines[k]
           /\ \A line \in Lines : \E n \in Lines : Swapped[n] = line
           /\ \A m, n \in Lines : Swapped[m] = Swapped[n] => m = n
           /\ Separated(Swapped, Todo)
<1> DEFINE t == Swapped
           Other(k) == IF k = i THEN j ELSE IF k = j THEN i ELSE k
<1>1. /\ left \in Int /\ right \in Int /\ left >= 1 /\ right <= Count
      /\ i \in left..right /\ j \in left..right /\ left \in Nat /\ right \in Nat
  BY DEF Ranges, Lines
<1>2. i \in Lines /\ j \in Lines /\ mLines \in [Lines -> Lines]
  BY <1>1 DEF Lines, SortTyped, SortTypeOK
<1>3. t \in [Lines -> Lines] /\ t[i] = mLines[j] /\ t[j] = mLines[i]
      /\ \A k \in Lines : k # i /\ k # j => t[k] = mLines[k]
  BY <1>2 DEF Swapped
<1> HIDE DEF t
<1>4. \A k \in Lines : Other(k) \in Lines /\ Other(Other(k)) = k /\ t[k] = mLines[Other(k)]
  BY <1>2, <1>3
<1> HIDE DEF Other
<1>5. \A line \in Lines : \E n \in Lines : t[n] = line
  <2> SUFFICES ASSUME NEW line \in Lines PROVE \E n \in Lines : t[n] = line
    OBVIOUS
  <2>1. PICK n \in Lines : mLines[n] = line
    BY DEF SortTyped
  <2> QED BY <1>4, <2>1
<1>6. ASSUME NEW m \in Lines, NEW n \in Lines, t[m] = t[n] PROVE m = n
  <2>1. Other(m) = Other(n)
    BY <1>4, <1>6 DEF SortTyped
  <2> QED BY <1>4, <2>1
<1>7. Separated(t, Todo)
  <2> SUFFICES ASSUME Blocks, IsOrder, NEW m \in Lines, NEW n \in Lines, m < n,
                      ~Together(m, n, Todo)
               PROVE  ~Preferred(t[m], t[n])
    BY DEF Separated
  <2>1. Len(Todo) \in Nat /\ 1 \in 1..Len(Todo)
        /\ \A k \in Lines : Spans(k, Todo[1]) <=> k \in left..right
    <3>1. pending \in Seq(Nat \X Nat)
      BY DEF SortTyped, SortTypeOK
    <3> QED BY <1>1, <3>1, TodoPlaces DEF Spans, Lines
  <2>2. ~(m \in left..right /\ n \in left..right)
    BY <2>1 DEF Together
  <2>3. \A k \in Lines : IF k \in left..right THEN Other(k) \in left..right ELSE Other(k) = k
    BY <1>1 DEF Other
  <2>4. Other(m) < Other(n)
    BY <1>1, <2>2, <2>3 DEF Lines
  <2>5. ~Together(Other(m), Other(n), Todo)
    <3> SUFFICES ASSUME NEW k \in 1..Len(Todo),
                        Spans(Other(m), Todo[k]), Spans(Other(n), Todo[k])
                 PROVE  FALSE
      BY DEF Together
    <3>1. CASE m \in left..right
      <4>1. Other(m) \in left..right /\ Other(n) = n
        BY <2>2, <2>3, <3>1
      <4>2. k = 1
        BY <1>4, <2>1, <4>1 DEF Ranges, Disjoint
      <4> QED BY <2>1, <2>2, <3>1, <4>1, <4>2
    <3>2. CASE n \in left..right
      <4>1. Other(n) \in left..right /\ Other(m) = m
        BY <2>2, <2>3, <3>2
      <4>2. k = 1
        BY <1>4, <2>1, <4>1 DEF Ranges, Disjoint
      <4> QED BY <2>1, <2>2, <3>2, <4>1, <4>2
    <3>3. CASE ~(m \in left..right) /\ ~(n \in left..right)
      <4>1. Other(m) = m /\ Other(n) = n
        BY <2>3, <3>3
      <4> QED BY <4>1 DEF Together
    <3> QED BY <3>1, <3>2, <3>3
  <2>6. ~Preferred(mLines[Other(m)], mLines[Other(n)])
    BY <1>4, <2>4, <2>5 DEF Ranges, Separated
  <2> QED BY <1>4, <2>6
<1> QED BY <1>3, <1>5, <1>6, <1>7 DEF t

\* Two ranges in front of others.
LEMMA TwoInFront ==
    ASSUME NEW S, NEW ps \in Seq(S), Len(ps) = 2, NEW qs \in Seq(S)
    PROVE  /\ ps \o qs \in Seq(S) /\ Len(ps \o qs) = Len(qs) + 2
           /\ (ps \o qs)[1] = ps[1] /\ (ps \o qs)[2] = ps[2]
           /\ \A k \in 1..Len(qs) : (ps \o qs)[k + 2] = qs[k]
<1> DEFINE rs == ps \o qs
<1>1. /\ rs \in Seq(S) /\ Len(rs) = Len(ps) + Len(qs)
      /\ \A k \in 1..Len(ps) + Len(qs) :
            rs[k] = IF k <= Len(ps) THEN ps[k] ELSE qs[k - Len(ps)]
  BY ConcatProperties, Zenon
<1> HIDE DEF rs
<1>2. \A k \in 1..(2 + Len(qs)) : rs[k] = IF k <= 2 THEN ps[k] ELSE qs[k - 2]
  BY <1>1
<1>3. Len(qs) \in Nat
  OBVIOUS
<1>4. rs[1] = ps[1] /\ rs[2] = ps[2]
  BY <1>2, <1>3
<1>5. ASSUME NEW k \in 1..Len(qs) PROVE rs[k + 2] = qs[k]
  <2>1. k + 2 \in 1..(2 + Len(qs)) /\ ~(k + 2 <= 2) /\ (k + 2) - 2 = k
    BY <1>3
  <2> QED BY <1>2, <2>1
<1> QED BY <1>1, <1>4, <1>5 DEF rs

\* Where the scans have passed each other the range falls into two, whose
\* lines are in order with each other and with what lies between.
LEMMA SplitKeeps ==
    ASSUME Count \in Nat, SortTyped, Ranges, Busy, NEW t \in [Lines -> Lines],
           NEW i2 \in left..(right + 1), NEW j2 \in (left - 1)..right, j2 < i2,
           Separated(t, Todo),
           Blocks /\ IsOrder =>
              /\ \A k \in left..(i2 - 1) : ~Preferred(t[k], center_item)
              /\ \A k \in (j2 + 1)..right : ~Preferred(center_item, t[k])
    PROVE  /\ Parts(j2, i2) \o pending \in Seq(Nat \X Nat)
           /\ Inside(Parts(j2, i2) \o pending)
           /\ Disjoint(Parts(j2, i2) \o pending)
           /\ Separated(t, Parts(j2, i2) \o pending)
<1> DEFINE rs == Parts(j2, i2) \o pending
           Old(k) == IF k <= 2 THEN 1 ELSE k - 1
<1>1. /\ left \in Nat /\ right \in Nat /\ left >= 1 /\ right <= Count /\ left < right
      /\ i2 \in Nat /\ j2 \in Nat /\ i2 >= 1 /\ i2 >= left /\ j2 <= right
  <2>1. /\ left \in Nat /\ right \in Nat /\ left >= 1 /\ right <= Count /\ left < right
    <3>1. left \in Lines /\ right \in Lines /\ left < right
      BY DEF Ranges
    <3> QED BY <3>1 DEF Lines
  <2> QED BY <2>1
<1>2. pending \in Seq(Nat \X Nat)
  BY DEF SortTyped, SortTypeOK
<1>3. Parts(j2, i2) \in Seq(Nat \X Nat) /\ Len(Parts(j2, i2)) = 2
      /\ Parts(j2, i2)[1] = <<left, j2>> /\ Parts(j2, i2)[2] = <<i2, right>>
  BY <1>1 DEF Parts
<1>4. /\ rs \in Seq(Nat \X Nat) /\ Len(rs) = Len(pending) + 2
      /\ rs[1] = <<left, j2>> /\ rs[2] = <<i2, right>>
      /\ \A k \in 1..Len(pending) : rs[k + 2] = pending[k]
  <2> DEFINE ps == Parts(j2, i2)
  <2>1. ps \in Seq(Nat \X Nat) /\ Len(ps) = 2
    BY <1>3
  <2>2. /\ ps \o pending \in Seq(Nat \X Nat) /\ Len(ps \o pending) = Len(pending) + 2
        /\ (ps \o pending)[1] = ps[1] /\ (ps \o pending)[2] = ps[2]
        /\ \A k \in 1..Len(pending) : (ps \o pending)[k + 2] = pending[k]
    <3> DEFINE S == Nat \X Nat
    <3>1. ps \in Seq(S) /\ pending \in Seq(S)
      BY <1>2, <2>1
    <3> HIDE DEF ps, S
    <3>2. /\ ps \o pending \in Seq(S) /\ Len(ps \o pending) = Len(pending) + 2
          /\ (ps \o pending)[1] = ps[1] /\ (ps \o pending)[2] = ps[2]
          /\ \A k \in 1..Len(pending) : (ps \o pending)[k + 2] = pending[k]
      BY SMTT(30), <2>1, <3>1, TwoInFront
    <3> QED BY <3>2 DEF S
  <2> QED BY <1>3, <2>2
<1>5. /\ rs[1][1] = left /\ rs[1][2] = j2 /\ rs[2][1] = i2 /\ rs[2][2] = right
  BY <1>4
<1> HIDE DEF rs
<1>6. /\ Len(pending) \in Nat /\ Len(Todo) = Len(pending) + 1
      /\ Todo[1][1] = left /\ Todo[1][2] = right
      /\ \A k \in 1..Len(pending) : Todo[k + 1] = pending[k]
  BY <1>1, <1>2, TodoPlaces
<1>7. Len(pending) \in Nat /\ Len(Todo) = Len(pending) + 1 /\ Len(rs) = Len(pending) + 2
  BY <1>4, <1>6
<1>8. ASSUME NEW k \in 1..Len(rs), NEW m \in Int, Spans(m, rs[k])
      PROVE  Old(k) \in 1..Len(Todo) /\ Spans(m, Todo[Old(k)])
  <2>1. CASE k = 1
    BY <1>1, <1>5, <1>6, <1>8, <2>1 DEF Spans
  <2>2. CASE k = 2
    BY <1>1, <1>5, <1>6, <1>8, <2>2 DEF Spans
  <2>3. CASE k > 2
    <3>1. k - 2 \in 1..Len(pending) /\ (k - 2) + 2 = k /\ (k - 2) + 1 = k - 1
      BY <1>7, <2>3
    <3>2. rs[k] = Todo[k - 1]
      BY <1>4, <1>6, <3>1
    <3> QED BY <1>4, <1>6, <1>7, <1>8, <2>3, <3>2 DEF Spans
  <2> QED BY <1>7, <2>1, <2>2, <2>3
<1>9. Inside(rs)
  <2> SUFFICES ASSUME NEW k \in 1..Len(rs) PROVE 1 <= rs[k][1] /\ rs[k][2] <= Count
    BY DEF Inside
  <2>1. CASE k = 1
    BY <1>1, <1>5, <2>1
  <2>2. CASE k = 2
    BY <1>1, <1>5, <2>2
  <2>3. CASE k > 2
    <3>1. k - 2 \in 1..Len(pending) /\ (k - 2) + 2 = k
      BY <1>7, <2>3
    <3>2. rs[k] = pending[k - 2]
      BY <1>4, <3>1
    <3> QED BY <3>1, <3>2 DEF Ranges, Inside
  <2> QED BY <1>7, <2>1, <2>2, <2>3
<1>10. Disjoint(rs)
  <2> SUFFICES ASSUME NEW k \in 1..Len(rs), NEW l \in 1..Len(rs), NEW m \in Lines,
                      Spans(m, rs[k]), Spans(m, rs[l])
               PROVE  k = l
    BY DEF Disjoint
  <2>1. m \in Int
    BY DEF Lines
  <2>2. Old(k) = Old(l)
    BY <1>8, <2>1 DEF Ranges, Disjoint
  <2>3. ~(k = 1 /\ l = 2) /\ ~(k = 2 /\ l = 1)
    BY <1>1, <1>5, <2>1 DEF Spans
  <2> QED BY <1>7, <2>2, <2>3
<1>11. Separated(t, rs)
  <2> SUFFICES ASSUME Blocks, IsOrder, NEW m \in Lines, NEW n \in Lines, m < n,
                      ~Together(m, n, rs)
               PROVE  ~Preferred(t[m], t[n])
    BY DEF Separated
  <2>1. CASE ~Together(m, n, Todo)
    BY <2>1 DEF Separated
  <2>2. CASE Together(m, n, Todo)
    <3>1. PICK k \in 1..Len(Todo) : Spans(m, Todo[k]) /\ Spans(n, Todo[k])
      BY <2>2 DEF Together
    <3>2. k = 1
      <4> SUFFICES ASSUME k # 1 PROVE FALSE
        OBVIOUS
      <4>1. k - 1 \in 1..Len(pending) /\ (k - 1) + 1 = k /\ (k - 1) + 2 = k + 1
        BY <1>6
      <4>2. Todo[k] = pending[k - 1] /\ rs[k + 1] = pending[k - 1]
        BY <1>4, <1>6, <4>1
      <4>3. k + 1 \in 1..Len(rs)
        BY <1>7
      <4> QED BY <3>1, <4>2, <4>3 DEF Together
    <3>3. m \in left..right /\ n \in left..right
      <4>1. Spans(m, Todo[1]) /\ Spans(n, Todo[1]) /\ m \in Int /\ n \in Int
        BY <3>1, <3>2 DEF Lines
      <4> QED BY <1>1, <1>6, <4>1 DEF Spans
    <3>4. ~(Spans(m, rs[1]) /\ Spans(n, rs[1])) /\ ~(Spans(m, rs[2]) /\ Spans(n, rs[2]))
      <4>1. 1 \in 1..Len(rs) /\ 2 \in 1..Len(rs)
        BY <1>7
      <4> QED BY <4>1 DEF Together
    <3>5. m \in left..(i2 - 1) /\ n \in (j2 + 1)..right
      BY <1>1, <1>5, <3>3, <3>4 DEF Spans
    <3>6. ~Preferred(t[m], center_item) /\ ~Preferred(center_item, t[n])
      BY <3>5
    <3>7. t[m] \in Lines /\ t[n] \in Lines /\ center_item \in Lines
      BY DEF Ranges
    <3> QED BY <3>6, <3>7 DEF IsOrder, Preferred
  <2> QED BY <2>1, <2>2
<1> QED BY <1>4, <1>9, <1>10, <1>11 DEF rs

\* Where the scan from the right stops the lines may be swapped; the loop
\* goes on with a line on each side that will stop the next scans.
LEMMA LoopGoesOn ==
    ASSUME SortConstants, SortTyped, Ranges, Busy, StoppedByNumber, i + 1 <= j - 1,
           Blocks => StopsLeft(i) /\ StopsRight(j),
           Blocks /\ IsOrder =>
              /\ \A k \in left..i : ~Preferred(Swapped[k], center_item)
              /\ \A k \in j..right : ~Preferred(center_item, Swapped[k]),
           mLines' = Swapped, phase' = "left", i' = i + 1, j' = j - 1,
           UNCHANGED <<shuffle_num, before, left, right, center_item, pending, nextout>>
    PROVE  SortedInv'
<1>1. /\ Count \in Nat
      /\ left \in Int /\ right \in Int /\ left >= 1 /\ right <= Count /\ left < right
      /\ i \in left..right /\ j \in left..right /\ i \in Lines /\ j \in Lines
  BY DEF SortConstants, Ranges, Lines
<1> DEFINE t == Swapped
<1>2. /\ t \in [Lines -> Lines]
      /\ t[i] = mLines[j] /\ t[j] = mLines[i]
      /\ \A k \in Lines : k # i /\ k # j => t[k] = mLines[k]
      /\ \A line \in Lines : \E n \in Lines : t[n] = line
      /\ \A m, n \in Lines : t[m] = t[n] => m = n
      /\ Separated(t, Todo)
  BY <1>1, SwapKeeps
<1>3. mLines' = t
  OBVIOUS
<1> HIDE DEF t
<1>4. i' \in left..right /\ j' \in left..right /\ i' \in 0..(Count + 1) /\ j' \in 0..(Count + 1)
  BY <1>1
<1>5. SortTyped'
  BY <1>2, <1>3, <1>4 DEF SortTyped, SortTypeOK
<1>6. Ranges'
  <2>1. Separated(mLines, Todo)'
    BY <1>2, <1>3 DEF Separated, Todo, Blocks, IsOrder, Preferred
  <2> QED BY <1>4, <2>1 DEF Ranges, Busy, Todo
<1>7. StoppedByBlock'
  <2>1. ASSUME Blocks
        PROVE  /\ t[i] = center_item \/ ~Preferred(t[i], center_item)
               /\ t[j] = center_item \/ ~Preferred(center_item, t[j])
    BY <1>2, <2>1 DEF StopsLeft, StopsRight
  <2>2. i \in left..j' /\ j \in i'..right
    BY <1>1
  <2> QED BY <1>3, <2>1, <2>2 DEF StoppedByBlock, Busy, Blocks, StopsLeft, StopsRight, Preferred
<1>8. ASSUME ~Blocks
      PROVE  \E q \in left..right :
                /\ t[q] = center_item
                /\ \/ q = Centre /\ i + 1 <= Centre /\ Centre <= j - 1
                   \/ Centre < i + 1 /\ i + 1 <= q /\ Centre <= j - 1 /\ j - 1 < q
                   \/ q < i + 1 /\ i + 1 <= Centre /\ q <= j - 1 /\ j - 1 < Centre
  <2>1. PICK q \in left..right :
            /\ mLines[q] = center_item
            /\ \/ q = Centre /\ i <= Centre /\ Centre <= j
               \/ Centre < i /\ i <= q /\ Centre <= j /\ j < q
               \/ q < i /\ i <= Centre /\ q <= j /\ j < Centre
    BY <1>8 DEF StoppedByNumber
  <2>2. q \in Lines /\ Centre \in Int
    <3>1. left \in Int /\ right \in Int /\ left <= right
      BY <1>1
    <3>2. Centre \in left..right
      BY <3>1, MiddleInside DEF Centre
    <3> QED BY <1>1, <3>2 DEF Lines
  <2>3. CASE q = Centre /\ q = i
    <3>1. t[j] = center_item
      BY <1>2, <2>1, <2>3
    <3> QED BY <1>1, <2>2, <2>3, <3>1
  <2>4. CASE q = Centre /\ q = j
    <3>1. t[i] = center_item
      BY <1>2, <2>1, <2>4
    <3> QED BY <1>1, <2>2, <2>4, <3>1
  <2>5. CASE q # i /\ q # j
    <3>1. t[q] = center_item
      BY <1>2, <2>1, <2>2, <2>5
    <3> QED BY <1>1, <2>1, <2>2, <2>5, <3>1
  <2> QED BY <1>1, <2>1, <2>2, <2>3, <2>4, <2>5
<1>9. StoppedByNumber'
  BY <1>3, <1>8 DEF StoppedByNumber, Busy, Blocks, Centre
<1>10. Parted'
  <2>1. i' - 1 = i /\ j' + 1 = j
    BY <1>1
  <2>2. Blocks /\ IsOrder =>
           /\ \A k \in left..i : ~Preferred(t[k], center_item)
           /\ \A k \in j..right : ~Preferred(center_item, t[k])
    BY DEF t
  <2> QED BY <1>3, <2>1, <2>2 DEF Parted, Busy, Blocks, IsOrder, Preferred
<1>11. Written'
  BY DEF Written
<1> QED BY <1>5, <1>6, <1>7, <1>9, <1>10, <1>11 DEF SortedInv

\* The loop ends, and the two parts are sorted next.
LEMMA LoopEnds ==
    ASSUME SortConstants, SortTyped, Ranges, Busy,
           NEW t, t \in [Lines -> Lines],
           \A line \in Lines : \E n \in Lines : t[n] = line,
           \A m, n \in Lines : t[m] = t[n] => m = n,
           Separated(t, Todo),
           NEW i2 \in left..(right + 1), NEW j2 \in (left - 1)..right, j2 < i2,
           Blocks /\ IsOrder =>
              /\ \A k \in left..(i2 - 1) : ~Preferred(t[k], center_item)
              /\ \A k \in (j2 + 1)..right : ~Preferred(center_item, t[k]),
           mLines' = t, UNCHANGED <<shuffle_num, before>>,
           Enter(mLines', Parts(j2, i2) \o pending)
    PROVE  SortedInv'
<1> DEFINE rs == Parts(j2, i2) \o pending
<1>1. rs \in Seq(Nat \X Nat) /\ Inside(rs) /\ Disjoint(rs) /\ Separated(t, rs)
  BY SplitKeeps DEF SortConstants
<1> HIDE DEF rs
<1>2. Blocks' /\ IsOrder' => \A m, n \in Lines :
          m < n /\ ~Together(m, n, rs) => <<mLines'[n], mLines'[m]>> \notin before'
  BY <1>1 DEF Separated, Blocks, IsOrder, Preferred
<1>3. Enter(mLines', rs)
  BY DEF rs
<1>4. mLines' \in [Lines -> Lines]
  OBVIOUS
<1>5. SortTypeOK' /\ Ranges' /\ StoppedByBlock' /\ StoppedByNumber' /\ Parted' /\ Written'
  BY <1>1, <1>2, <1>3, <1>4, SortEnterInv
<1>6. SortTyped'
  BY <1>5 DEF SortTyped
<1> QED BY <1>5, <1>6 DEF SortedInv

\* The scan from the right.
LEMMA ScanRightInv ==
    ASSUME SortConstants, SortedInv, ScanRight
    PROVE  SortedInv'
<1> DEFINE swap == i <= j
           i2   == IF swap THEN i + 1 ELSE i
           j2   == IF swap THEN j - 1 ELSE j
           t    == IF swap THEN Swapped ELSE mLines
<1>1. PICK answer \in fun(Centre, j, center_item, LineAt(j)) :
          IF ~Stops(LineAt(j), answer)
          THEN /\ j' = j - 1
               /\ UNCHANGED <<phase, mLines, left, right, center_item, i, pending, nextout>>
          ELSE /\ mLines' = t
               /\ IF i2 <= j2
                  THEN /\ phase' = "left" /\ i' = i2 /\ j' = j2
                       /\ UNCHANGED <<left, right, center_item, pending, nextout>>
                  ELSE Enter(mLines', Parts(j2, i2) \o pending)
  BY DEF ScanRight, Centre
<1>2. /\ phase = "right" /\ Busy /\ SortTyped /\ Ranges /\ StoppedByBlock /\ StoppedByNumber
      /\ Parted /\ j \in Lines /\ Count \in Nat
      /\ UNCHANGED <<shuffle_num, before>>
  BY DEF ScanRight, SortedInv, Busy, SortConstants
<1>3. LineAt(j) = mLines[j] /\ mLines[j] \in Lines /\ center_item \in Lines
      /\ left \in Int /\ right \in Int /\ left < right /\ i \in left..right /\ j \in left..right
      /\ Centre \in left..right /\ Centre \in Lines /\ i \in Lines
  <2>1. left \in Int /\ right \in Int /\ left < right /\ i \in left..right /\ j \in left..right
        /\ left >= 1 /\ right <= Count
    BY <1>2 DEF Ranges, Lines
  <2>2. Centre \in left..right
    BY <2>1, MiddleInside DEF Centre
  <2>3. \A m \in left..right : m \in Lines
    BY <1>2, <2>1 DEF Lines
  <2> QED BY <1>2, <2>1, <2>2, <2>3 DEF LineAt, SortTyped, SortTypeOK, Ranges
<1>4. Blocks /\ mLines[j] # center_item => (answer <=> Preferred(mLines[j], center_item))
  BY <1>3 DEF fun, Blocks, Preferred
<1>5. ~Blocks => answer = (shuffle_num[Centre] < shuffle_num[j])
  BY DEF fun, Blocks
<1>6. answer \in BOOLEAN
  <2>1. CASE Blocks
    <3>1. CASE mLines[j] = center_item
      <4>1. fun(Centre, j, center_item, LineAt(j)) = BOOLEAN
        BY <1>3, <2>1, <3>1 DEF fun, Blocks
      <4> QED BY <4>1
    <3>2. CASE mLines[j] # center_item
      <4> DEFINE b == <<center_item, mLines[j]>> \in before
      <4>1. fun(Centre, j, center_item, LineAt(j)) = {b}
        BY <1>3, <2>1, <3>2 DEF fun, Blocks
      <4>2. b \in BOOLEAN
        OBVIOUS
      <4> HIDE DEF b
      <4> QED BY <4>1, <4>2
    <3> QED BY <3>1, <3>2
  <2>2. CASE ~Blocks
    <3>1. shuffle_num[j] \in Int /\ shuffle_num[Centre] \in Int
      BY <1>2, <1>3, <2>2 DEF SortTyped, Blocks, SortConstants
    <3>2. (shuffle_num[Centre] < shuffle_num[j]) \in BOOLEAN
      BY <3>1
    <3> QED BY <1>5, <2>2, <3>2
  <2> QED BY <2>1, <2>2
<1>7. CASE ~Stops(LineAt(j), answer)
  <2>1. /\ phase' = "right" /\ j' = j - 1 /\ mLines[j] # center_item /\ answer = TRUE
        /\ UNCHANGED <<mLines, left, right, center_item, i, pending, nextout>>
    BY <1>1, <1>2, <1>3, <1>6, <1>7 DEF Stops
  <2>2. Blocks => Preferred(mLines[j], center_item) /\ ~StopsRight(j)
    BY <1>4, <2>1 DEF StopsRight
  <2>3. Blocks => \E s \in left..(j - 1) : StopsRight(s)
    <3>1. ASSUME Blocks PROVE \E s \in left..(j - 1) : StopsRight(s)
      <4>1. PICK s \in left..j : StopsRight(s)
        BY <1>2, <3>1 DEF StoppedByBlock
      <4>2. s # j
        BY <2>2, <3>1, <4>1
      <4>3. s \in left..(j - 1)
        BY <1>3, <4>1, <4>2
      <4> QED BY <4>1, <4>3
    <3> QED BY <3>1
  <2>4. ASSUME ~Blocks
        PROVE  \E q \in left..right :
                  /\ mLines[q] = center_item
                  /\ \/ q = Centre /\ i <= Centre /\ Centre <= j - 1
                     \/ Centre < i /\ i <= q /\ Centre <= j - 1 /\ j - 1 < q
                     \/ q < i /\ i <= Centre /\ q <= j - 1 /\ j - 1 < Centre
    <3>1. PICK q \in left..right :
              /\ mLines[q] = center_item
              /\ \/ q = Centre /\ i <= Centre /\ Centre <= j
                 \/ Centre < i /\ i <= q /\ Centre <= j /\ j < q
                 \/ q < i /\ i <= Centre /\ q <= j /\ j < Centre
      BY <1>2, <2>4 DEF StoppedByNumber
    <3>2. j # q
      BY <2>1, <3>1
    <3>3. j # Centre
      <4>1. shuffle_num[Centre] \in Int
        BY <1>2, <1>3, <2>4 DEF SortTyped, Blocks, SortConstants
      <4>2. shuffle_num[Centre] < shuffle_num[j]
        BY <1>5, <2>1, <2>4
      <4> QED BY <4>1, <4>2
    <3> QED BY <1>3, <3>1, <3>2, <3>3
  <2>5. j - 1 \in left..right
    BY <1>3, <2>3, <2>4
  <2>6. SortTyped'
    <3>1. j' \in 0..(Count + 1)
      BY <1>2, <2>1, <1>3 DEF Lines
    <3> QED BY <1>2, <2>1, <3>1 DEF SortTyped, SortTypeOK
  <2>7. Ranges'
    BY <1>2, <2>1, <2>5 DEF Ranges, Busy, Todo, Separated, Blocks, IsOrder, Preferred
  <2>8. StoppedByBlock'
    BY <1>2, <2>1, <2>3 DEF StoppedByBlock, Busy, Blocks, StopsLeft, StopsRight, Preferred
  <2>9. StoppedByNumber'
    BY <1>2, <2>1, <2>4 DEF StoppedByNumber, Busy, Blocks, Centre
  <2>10. Parted'
    <3>1. ASSUME Blocks, IsOrder, NEW k \in j..right PROVE ~Preferred(center_item, mLines[k])
      <4>1. CASE k = j
        BY <1>3, <2>2, <3>1, <4>1 DEF IsOrder, Preferred
      <4>2. CASE k # j
        BY <1>2, <1>3, <3>1, <4>2 DEF Parted
      <4> QED BY <4>1, <4>2
    <3>2. (j - 1) + 1 = j
      BY <1>3
    <3>3. Blocks /\ IsOrder => \A k \in left..(i - 1) : ~Preferred(mLines[k], center_item)
      BY <1>2 DEF Parted
    <3> QED BY <1>2, <2>1, <3>1, <3>2, <3>3 DEF Parted, Busy, Blocks, IsOrder, Preferred
  <2>11. Written'
    BY <1>2, <2>1 DEF Written
  <2> QED BY <2>6, <2>7, <2>8, <2>9, <2>10, <2>11 DEF SortedInv
<1>8. CASE Stops(LineAt(j), answer)
  <2>1. /\ mLines' = t
        /\ IF i2 <= j2
           THEN /\ phase' = "left" /\ i' = i2 /\ j' = j2
                /\ UNCHANGED <<left, right, center_item, pending, nextout>>
           ELSE Enter(mLines', Parts(j2, i2) \o pending)
    BY <1>1, <1>8
  <2>2. Blocks => StopsLeft(i) /\ StopsRight(j)
    BY <1>2, <1>3, <1>4, <1>6, <1>8 DEF Stops, StopsRight, StoppedByBlock
  <2>3. ASSUME Blocks, IsOrder, swap
        PROVE  /\ \A k \in left..i : ~Preferred(Swapped[k], center_item)
               /\ \A k \in j..right : ~Preferred(center_item, Swapped[k])
    <3>1. /\ Swapped[i] = mLines[j] /\ Swapped[j] = mLines[i]
          /\ \A k \in Lines : k # i /\ k # j => Swapped[k] = mLines[k]
      BY <1>2, SwapKeeps
    <3>2. ~Preferred(center_item, center_item) /\ mLines[i] \in Lines /\ mLines[j] \in Lines
      BY <1>2, <1>3, <2>3 DEF IsOrder, Preferred, SortTyped, SortTypeOK
    <3>3. ~Preferred(Swapped[i], center_item)
      BY <2>2, <2>3, <3>1, <3>2 DEF StopsRight
    <3>4. ~Preferred(center_item, Swapped[j])
      BY <2>2, <2>3, <3>1, <3>2 DEF StopsLeft
    <3>5. \A k \in left..right : k \in Lines
      BY <1>2, <1>3 DEF Ranges, Lines
    <3>6. ASSUME NEW k \in left..i PROVE ~Preferred(Swapped[k], center_item)
      <4>1. CASE k = i
        BY <3>3, <4>1
      <4>2. CASE k # i
        <5>1. k \in left..(i - 1) /\ k \in Lines /\ k # j
          BY <1>3, <2>3, <3>5, <4>2
        <5> QED BY <1>2, <2>3, <3>1, <5>1, <4>2 DEF Parted
      <4> QED BY <4>1, <4>2
    <3>7. ASSUME NEW k \in j..right PROVE ~Preferred(center_item, Swapped[k])
      <4>1. CASE k = j
        BY <3>4, <4>1
      <4>2. CASE k # j
        <5>1. k \in (j + 1)..right /\ k \in Lines /\ k # i
          BY <1>3, <2>3, <3>5, <4>2
        <5> QED BY <1>2, <2>3, <3>1, <5>1, <4>2 DEF Parted
      <4> QED BY <4>1, <4>2
    <3> QED BY <3>6, <3>7
  <2>4. CASE i2 <= j2
    <3>1. swap /\ i + 1 <= j - 1
      BY <1>2, <1>3, <2>4 DEF StoppedByBlock
    <3>2. /\ mLines' = Swapped /\ phase' = "left" /\ i' = i + 1 /\ j' = j - 1
          /\ UNCHANGED <<left, right, center_item, pending, nextout>>
      BY <2>1, <2>4, <3>1
    <3>3. Blocks /\ IsOrder =>
              /\ \A k \in left..i : ~Preferred(Swapped[k], center_item)
              /\ \A k \in j..right : ~Preferred(center_item, Swapped[k])
      BY <2>3, <3>1
    <3> HIDE DEF swap, i2, j2, t
    <3> QED BY <1>2, <2>2, <3>1, <3>2, <3>3, LoopGoesOn
  <2>5. CASE ~(i2 <= j2)
    <3>1. i2 \in left..(right + 1) /\ j2 \in (left - 1)..right /\ j2 < i2
      BY <1>3, <2>5
    <3>2. Enter(mLines', Parts(j2, i2) \o pending) /\ mLines' = t
      BY <2>1, <2>5
    <3>3. /\ t \in [Lines -> Lines]
          /\ \A line \in Lines : \E n \in Lines : t[n] = line
          /\ \A m, n \in Lines : t[m] = t[n] => m = n
          /\ Separated(t, Todo)
      <4>1. CASE swap
        <5>1. t = Swapped
          BY <4>1
        <5> HIDE DEF t
        <5> QED BY <1>2, <5>1, SwapKeeps
      <4>2. CASE ~swap
        <5>1. t = mLines
          BY <4>2
        <5> HIDE DEF t
        <5> QED BY <1>2, <5>1 DEF SortTyped, SortTypeOK, Ranges
      <4> QED BY <4>1, <4>2
    <3>4. Blocks /\ IsOrder =>
              /\ \A k \in left..(i2 - 1) : ~Preferred(t[k], center_item)
              /\ \A k \in (j2 + 1)..right : ~Preferred(center_item, t[k])
      <4>1. CASE swap
        <5>1. t = Swapped /\ i2 - 1 = i /\ j2 + 1 = j
          BY <1>3, <4>1
        <5> HIDE DEF t, i2, j2
        <5> QED BY <2>3, <4>1, <5>1
      <4>2. CASE ~swap
        <5>1. t = mLines /\ i2 = i /\ j2 = j
          BY <4>2
        <5> HIDE DEF t, i2, j2, swap
        <5> QED BY <1>2, <5>1 DEF Parted
      <4> QED BY <4>1, <4>2
    <3> HIDE DEF swap, i2, j2, t
    <3> QED BY <1>2, <3>1, <3>2, <3>3, <3>4, LoopEnds
  <2> QED BY <2>4, <2>5
<1> QED BY <1>7, <1>8

-----------------------------------------------------------------------------
\* So every step keeps the invariant.
LEMMA SortStepInv ==
    ASSUME SortConstants, SortedInv, [SortNext]_sorting
    PROVE  SortedInv'
<1>1. CASE cmd_sort
  BY <1>1, SortInv
<1>2. CASE Fail
  BY <1>2, FailInv
<1>3. CASE ScanLeft
  BY <1>3, ScanLeftInv
<1>4. CASE ScanRight
  BY <1>4, ScanRightInv
<1>5. CASE UNCHANGED sorting
  <2>1. UNCHANGED <<phase, mLines, shuffle_num, before, left, right, center_item, i, j, pending, nextout>>
    BY <1>5 DEF sorting, scan
  <2>2. SortTyped'
    BY <2>1 DEF SortedInv, SortTyped, SortTypeOK
  <2>3. Ranges'
    BY <2>1 DEF SortedInv, Ranges, Busy, Todo, Separated, Blocks, IsOrder, Preferred
  <2>4. StoppedByBlock'
    BY <2>1 DEF SortedInv, StoppedByBlock, Busy, Blocks, StopsLeft, StopsRight, Preferred
  <2>5. StoppedByNumber'
    BY <2>1 DEF SortedInv, StoppedByNumber, Busy, Blocks, Centre
  <2>6. Parted'
    BY <2>1 DEF SortedInv, Parted, Busy, Blocks, IsOrder, Preferred
  <2>7. Written'
    BY <2>1 DEF SortedInv, Written, Separated, Blocks, IsOrder, Preferred
  <2> QED BY <2>2, <2>3, <2>4, <2>5, <2>6, <2>7 DEF SortedInv
<1> QED BY <1>1, <1>2, <1>3, <1>4, <1>5 DEF SortNext

\* The invariant of the sort: what stops a scan is always ahead of it, what
\* the scans have passed is on its side, and only lines of the same pending
\* range may still be in the wrong order (quick_sort in cmd_ary.c).
THEOREM SortInvariance == ASSUME SortConstants PROVE SortSpec => []SortedInv
<1>1. SortInit => SortedInv
  BY SortInitInv
<1>2. SortedInv /\ [SortNext]_sorting => SortedInv'
  BY SortStepInv
<1> QED BY <1>1, <1>2, PTL DEF SortSpec

\* If the answers are an order, what is written is every line, in that
\* order.
LEMMA WrittenInOrder == ASSUME SortConstants, SortedInv PROVE SortedIfOrder
<1> SUFFICES ASSUME phase = "sorted", shuffle_num = Nothing, IsOrder
             PROVE  /\ Len(nextout) = Count
                    /\ \A line \in Lines : \E n \in 1..Len(nextout) : nextout[n] = line
                    /\ \A m, n \in 1..Len(nextout) : m < n => <<nextout[n], nextout[m]>> \notin before
  BY DEF SortedIfOrder
<1>1. nextout = mLines /\ Separated(mLines, <<>>) /\ SortTyped
  BY DEF SortedInv, Written
<1>2. Count \in Nat /\ Lines = 1..Count /\ DOMAIN mLines = Lines
  BY <1>1 DEF SortConstants, Lines, SortTyped, SortTypeOK
<1>3. nextout \in Seq(Lines) /\ Len(nextout) = Count
  BY <1>1, <1>2 DEF SortTyped, SortTypeOK
<1>4. \A m, n \in Lines : ~Together(m, n, <<>>)
  BY DEF Together
<1>5. \A m, n \in Lines : m < n => ~Preferred(mLines[m], mLines[n])
  BY <1>1, <1>4 DEF Separated, Blocks
<1>6. 1..Len(nextout) = Lines
  BY <1>2, <1>3
<1>7. \A line \in Lines : \E n \in Lines : nextout[n] = line
  BY <1>1 DEF SortTyped
<1>8. \A m, n \in Lines : m < n => <<nextout[n], nextout[m]>> \notin before
  BY <1>1, <1>5 DEF Preferred
<1> QED BY <1>3, <1>6, <1>7, <1>8

\* Whatever the block answers, and with any numbers, the scans stay inside
\* the range they sort, the lines stay the same lines, and answers that are
\* an order give the lines in that order.
THEOREM SortAlwaysHolds == ASSUME SortConstants PROVE SortSpec => []SortingHolds
<1>1. SortedInv => SortingHolds
  BY WrittenInOrder DEF SortedInv, SortTyped, Ranges, Busy, ScansStayInside, SortingHolds
<1> QED BY <1>1, SortInvariance, PTL
=============================================================================
