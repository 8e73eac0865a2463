--------------------------- MODULE CommandsProofs ---------------------------
(***************************************************************************)
(* The commands that reckon and ask, and those that change directories.    *)
(*                                                                         *)
(* The first are proved for ints of any width and any texts, words and     *)
(* files: numbers fit together although they wrap, what is asked in two    *)
(* ways is answered alike, and what =~ sets is its match.  Every conjunct  *)
(* of TestsAgree is about one command and what it has left behind, so that *)
(* no more is needed of the states before.  What there is to prove is what *)
(* the commands compute: that printf("%d") and atoi undo each other        *)
(* (DecimalReads), that division towards zero leaves the remainder it      *)
(* should, and that wrapping sums are undone.                              *)
(*                                                                         *)
(* The others are proved for any tree of directories, any links, any paths *)
(* and texts and any number of commands: cd gets where the path it is      *)
(* given leads, popd comes back to the directory pushd was given, and      *)
(* write loses nothing.  The kernel walks a path with its ".." in it, and  *)
(* the shell deletes them from the text.  That both get to the same        *)
(* directory is the lemma PlainIsMeant: up to the last name that leads up, *)
(* what is left of the text is the directory the walk has come to, and     *)
(* behind it nothing is deleted any more.                                  *)
(*                                                                         *)
(* The lemmas Fold and FoldSteps are all the induction that the recursive  *)
(* functions need.                                                         *)
(***************************************************************************)
EXTENDS Paths, Conditions, TLAPS, WellFoundedInduction, SequenceTheorems

-----------------------------------------------------------------------------
(* Numbers and conditions.                                                 *)

\* A set of natural numbers that is not empty has a least element.
LEMMA LeastIn ==
    ASSUME NEW T \in SUBSET Nat, T # {}
    PROVE  \E n \in T : \A k \in T : n <= k
<1> DEFINE Below == {ss \in Nat \X Nat : ss[1] < ss[2]}
<1>1. IsWellFoundedOn(Below, Nat)
  BY NatLessThanWellFounded DEF OpToRel
<1> HIDE DEF Below
<1>2. PICK n \in T : \A k \in T : ~(<<k, n>> \in Below)
  BY <1>1, WFMin
<1>3. ASSUME NEW k \in T PROVE n <= k
  <2>1. ~(<<k, n>> \in Below)
    BY <1>2
  <2>2. ~(k < n)
    BY <2>1 DEF Below
  <2> QED BY <2>2
<1> QED BY <1>3

\* Induction up to a number, for a set in the place of a predicate.
LEMMA Upto ==
    ASSUME NEW S, NEW N \in Nat,
           0 \in S, \A n \in 0..(N - 1) : n \in S => n + 1 \in S
    PROVE  0..N \subseteq S
<1> DEFINE T == (0..N) \ S
<1>1. SUFFICES ASSUME T # {} PROVE FALSE
  OBVIOUS
<1>2. T \in SUBSET Nat
  OBVIOUS
<1> HIDE DEF T
<1>3. PICK n \in T : \A k \in T : n <= k
  BY <1>1, <1>2, LeastIn
<1>4. n \in 1..N /\ n - 1 \notin T
  BY <1>3, <1>2 DEF T
<1>5. n - 1 \in 0..(N - 1) /\ n - 1 \in S
  BY <1>4 DEF T
<1>6. (n - 1) + 1 \in S
  BY <1>5
<1> QED BY <1>4, <1>6 DEF T

\* A function on 0..N may be defined from its value at 0 and how each other
\* value comes from the one at an earlier place.
Makes(N, S)    == [1..N -> [S -> S]]
Earlier(N)     == {before \in [1..N -> 0..N] : \A n \in 1..N : before[n] < n}
Follows(f, m, S, first, before, Make) ==
    /\ f \in [0..m -> S] /\ f[0] = first
    /\ \A n \in 1..m : f[n] = Make[n][f[before[n]]]

\* Such a function exists: the induction behind every recursive function here.
LEMMA Fold ==
    ASSUME NEW N \in Nat, NEW S, NEW first \in S,
           NEW before \in Earlier(N), NEW Make \in Makes(N, S)
    PROVE  \E f : Follows(f, N, S, first, before, Make)
<1> USE DEF Makes, Earlier, Follows
<1> DEFINE Good(f, m) == f[0] = first /\ \A n \in 1..m : f[n] = Make[n][f[before[n]]]
           T == {m \in 0..N : \E f \in [0..m -> S] : Good(f, m)}
<1>1. 0 \in T
  <2> DEFINE f == [n \in 0..0 |-> first]
  <2>1. f \in [0..0 -> S] /\ Good(f, 0)
    OBVIOUS
  <2> HIDE DEF f, Good
  <2> QED BY <2>1
<1>2. ASSUME NEW m \in 0..(N - 1), m \in T PROVE m + 1 \in T
  <2>1. PICK f \in [0..m -> S] : Good(f, m)
    BY <1>2
  <2>2. m + 1 \in 1..N /\ before[m + 1] \in 0..m
    OBVIOUS
  <2> DEFINE v == Make[m + 1][f[before[m + 1]]]
             g == [n \in 0..(m + 1) |-> IF n = m + 1 THEN v ELSE f[n]]
  <2>3. v \in S
    <3>1. f[before[m + 1]] \in S
      BY <2>2
    <3> QED BY <2>2, <3>1
  <2> HIDE DEF v
  <2>4. g \in [0..(m + 1) -> S]
    BY <2>3
  <2>5. g[0] = first
    <3>1. 0 \in 0..(m + 1) /\ 0 # m + 1
      OBVIOUS
    <3>2. g[0] = f[0]
      BY <3>1
    <3> QED BY <3>2, <2>1
  <2>6. ASSUME NEW n \in 1..(m + 1) PROVE g[n] = Make[n][g[before[n]]]
    <3>1. n \in 1..N /\ before[n] \in 0..m /\ before[n] # m + 1 /\ g[before[n]] = f[before[n]]
      OBVIOUS
    <3>2. CASE n = m + 1
      BY <3>1, <3>2 DEF v
    <3>3. CASE n # m + 1
      <4>1. n \in 1..m /\ g[n] = f[n]
        BY <3>3
      <4> QED BY <3>1, <4>1, <2>1
    <3> QED BY <3>2, <3>3
  <2>7. Good(g, m + 1)
    BY <2>5, <2>6
  <2>8. m + 1 \in 0..N
    OBVIOUS
  <2> HIDE DEF g, Good
  <2> QED BY <2>4, <2>7, <2>8
<1> HIDE DEF T
<1>3. 0..N \subseteq T
  BY <1>1, <1>2, Upto
<1>4. N \in T
  BY <1>3
<1> QED BY <1>4 DEF T

-----------------------------------------------------------------------------
(* Ints.                                                                   *)

Ints == IntMin..IntMax

\* A wrapped number is an int, and away from the number by whole turns.
LEMMA WrapIs ==
    ASSUME NEW n \in Int
    PROVE  Wrap(n) \in Ints /\ \E q \in Int : Wrap(n) = n - (2 * Half) * q
<1> DEFINE M == 2 * Half
<1>1. Half \in Nat \ {0} /\ M \in Nat \ {0}
  BY HalfAssumption
<1>2. Wrap(n) = ((n + Half) % M) - Half
  <2>1. n - IntMin = n + Half
    BY <1>1 DEF IntMin
  <2> QED BY <1>1, <2>1 DEF Wrap, IntMin
<1> HIDE DEF M
<1>3. /\ (n + Half) % M \in 0..(M - 1) /\ (n + Half) \div M \in Int
      /\ n + Half = M * ((n + Half) \div M) + ((n + Half) % M)
  BY <1>1
<1>4. Wrap(n) \in Ints
  BY <1>1, <1>2, <1>3 DEF Ints, IntMin, IntMax, M
<1>5. Wrap(n) = n - M * ((n + Half) \div M)
  BY <1>1, <1>2, <1>3
<1> QED BY <1>3, <1>4, <1>5 DEF M

\* Ints that are whole turns apart are the same.
LEMMA OneInt ==
    ASSUME NEW m \in Ints, NEW n \in Ints, NEW q \in Int, m = n - (2 * Half) * q
    PROVE  m = n
<1> DEFINE M == 2 * Half
<1>1. Half \in Nat \ {0} /\ M \in Nat \ {0} /\ m \in Int /\ n \in Int /\ m - n < M /\ n - m < M
  BY HalfAssumption DEF Ints, IntMin, IntMax
<1>2. m = n - M * q
  OBVIOUS
<1> HIDE DEF M
<1>3. CASE q >= 1
  <2>1. M * q >= M
    BY <1>1, <1>3
  <2> QED BY <1>1, <1>2, <2>1
<1>4. CASE q <= -1
  <2>1. M * (-q) >= M /\ M * (-q) = -(M * q)
    BY <1>1, <1>4
  <2> QED BY <1>1, <1>2, <2>1
<1>5. CASE q = 0
  BY <1>1, <1>2, <1>5
<1> QED BY <1>3, <1>4, <1>5

\* An int is not changed by wrapping.
LEMMA WrapInt ==
    ASSUME NEW n \in Ints
    PROVE  Wrap(n) = n
<1>1. n \in Int
  BY HalfAssumption DEF Ints, IntMin, IntMax
<1>2. PICK q \in Int : Wrap(n) = n - (2 * Half) * q
  BY <1>1, WrapIs
<1> QED BY <1>1, <1>2, WrapIs, OneInt

\* A sum that has wrapped is undone by one that wraps back.
LEMMA WrapBack ==
    ASSUME NEW n \in Ints, NEW d \in Int
    PROVE  Wrap(Wrap(n + d) - d) = n
<1> DEFINE M == 2 * Half
           m == Wrap(n + d)
           k == Wrap(m - d)
<1>1. n \in Int /\ M \in Int
  BY HalfAssumption DEF Ints, IntMin, IntMax
<1>2. m \in Int /\ \E q \in Int : m = (n + d) - M * q
  <2>1. n + d \in Int
    BY <1>1
  <2>2. m \in Ints /\ \E q \in Int : m = (n + d) - M * q
    BY <2>1, WrapIs
  <2> HIDE DEF m, M
  <2>3. m \in Int
    BY <2>2, HalfAssumption DEF Ints, IntMin, IntMax
  <2> QED BY <2>2, <2>3
<1> HIDE DEF m
<1>3. k \in Ints /\ \E q \in Int : k = (m - d) - M * q
  BY <1>2, WrapIs
<1> HIDE DEF k
<1>4. PICK q \in Int : m = (n + d) - M * q
  BY <1>2
<1>5. PICK r \in Int : k = (m - d) - M * r
  BY <1>3
<1> HIDE DEF M
<1>6. k = n - M * (q + r)
  <2>1. M * (q + r) = M * q + M * r /\ M * q \in Int /\ M * r \in Int
    BY <1>1
  <2> QED BY <1>1, <1>2, <1>4, <1>5, <2>1
<1>7. k = n
  BY <1>3, <1>6, OneInt DEF M
<1> QED BY <1>7 DEF k, m

\* C's division of ints, where it has an int for an answer.
LEMMA Divides ==
    ASSUME NEW n \in Ints, NEW d \in Ints, ~NoInt(n, d)
    PROVE  /\ Quotient(n, d) \in Ints
           /\ Abs(n - d * Quotient(n, d)) < Abs(d)
           /\ (n - d * Quotient(n, d)) * n >= 0
<1> DEFINE a == Abs(n)  b == Abs(d)
           k == a \div b
           r == a % b
           q == Quotient(n, d)
<1>1. n \in Int /\ d \in Int /\ Half \in Nat \ {0} /\ d # 0 /\ ~(n = -Half /\ d = -1)
  BY HalfAssumption DEF Ints, IntMin, IntMax, NoInt
<1>2. a \in 0..Half /\ b \in 1..Half
  BY <1>1 DEF Ints, IntMin, IntMax, Abs
<1> HIDE DEF a, b
<1>3. k \in Int /\ r \in 0..(b - 1) /\ a = b * k + r
  BY <1>2
<1>4. k >= 0 /\ k <= a
  <2>1. k >= 0
    BY <1>2
  <2>2. b * k >= k
    BY <1>2, <1>3, <2>1
  <2> QED BY <1>2, <1>3, <2>1, <2>2
<1>5. q = IF (n < 0) = (d < 0) THEN k ELSE -k
  BY DEF Quotient, a, b
<1> HIDE DEF k, r, q
<1>6. q \in Ints
  <2>1. k = Half => b = 1 /\ a = Half
    <3> SUFFICES ASSUME k = Half PROVE b = 1 /\ a = Half
      OBVIOUS
    <3>1. a = Half
      BY <1>1, <1>2, <1>4
    <3>2. b >= 2 => b * k >= 2 * k
      BY <1>2, <1>3, <1>4
    <3> QED BY <1>1, <1>2, <1>3, <1>4, <3>1, <3>2
  <2>2. k = Half => q = -Half
    BY <1>1, <1>5, <2>1 DEF a, b, Abs, Ints, IntMin, IntMax
  <2>3. CASE k = Half
    BY <1>1, <2>2, <2>3 DEF Ints, IntMin, IntMax
  <2>4. CASE k # Half
    <3>1. k \in 0..(Half - 1)
      BY <1>1, <1>2, <1>3, <1>4, <2>4
    <3> QED BY <1>1, <1>5, <3>1 DEF Ints, IntMin, IntMax
  <2> QED BY <2>3, <2>4
<1>7. n - d * q = IF n < 0 THEN -r ELSE r
  <2>1. b * k = a - r
    BY <1>2, <1>3
  <2>2. CASE d < 0
    <3>1. d = -b /\ d * q = -(b * q)
      BY <1>1, <1>2, <1>3, <1>5, <2>2 DEF b, Abs
    <3>2. d * q = IF n < 0 THEN -(b * k) ELSE b * k
      BY <1>1, <1>2, <1>3, <1>5, <2>2, <3>1
    <3> QED BY <1>1, <1>2, <1>3, <2>1, <3>2 DEF a, Abs
  <2>3. CASE ~(d < 0)
    <3>1. d = b
      BY <1>1, <2>3 DEF b, Abs
    <3>2. d * q = IF n < 0 THEN -(b * k) ELSE b * k
      BY <1>1, <1>2, <1>3, <1>5, <2>3, <3>1
    <3> QED BY <1>1, <1>2, <1>3, <2>1, <3>2 DEF a, Abs
  <2> QED BY <2>2, <2>3
<1>8. Abs(n - d * q) < b
  BY <1>1, <1>2, <1>3, <1>7 DEF Abs
<1>9. (n - d * q) * n >= 0
  <2> DEFINE e == n - d * q
  <2>1. e = IF n < 0 THEN -r ELSE r
    BY <1>7
  <2> HIDE DEF e
  <2>2. e * n >= 0
    BY <1>1, <1>2, <1>3, <2>1
  <2> QED BY <2>2 DEF e
<1> QED BY <1>6, <1>8, <1>9 DEF q, b

-----------------------------------------------------------------------------
(* Reading a number.                                                       *)

\* What the parts of atoi are: where the spaces end, where the digits end, and
\* the number read up to each place.
Spaces == 9..13 \cup {SP}
Begins(text, n) ==
    /\ n \in 1..(Len(text) + 1)
    /\ \A m \in 1..(n - 1) : text[m] \in Spaces
    /\ n > Len(text) \/ text[n] \notin Spaces
Ends(text, first, n) ==
    /\ n \in (first - 1)..Len(text)
    /\ \A m \in first..n : text[m] \in Digits
    /\ n = Len(text) \/ text[n + 1] \notin Digits
Reads(v, text, first) ==
    /\ v \in [0..Len(text) -> Int]
    /\ \A n \in 0..Len(text) : v[n] = IF n < first THEN 0 ELSE v[n - 1] * 10 + (text[n] - 48)
SignAt(text, n) == IF n <= Len(text) THEN text[n] ELSE NUL
FirstAt(text, n) == n + (IF SignAt(text, n) \in {43, 45} THEN 1 ELSE 0)

\* The spaces end at one place.
LEMMA OneBegin ==
    ASSUME NEW text \in Seq(Nat), NEW m, Begins(text, m), NEW n, Begins(text, n)
    PROVE  m = n
<1>1. Len(text) \in Nat /\ m \in Int /\ n \in Int
  BY DEF Begins
<1>2. CASE m < n
  BY <1>1, <1>2 DEF Begins
<1>3. CASE n < m
  BY <1>1, <1>3 DEF Begins
<1> QED BY <1>1, <1>2, <1>3

\* And the digits.
LEMMA OneEnd ==
    ASSUME NEW text \in Seq(Nat), NEW first \in 1..(Len(text) + 1),
           NEW m, Ends(text, first, m), NEW n, Ends(text, first, n)
    PROVE  m = n
<1>1. Len(text) \in Nat /\ m \in Int /\ n \in Int
  BY DEF Ends
<1>2. CASE m < n
  <2>1. m + 1 \in first..n /\ m # Len(text)
    BY <1>1, <1>2 DEF Ends
  <2> QED BY <2>1 DEF Ends
<1>3. CASE n < m
  <2>1. n + 1 \in first..m /\ n # Len(text)
    BY <1>1, <1>3 DEF Ends
  <2> QED BY <2>1 DEF Ends
<1> QED BY <1>1, <1>2, <1>3

\* Both are there.
LEMMA SomeBegin ==
    ASSUME NEW text \in Seq(Nat)
    PROVE  \E n : Begins(text, n)
<1> DEFINE N == Len(text)
           T == {n \in 1..(N + 1) : n > N \/ text[n] \notin Spaces}
<1>1. N \in Nat /\ N + 1 \in T /\ T \in SUBSET Nat
  OBVIOUS
<1>2. PICK n \in T : \A k \in T : n <= k
  <2> HIDE DEF T
  <2> QED BY <1>1, LeastIn
<1>3. \A m \in 1..(n - 1) : m \in 1..(N + 1) /\ m \notin T
  BY <1>1, <1>2
<1> QED BY <1>1, <1>2, <1>3 DEF Begins

\* See SomeBegin.
LEMMA SomeEnd ==
    ASSUME NEW text \in Seq(Nat), NEW first \in 1..(Len(text) + 1)
    PROVE  \E n : Ends(text, first, n)
<1> DEFINE N == Len(text)
           T == {n \in (first - 1)..N : n = N \/ text[n + 1] \notin Digits}
<1>1. N \in Nat /\ N \in T /\ T \in SUBSET Nat
  OBVIOUS
<1>2. PICK n \in T : \A k \in T : n <= k
  <2> HIDE DEF T
  <2> QED BY <1>1, LeastIn
<1>3. n \in (first - 1)..N /\ (n = N \/ text[n + 1] \notin Digits)
  BY <1>2
<1>4. ASSUME NEW m \in first..n PROVE text[m] \in Digits
  <2>1. m - 1 \in (first - 1)..N /\ m - 1 < n /\ (m - 1) + 1 = m
    BY <1>1, <1>3
  <2>2. m - 1 \notin T
    <3> HIDE DEF T
    <3> QED BY <1>1, <1>2, <1>3, <2>1
  <2> QED BY <2>1, <2>2
<1> QED BY <1>3, <1>4 DEF Ends

\* There are such numbers.
LEMMA SomeRead ==
    ASSUME NEW text \in Seq(Nat), NEW first \in 1..(Len(text) + 1)
    PROVE  \E v : Reads(v, text, first)
<1> DEFINE N == Len(text)
           before == [n \in 1..N |-> n - 1]
           Make == [n \in 1..N |-> [x \in Int |-> IF n < first THEN 0 ELSE x * 10 + (text[n] - 48)]]
<1>1. N \in Nat
  OBVIOUS
<1>2. before \in Earlier(N)
  BY <1>1 DEF Earlier
<1>3. Make \in Makes(N, Int)
  <2>1. \A n \in 1..N : text[n] \in Nat
    OBVIOUS
  <2>2. \A n \in 1..N, x \in Int : (IF n < first THEN 0 ELSE x * 10 + (text[n] - 48)) \in Int
    BY <2>1
  <2> QED BY <2>2 DEF Makes
<1>4. /\ \A n \in 1..N : before[n] = n - 1
      /\ \A n \in 1..N, x \in Int : Make[n][x] = IF n < first THEN 0 ELSE x * 10 + (text[n] - 48)
  OBVIOUS
<1> HIDE DEF before, Make
<1> DEFINE Z == Int
<1>5. PICK v : Follows(v, N, Z, 0, before, Make)
  <2>1. 0 \in Z /\ Make \in Makes(N, Z)
    BY <1>3
  <2> HIDE DEF Z, N
  <2> QED BY <1>1, <1>2, <2>1, Fold
<1>6. v \in [0..N -> Int] /\ v[0] = 0 /\ \A n \in 1..N : v[n] = Make[n][v[n - 1]]
  BY <1>4, <1>5 DEF Follows
<1>7. \A n \in 1..N : v[n] = IF n < first THEN 0 ELSE v[n - 1] * 10 + (text[n] - 48)
  <2>1. \A n \in 1..N : n - 1 \in 0..N /\ v[n - 1] \in Int
    <3> HIDE DEF N
    <3> QED BY <1>1, <1>6
  <2> QED BY <1>4, <1>6, <2>1
<1>8. \A n \in 0..N : n = 0 \/ n \in 1..N
  BY <1>1
<1>9. 0 < first
  OBVIOUS
<1> QED BY <1>6, <1>7, <1>8, <1>9 DEF Reads

\* And they are the only ones.
LEMMA OneRead ==
    ASSUME NEW text \in Seq(Nat), NEW first \in 1..(Len(text) + 1),
           NEW v, NEW w, \A n \in 0..Len(text) : v[n] = IF n < first THEN 0 ELSE v[n - 1] * 10 + (text[n] - 48),
           \A n \in 0..Len(text) : w[n] = IF n < first THEN 0 ELSE w[n - 1] * 10 + (text[n] - 48)
    PROVE  \A n \in 0..Len(text) : v[n] = w[n]
<1> DEFINE N == Len(text)
           T == {n \in 0..N : v[n] = w[n]}
<1>1. N \in Nat
  OBVIOUS
<1>2. 0 \in T
  <2>1. 0 \in 0..N /\ 0 < first
    BY <1>1
  <2>2. v[0] = 0 /\ w[0] = 0
    BY <2>1
  <2> QED BY <2>1, <2>2
<1>3. ASSUME NEW n \in 0..(N - 1), n \in T PROVE n + 1 \in T
  <2>1. n + 1 \in 0..N /\ (n + 1) - 1 = n /\ v[n] = w[n]
    BY <1>1, <1>3
  <2>2. /\ v[n + 1] = IF n + 1 < first THEN 0 ELSE v[n] * 10 + (text[n + 1] - 48)
        /\ w[n + 1] = IF n + 1 < first THEN 0 ELSE w[n] * 10 + (text[n + 1] - 48)
    BY <2>1
  <2> QED BY <2>1, <2>2
<1> HIDE DEF T
<1>4. 0..N \subseteq T
  BY <1>1, <1>2, <1>3, Upto
<1> QED BY <1>4 DEF T

\* So atoi is what its parts say.
LEMMA AtoiIs ==
    ASSUME NEW text \in Seq(Nat), NEW start, Begins(text, start),
           NEW last, Ends(text, FirstAt(text, start), last),
           NEW v, Reads(v, text, FirstAt(text, start))
    PROVE  atoi(text) = IF SignAt(text, start) = 45 THEN -v[last] ELSE v[last]
<1> DEFINE N == Len(text)
           begin == CHOOSE n \in 1..(N + 1) :
                        /\ \A m \in 1..(n - 1) : text[m] \in Spaces
                        /\ n > N \/ text[n] \notin Spaces
           first == FirstAt(text, begin)
           Made(f) == f = [n \in 0..N |-> IF n < first THEN 0 ELSE f[n - 1] * 10 + (text[n] - 48)]
           value == CHOOSE f : Made(f)
           end == CHOOSE n \in (first - 1)..N :
                        /\ \A m \in first..n : text[m] \in Digits
                        /\ n = N \/ text[n + 1] \notin Digits
<1>1. atoi(text) = IF SignAt(text, begin) = 45 THEN -value[end] ELSE value[end]
  BY DEF atoi, SignAt, FirstAt, Spaces
<1>2. begin = start
  <2>1. Begins(text, begin)
    BY DEF Begins
  <2> HIDE DEF begin
  <2> QED BY <2>1, OneBegin
<1> HIDE DEF begin
<1>3. first \in 1..(N + 1) /\ Ends(text, first, last) /\ Reads(v, text, first)
  BY <1>2 DEF Begins, FirstAt, SignAt, NUL
<1> HIDE DEF first
<1>4. end = last
  <2>1. Ends(text, first, end)
    BY <1>3 DEF Ends
  <2> HIDE DEF end
  <2> QED BY <1>3, <2>1, OneEnd
<1> HIDE DEF end
<1>5. Made(v)
  <2> DEFINE g == [n \in 0..N |-> IF n < first THEN 0 ELSE v[n - 1] * 10 + (text[n] - 48)]
  <2>1. v = [n \in 0..N |-> v[n]]
    BY <1>3 DEF Reads
  <2>2. \A n \in 0..N : v[n] = g[n]
    BY <1>3 DEF Reads
  <2>3. v = g
    BY <2>1, <2>2
  <2> QED BY <2>3
<1>6. Made(value)
  BY <1>5
<1> HIDE DEF value
<1>7. \A n \in 0..N : value[n] = IF n < first THEN 0 ELSE value[n - 1] * 10 + (text[n] - 48)
  BY <1>6, Zenon
<1>8. \A n \in 0..N : v[n] = IF n < first THEN 0 ELSE v[n - 1] * 10 + (text[n] - 48)
  BY <1>3 DEF Reads
<1>9. \A n \in 0..N : value[n] = v[n]
  BY <1>3, <1>7, <1>8, OneRead
<1>10. last \in 0..N
  BY <1>3 DEF Ends
<1>11. value[last] = v[last]
  BY <1>9, <1>10
<1> QED BY <1>1, <1>2, <1>4, <1>11

\* What atoi makes of a text is a number, and Number makes an int of it.
LEMMA AtoiInt ==
    ASSUME NEW text \in Seq(Nat)
    PROVE  atoi(text) \in Int /\ Number(text) \in Ints
<1>1. PICK start : Begins(text, start)
  BY SomeBegin
<1> DEFINE first == FirstAt(text, start)
<1>2. first \in 1..(Len(text) + 1)
  BY <1>1 DEF Begins, FirstAt, SignAt, NUL
<1>3. PICK last : Ends(text, first, last)
  BY <1>2, SomeEnd
<1>4. PICK v : Reads(v, text, first)
  BY <1>2, SomeRead
<1>5. v[last] \in Int
  BY <1>2, <1>3, <1>4 DEF Ends, Reads
<1>6. atoi(text) = IF SignAt(text, start) = 45 THEN -v[last] ELSE v[last]
  BY <1>1, <1>3, <1>4, AtoiIs
<1>7. atoi(text) \in Int
  BY <1>5, <1>6
<1> QED BY <1>7, WrapIs DEF Number

-----------------------------------------------------------------------------
(* Writing a number.                                                       *)

\* Digits that stand for a number: v is the number up to each place.
NumeralBy(v, d, n) ==
    /\ v \in [0..Len(d) -> Int] /\ v[0] = 0
    /\ \A k \in 1..Len(d) : v[k] = v[k - 1] * 10 + (d[k] - 48)
    /\ v[Len(d)] = n
Numeral(d, n) == d \in Seq(Digits) /\ Len(d) > 0 /\ \E v : NumeralBy(v, d, n)

\* One digit is a numeral.
LEMMA OneDigit ==
    ASSUME NEW n \in 0..9
    PROVE  Numeral(<<48 + n>>, n)
<1> DEFINE v == [k \in 0..1 |-> IF k = 0 THEN 0 ELSE n]
           d == <<48 + n>>
<1>1. d \in Seq(Digits) /\ Len(d) = 1 /\ d[1] = 48 + n
  BY DEF Digits
<1>2. v \in [0..1 -> Int] /\ v[0] = 0 /\ v[1] = n
  OBVIOUS
<1> HIDE DEF v, d
<1>3. \A k \in 1..1 : v[k] = v[k - 1] * 10 + (d[k] - 48)
  BY <1>1, <1>2
<1>4. NumeralBy(v, d, n)
  BY <1>1, <1>2, <1>3 DEF NumeralBy
<1> QED BY <1>1, <1>4 DEF Numeral, d

\* So is a numeral with a digit behind it.
LEMMA OneDigitMore ==
    ASSUME NEW n \in Nat, NEW d, Numeral(d, n \div 10)
    PROVE  Numeral(d \o <<48 + (n % 10)>>, n)
<1> DEFINE e == d \o <<48 + (n % 10)>>
           N == Len(d)
<1>1. PICK v : NumeralBy(v, d, n \div 10)
  BY DEF Numeral
<1>2. d \in Seq(Digits) /\ N \in Nat
  BY DEF Numeral
<1>3. n = 10 * (n \div 10) + (n % 10) /\ n % 10 \in 0..9
  OBVIOUS
<1>4. 48 + (n % 10) \in Digits
  BY <1>3 DEF Digits
<1>5. e \in Seq(Digits) /\ Len(e) = N + 1 /\ e[N + 1] = 48 + (n % 10) /\ \A k \in 1..N : e[k] = d[k]
  <2> DEFINE S == Digits
             x == 48 + (n % 10)
  <2>1. d \in Seq(S) /\ x \in S
    BY <1>2, <1>4
  <2> HIDE DEF S, x
  <2>2. /\ d \o <<x>> \in Seq(S) /\ Len(d \o <<x>>) = N + 1
        /\ (d \o <<x>>)[N + 1] = x /\ \A k \in 1..N : (d \o <<x>>)[k] = d[k]
    BY <2>1
  <2> QED BY <2>2 DEF S, x
<1> DEFINE w == [k \in 0..(N + 1) |-> IF k = N + 1 THEN n ELSE v[k]]
<1>6. v \in [0..N -> Int] /\ v[0] = 0 /\ v[N] = n \div 10
      /\ \A k \in 1..N : v[k] = v[k - 1] * 10 + (d[k] - 48)
  BY <1>1 DEF NumeralBy
<1> HIDE DEF e, N
<1>7. w \in [0..(N + 1) -> Int] /\ w[N + 1] = n /\ \A k \in 0..N : w[k] = v[k]
  BY <1>2, <1>6
<1> HIDE DEF w
<1>8. w[0] = 0
  BY <1>2, <1>6, <1>7
<1>9. ASSUME NEW k \in 1..(N + 1) PROVE w[k] = w[k - 1] * 10 + (e[k] - 48)
  <2>1. CASE k = N + 1
    <3>1. w[k] = n /\ w[k - 1] = n \div 10 /\ e[k] = 48 + (n % 10)
      BY <1>2, <1>5, <1>6, <1>7, <2>1
    <3> QED BY <1>3, <3>1
  <2>2. CASE k # N + 1
    <3>1. k \in 1..N /\ k \in 0..N /\ k - 1 \in 0..N
      BY <1>2, <2>2
    <3> QED BY <1>5, <1>6, <1>7, <3>1
  <2> QED BY <2>1, <2>2
<1>10. NumeralBy(w, e, n)
  BY <1>5, <1>7, <1>8, <1>9 DEF NumeralBy
<1>11. Numeral(e, n)
  BY <1>2, <1>5, <1>10 DEF Numeral
<1> QED BY <1>11 DEF e

\* printf("%d") writes a numeral, with a minus before it if there is one.
LEMMA DecimalIs ==
    ASSUME NEW number \in Int
    PROVE  \E d : Numeral(d, Abs(number)) /\ Decimal(number) = IF number < 0 THEN <<45>> \o d ELSE d
<1> DEFINE size == Abs(number)
           Made(f) == f = [n \in 0..size |-> IF n < 10 THEN <<48 + n>>
                                             ELSE f[n \div 10] \o <<48 + (n % 10)>>]
           digits == CHOOSE f : Made(f)
<1>1. Decimal(number) = IF number < 0 THEN <<45>> \o digits[size] ELSE digits[size]
  BY DEF Decimal, Abs
<1>2. size \in Nat
  BY DEF Abs
<1> HIDE DEF size
<1>3. \E f : Made(f)
  <2> DEFINE before == [n \in 1..size |-> n \div 10]
             S == Seq(Int)
             Make == [n \in 1..size |-> [d \in S |-> IF n < 10 THEN <<48 + n>> ELSE d \o <<48 + (n % 10)>>]]
  <2>1. before \in Earlier(size)
    <3>1. \A n \in 1..size : n \div 10 \in 0..size /\ n \div 10 < n
      BY <1>2
    <3> QED BY <3>1 DEF Earlier
  <2>2. Make \in Makes(size, S) /\ <<48>> \in S
    <3>1. \A n \in 1..size : 48 + n \in Int /\ 48 + (n % 10) \in Int
      BY <1>2
    <3>2. \A n \in 1..size, d \in S : (IF n < 10 THEN <<48 + n>> ELSE d \o <<48 + (n % 10)>>) \in S
      BY <3>1
    <3> QED BY <3>2 DEF Makes
  <2>3. /\ \A n \in 1..size : before[n] = n \div 10
        /\ \A n \in 1..size, d \in S : Make[n][d] = IF n < 10 THEN <<48 + n>> ELSE d \o <<48 + (n % 10)>>
    OBVIOUS
  <2> HIDE DEF before, Make, S
  <2>4. PICK f : Follows(f, size, S, <<48>>, before, Make)
    BY <1>2, <2>1, <2>2, Fold
  <2>5. f \in [0..size -> S] /\ f[0] = <<48>> /\ \A n \in 1..size : f[n] = Make[n][f[n \div 10]]
    BY <2>3, <2>4 DEF Follows
  <2>6. \A n \in 0..size : f[n] = IF n < 10 THEN <<48 + n>> ELSE f[n \div 10] \o <<48 + (n % 10)>>
    <3>1. \A n \in 1..size : n \div 10 \in 0..size
      BY <1>2
    <3>2. \A n \in 1..size : f[n] = IF n < 10 THEN <<48 + n>> ELSE f[n \div 10] \o <<48 + (n % 10)>>
      <4> SUFFICES ASSUME NEW k \in 1..size
                   PROVE  f[k] = IF k < 10 THEN <<48 + k>> ELSE f[k \div 10] \o <<48 + (k % 10)>>
        OBVIOUS
      <4>1. f[k] = Make[k][f[k \div 10]]
        BY <2>5, Zenon
      <4>2. f[k \div 10] \in S
        BY <2>5, <3>1, Zenon
      <4> QED BY <2>3, <4>1, <4>2, Zenon
    <3>3. f[0] = <<48 + 0>> /\ 0 < 10
      BY <2>5
    <3>4. \A n \in 0..size : n = 0 \/ n \in 1..size
      BY <1>2
    <3> QED BY <3>2, <3>3, <3>4
  <2> DEFINE g == [n \in 0..size |-> IF n < 10 THEN <<48 + n>> ELSE f[n \div 10] \o <<48 + (n % 10)>>]
  <2>7. f = [n \in 0..size |-> f[n]]
    BY <2>5
  <2>8. \A n \in 0..size : f[n] = g[n]
    BY <2>6
  <2>9. f = g
    BY <2>7, <2>8
  <2> QED BY <2>9
<1>4. Made(digits)
  BY <1>3
<1> HIDE DEF digits
<1>5. \A n \in 0..size : digits[n] = IF n < 10 THEN <<48 + n>> ELSE digits[n \div 10] \o <<48 + (n % 10)>>
  BY <1>4, Zenon
<1> DEFINE Wrong == {n \in 0..size : ~Numeral(digits[n], n)}
<1>6. Wrong = {}
  <2> SUFFICES ASSUME Wrong # {} PROVE FALSE
    OBVIOUS
  <2>1. Wrong \in SUBSET Nat
    BY <1>2
  <2> HIDE DEF Wrong
  <2>2. PICK n \in Wrong : \A k \in Wrong : n <= k
    BY <2>1, LeastIn
  <2>3. n \in 0..size /\ ~Numeral(digits[n], n)
    BY <2>2 DEF Wrong
  <2>4. CASE n < 10
    <3>1. n \in 0..9
      BY <1>2, <2>3, <2>4
    <3>2. digits[n] = <<48 + n>>
      BY <1>5, <2>3, <2>4
    <3>3. Numeral(digits[n], n)
      BY <3>1, <3>2, OneDigit
    <3> QED BY <2>3, <3>3
  <2>5. CASE ~(n < 10)
    <3>1. n \in Nat /\ n \div 10 \in 0..size /\ n \div 10 < n
      BY <1>2, <2>3, <2>5
    <3>2. n \div 10 \notin Wrong
      BY <2>2, <3>1
    <3>3. Numeral(digits[n \div 10], n \div 10)
      BY <3>1, <3>2 DEF Wrong
    <3>4. digits[n] = digits[n \div 10] \o <<48 + (n % 10)>>
      BY <1>5, <2>3, <2>5
    <3>5. Numeral(digits[n], n)
      BY <3>1, <3>3, <3>4, OneDigitMore
    <3> QED BY <2>3, <3>5
  <2> QED BY <2>4, <2>5
<1>7. Numeral(digits[size], size)
  BY <1>2, <1>6
<1> QED BY <1>1, <1>7 DEF size

\* What printf("%d") writes, atoi reads again, the line end behind it or not.
LEMMA DecimalReads ==
    ASSUME NEW number \in Int
    PROVE  atoi(Decimal(number) \o <<LF>>) = number
<1>1. PICK d : Numeral(d, Abs(number)) /\ Decimal(number) = IF number < 0 THEN <<45>> \o d ELSE d
  BY DecimalIs
<1>2. PICK v : NumeralBy(v, d, Abs(number))
  BY <1>1 DEF Numeral
<1> DEFINE text == Decimal(number) \o <<LF>>
           before == IF number < 0 THEN 1 ELSE 0
           N == Len(d)
<1>3. d \in Seq(Digits) /\ N \in Nat \ {0} /\ before \in {0, 1}
  BY <1>1 DEF Numeral
<1>4. /\ text \in Seq(Nat) /\ Len(text) = (before + N) + 1 /\ text[(before + N) + 1] = 10
      /\ \A k \in 1..N : text[before + k] = d[k]
      /\ number < 0 => text[1] = 45
  <2>1. d \in Seq(Nat) /\ LF = 10
    BY <1>3 DEF Digits, LF
  <2> DEFINE S == Nat
             m == 45
             e == 10
  <2>2. d \in Seq(S) /\ m \in S /\ e \in S
    BY <2>1
  <2>3. text = IF number < 0 THEN (<<m>> \o d) \o <<e>> ELSE d \o <<e>>
    BY <1>1, <2>1
  <2> HIDE DEF S, m, e, text
  <2>4. CASE number < 0
    <3>1. /\ <<m>> \o d \in Seq(S) /\ Len(<<m>> \o d) = 1 + N /\ (<<m>> \o d)[1] = m
          /\ \A k \in 1..N : (<<m>> \o d)[1 + k] = d[k]
      BY <2>2
    <3> DEFINE t == <<m>> \o d
    <3>2. t \in Seq(S) /\ Len(t) = 1 + N /\ t[1] = m /\ \A k \in 1..N : t[1 + k] = d[k]
      BY <3>1
    <3> HIDE DEF t
    <3>3. /\ t \o <<e>> \in Seq(S) /\ Len(t \o <<e>>) = (1 + N) + 1 /\ (t \o <<e>>)[(1 + N) + 1] = e
          /\ \A k \in 1..(1 + N) : (t \o <<e>>)[k] = t[k]
      BY <1>3, <2>2, <3>2
    <3>4. text = t \o <<e>>
      BY <2>3, <2>4 DEF t
    <3>5. before = 1 /\ \A k \in 1..N : 1 + k \in 1..(1 + N)
      BY <1>3, <2>4
    <3>6. 1 \in 1..(1 + N)
      BY <1>3
    <3>7. \A k \in 1..N : text[1 + k] = d[k]
      BY <3>2, <3>3, <3>4, <3>5
    <3>8. text[1] = m
      BY <3>2, <3>3, <3>4, <3>6
    <3>9. text \in Seq(S) /\ Len(text) = (1 + N) + 1 /\ text[(1 + N) + 1] = e
      BY <3>3, <3>4
    <3> QED BY <3>5, <3>7, <3>8, <3>9 DEF S, m, e
  <2>5. CASE ~(number < 0)
    <3>1. /\ d \o <<e>> \in Seq(S) /\ Len(d \o <<e>>) = N + 1 /\ (d \o <<e>>)[N + 1] = e
          /\ \A k \in 1..N : (d \o <<e>>)[k] = d[k]
      BY <2>2
    <3>2. text = d \o <<e>> /\ before = 0 /\ 0 + N = N /\ \A k \in 1..N : 0 + k = k
      BY <1>3, <2>3, <2>5
    <3> QED BY <2>5, <3>1, <3>2 DEF S, e
  <2> QED BY <2>4, <2>5
<1>5. v \in [0..N -> Int] /\ v[0] = 0 /\ v[N] = Abs(number)
      /\ \A k \in 1..N : v[k] = v[k - 1] * 10 + (d[k] - 48)
  BY <1>2 DEF NumeralBy
<1>6. \A k \in 1..N : d[k] \in Digits
  BY <1>3
<1>7. number < 0 <=> before = 1
  OBVIOUS
<1> HIDE DEF text, before, N
<1>8. 1 \in 1..N /\ text[1] = IF number < 0 THEN 45 ELSE d[1]
  <2>1. 1 \in 1..N
    BY <1>3
  <2>2. ~(number < 0) => before = 0 /\ text[before + 1] = d[1]
    BY <1>3, <1>4, <1>7, <2>1
  <2> QED BY <1>4, <2>1, <2>2
<1>9. text[1] \in Nat /\ text[1] \notin Spaces /\ (text[1] \in {43, 45} <=> number < 0)
      /\ (text[1] = 45 <=> number < 0)
  <2>1. d[1] \in 48..57
    BY <1>6, <1>8 DEF Digits
  <2> QED BY <1>8, <2>1 DEF Spaces, SP
<1>10. 1 <= Len(text)
  BY <1>3, <1>4
<1>11. Begins(text, 1)
  BY <1>9, <1>10 DEF Begins
<1>12. SignAt(text, 1) = text[1] /\ FirstAt(text, 1) = before + 1
  BY <1>3, <1>7, <1>9, <1>10 DEF SignAt, FirstAt
<1>13. Ends(text, before + 1, before + N)
  <2>1. before + N \in ((before + 1) - 1)..Len(text)
    BY <1>3, <1>4
  <2>2. ASSUME NEW m \in (before + 1)..(before + N) PROVE text[m] \in Digits
    <3>1. m - before \in 1..N /\ before + (m - before) = m
      BY <1>3
    <3>2. text[m] = d[m - before]
      BY <1>4, <3>1
    <3> QED BY <1>6, <3>1, <3>2
  <2>3. text[(before + N) + 1] \notin Digits
    BY <1>4 DEF Digits
  <2> QED BY <2>1, <2>2, <2>3 DEF Ends
<1> DEFINE w == [n \in 0..Len(text) |->
                    IF n <= before THEN 0
                    ELSE IF n = (before + N) + 1 THEN v[N] * 10 + (10 - 48) ELSE v[n - before]]
<1>14. Reads(w, text, before + 1)
  <2>1. ASSUME NEW n \in 0..Len(text), n # (before + N) + 1, ~(n <= before)
        PROVE  n - before \in 1..N /\ before + (n - before) = n /\ v[n - before] \in Int
    <3>1. n - before \in 1..N /\ before + (n - before) = n /\ n - before \in 0..N
      BY <1>3, <1>4, <2>1
    <3> QED BY <1>5, <3>1
  <2>2. N \in 0..N /\ v[N] \in Int
    BY <1>3, <1>5
  <2>3. w \in [0..Len(text) -> Int]
    BY <2>1, <2>2
  <2>4. /\ \A n \in 0..Len(text) : n <= before => w[n] = 0
        /\ \A n \in 0..Len(text) : n = (before + N) + 1 => w[n] = v[N] * 10 + (10 - 48)
        /\ \A n \in 0..Len(text) : ~(n <= before) /\ n # (before + N) + 1 => w[n] = v[n - before]
    BY <1>3
  <2> HIDE DEF w
  <2>5. ASSUME NEW n \in 0..Len(text)
        PROVE  w[n] = IF n < before + 1 THEN 0 ELSE w[n - 1] * 10 + (text[n] - 48)
    <3>1. CASE n <= before
      BY <1>3, <1>4, <2>4, <3>1
    <3>2. CASE n = (before + N) + 1
      <4>1. w[n] = v[N] * 10 + (10 - 48) /\ ~(n < before + 1) /\ text[n] = 10
        BY <1>3, <1>4, <2>4, <3>2
      <4>2. n - 1 \in 0..Len(text) /\ ~(n - 1 <= before) /\ n - 1 # (before + N) + 1 /\ (n - 1) - before = N
        BY <1>3, <1>4, <3>2
      <4>3. w[n - 1] = v[N]
        BY <2>4, <4>2
      <4> QED BY <4>1, <4>3
    <3>3. CASE ~(n <= before) /\ n # (before + N) + 1
      <4>1. n - before \in 1..N /\ before + (n - before) = n
        BY <2>1, <3>3
      <4>2. w[n] = v[n - before] /\ text[n] = d[n - before] /\ ~(n < before + 1)
        <5>1. text[before + (n - before)] = d[n - before]
          BY <1>4, <4>1
        <5>2. ~(n < before + 1)
          BY <1>3, <1>4, <3>3
        <5> QED BY <2>4, <3>3, <4>1, <5>1, <5>2
      <4>3. v[n - before] = v[(n - before) - 1] * 10 + (d[n - before] - 48)
        BY <1>5, <4>1
      <4>4. w[n - 1] = v[(n - before) - 1]
        <5>1. n - 1 \in 0..Len(text) /\ n - 1 # (before + N) + 1 /\ (n - 1) - before = (n - before) - 1
          BY <1>3, <1>4, <3>3
        <5>2. CASE n - 1 <= before
          <6>1. (n - before) - 1 = 0
            BY <1>3, <1>4, <3>3, <5>2
          <6> QED BY <1>5, <2>4, <5>1, <5>2, <6>1
        <5>3. CASE ~(n - 1 <= before)
          BY <2>4, <5>1, <5>3
        <5> QED BY <5>2, <5>3
      <4> QED BY <4>2, <4>3, <4>4
    <3> QED BY <3>1, <3>2, <3>3
  <2> QED BY <2>3, <2>5 DEF Reads
<1>15. w[before + N] = Abs(number)
  <2>1. before + N \in 0..Len(text) /\ ~(before + N <= before) /\ before + N # (before + N) + 1
        /\ (before + N) - before = N
    BY <1>3, <1>4
  <2> QED BY <1>5, <2>1
<1> HIDE DEF w
<1>16. atoi(text) = IF SignAt(text, 1) = 45 THEN -w[before + N] ELSE w[before + N]
  BY <1>4, <1>11, <1>12, <1>13, <1>14, AtoiIs
<1>17. atoi(text) = IF number < 0 THEN -Abs(number) ELSE Abs(number)
  BY <1>9, <1>12, <1>15, <1>16
<1>18. atoi(text) = number
  BY <1>17 DEF Abs
<1> QED BY <1>18 DEF text

-----------------------------------------------------------------------------
(* Numbers.                                                                *)

\* The first two powers of a number.
LEMMA PowerIs ==
    ASSUME NEW n \in Ints, NEW e \in 1..2
    PROVE  /\ Power(n, e) \in Int
           /\ Power(n, e) # IntMin => Power(n, e) = IF e = 1 THEN n ELSE n * n
<1> DEFINE top == Greatest(e, 0)
           Made(f) == f = [k \in 0..top |-> IF k = 0 THEN 1 ELSE n * f[k - 1]]
           times == CHOOSE f : Made(f)
           exact == IF e >= 0 THEN times[e]
                    ELSE IF n = 0 THEN IntMin
                    ELSE IF n = 1 THEN 1
                    ELSE IF n = -1 THEN (IF e % 2 = 0 THEN 1 ELSE -1) ELSE 0
<1>1. Power(n, e) = IF exact \in IntMin..IntMax THEN exact ELSE IntMin
  BY DEF Power
<1>2. n \in Int /\ IntMin \in Int /\ top = e
  BY HalfAssumption DEF Ints, IntMin, IntMax, Greatest
<1> HIDE DEF top
<1>3. \E f : Made(f)
  <2> DEFINE f == [k \in 0..top |-> IF k = 0 THEN 1 ELSE IF k = 1 THEN n ELSE n * n]
             g == [k \in 0..top |-> IF k = 0 THEN 1 ELSE n * f[k - 1]]
  <2>1. ASSUME NEW k \in 0..top PROVE f[k] = g[k]
    <3>1. k = 0 \/ k = 1 \/ k = 2
      BY <1>2
    <3>2. k # 0 => k - 1 \in 0..top /\ g[k] = n * f[k - 1]
      BY <1>2
    <3>3. CASE k = 0
      BY <3>3
    <3>4. CASE k = 1
      BY <1>2, <3>2, <3>4
    <3>5. CASE k = 2
      BY <1>2, <3>2, <3>5
    <3> QED BY <3>1, <3>3, <3>4, <3>5
  <2>2. f = g
    BY <2>1
  <2> QED BY <2>2
<1>4. Made(times)
  BY <1>3
<1> HIDE DEF times
<1>5. \A k \in 0..top : times[k] = IF k = 0 THEN 1 ELSE n * times[k - 1]
  BY <1>4, Zenon
<1>6. times[e] = IF e = 1 THEN n ELSE n * n
  <2>1. 0 \in 0..top /\ times[0] = 1
    BY <1>2, <1>5
  <2>2. 1 \in 0..top /\ times[1] = n * times[1 - 1]
    BY <1>2, <1>5
  <2>3. times[1] = n
    BY <1>2, <2>1, <2>2
  <2>4. ASSUME e = 2 PROVE times[2] = n * n
    <3>1. 2 \in 0..top /\ times[2] = n * times[2 - 1]
      BY <1>2, <1>5, <2>4
    <3> QED BY <2>3, <3>1
  <2> QED BY <2>3, <2>4
<1>7. exact = times[e]
  OBVIOUS
<1>8. exact \in Int
  BY <1>2, <1>6, <1>7
<1> HIDE DEF exact
<1> QED BY <1>1, <1>2, <1>6, <1>7, <1>8

\* What a command has answered is the number it wrote.
LEMMA AnswerIs ==
    ASSUME NEW name, NEW text, NEW arg, NEW number \in Int, Answers(name, text, arg, number)
    PROVE  Result' = number /\ alive' = alive /\ alive /\ returned' = TRUE
           /\ typed' = [name |-> name, text |-> text, arg |-> arg]
BY DecimalReads DEF Answers, Typed, Called, Ended, Result

\* Each conjunct of NumbersAgree is about the commands it names.
LEMMA OtherNumbers ==
    ASSUME alive', typed'.name \notin {"+", "-", "mod", "/", "pow", "abs", "-lt", "-gt"}
    PROVE  NumbersAgree'
BY Zenon DEF NumbersAgree, Asks

\* See OtherNumbers.
LEMMA SumAgrees ==
    ASSUME alive', typed'.name = "+", Wrap(Result' - R') = L'
    PROVE  NumbersAgree'
BY Zenon DEF NumbersAgree, Asks

\* See OtherNumbers.
LEMMA DifferenceAgrees ==
    ASSUME alive', typed'.name = "-", Wrap(Result' + R') = L'
    PROVE  NumbersAgree'
BY Zenon DEF NumbersAgree, Asks

\* See OtherNumbers.
LEMMA RemainderAgrees ==
    ASSUME alive', typed'.name = "mod",
           NEW q \in IntMin..IntMax, L' = q * R' + Result', Abs(Result') < Abs(R'), Result' * L' >= 0
    PROVE  NumbersAgree'
BY Zenon DEF NumbersAgree, Asks

\* See OtherNumbers.
LEMMA QuotientAgrees ==
    ASSUME alive', typed'.name = "/",
           Abs(L' - R' * Result') < Abs(R'), (L' - R' * Result') * L' >= 0
    PROVE  NumbersAgree'
BY Zenon DEF NumbersAgree, Asks

\* See OtherNumbers; a division by 0 answers nothing.
LEMMA RefusalAgrees ==
    ASSUME alive', typed'.name = "/", returned' = FALSE
    PROVE  NumbersAgree'
BY Zenon DEF NumbersAgree, Asks

\* See OtherNumbers.
LEMMA PowerAgrees ==
    ASSUME alive', typed'.name = "pow",
           R' \in 1..2 /\ Result' # IntMin => Result' = IF R' = 1 THEN L' ELSE L' * L'
    PROVE  NumbersAgree'
BY Zenon DEF NumbersAgree, Asks

\* See OtherNumbers.
LEMMA AbsAgrees ==
    ASSUME alive', typed'.name = "abs", Result' >= 0 \/ L' = IntMin
    PROVE  NumbersAgree'
BY Zenon DEF NumbersAgree, Asks

\* See OtherNumbers.
LEMMA LessAgrees ==
    ASSUME alive', typed'.name = "-lt", Yes' <=> \E d \in 1..(2 * Half) : L' + d = R'
    PROVE  NumbersAgree'
BY Zenon DEF NumbersAgree, Asks

\* See OtherNumbers.
LEMMA GreaterAgrees ==
    ASSUME alive', typed'.name = "-gt", Yes' <=> \E d \in 1..(2 * Half) : R' + d = L'
    PROVE  NumbersAgree'
BY Zenon DEF NumbersAgree, Asks

\* See OtherNumbers.
LEMMA EndAgrees ==
    ASSUME alive' = FALSE, typed'.name \in {"/", "mod"}, typed'.name = "/" => R' = -1
    PROVE  NumbersAgree'
BY Zenon DEF NumbersAgree, Asks

\* Two numerals and what is made of them.
LEMMA NumbersRead ==
    ASSUME NEW t \in Numerals, NEW a \in Numerals
    PROVE  Number(t) \in Ints /\ Number(a) \in Ints /\ Number(t) \in Int /\ Number(a) \in Int
           /\ Half \in Nat \ {0} /\ IntMin \in Int
<1>1. t \in Seq(Nat) /\ a \in Seq(Nat)
  BY TextsAssumption
<1>2. Number(t) \in Ints /\ Number(a) \in Ints
  BY <1>1, AtoiInt
<1> QED BY <1>2, HalfAssumption DEF Ints, IntMin, IntMax

\* What the last command was given.
LEMMA Given ==
    ASSUME NEW name, NEW text, NEW arg, typed' = [name |-> name, text |-> text, arg |-> arg]
    PROVE  typed'.name = name /\ L' = Number(text) /\ R' = Number(arg)
BY DEF L, R

\* The commands that reckon keep NumbersAgree: +.
LEMMA PlusKeeps == ASSUME cmd_plus PROVE NumbersAgree' /\ typed'.name = "+"
<1>1. PICK t \in Numerals, a \in Numerals : Answers("+", t, a, Wrap(Number(t) + Number(a)))
  BY DEF cmd_plus
<1> DEFINE l == Number(t)  r == Number(a)
<1>2. l \in Ints /\ l \in Int /\ r \in Int
  BY NumbersRead
<1> HIDE DEF l, r
<1>3. Wrap(l + r) \in Int
  <2>1. l + r \in Int
    BY <1>2
  <2> QED BY <2>1, WrapIs, HalfAssumption DEF Ints, IntMin, IntMax
<1>4. Answers("+", t, a, Wrap(l + r))
  BY <1>1 DEF l, r
<1>5. Result' = Wrap(l + r) /\ alive' /\ typed' = [name |-> "+", text |-> t, arg |-> a]
  BY <1>3, <1>4, AnswerIs
<1>6. typed'.name = "+" /\ L' = l /\ R' = r
  BY <1>5, Given DEF l, r
<1>7. Wrap(Result' - R') = L'
  BY <1>2, <1>5, <1>6, WrapBack
<1> QED BY <1>5, <1>6, <1>7, SumAgrees

\* -.
LEMMA MinusKeeps == ASSUME cmd_minus PROVE NumbersAgree' /\ typed'.name = "-"
<1>1. PICK t \in Numerals, a \in Numerals : Answers("-", t, a, Wrap(Number(t) - Number(a)))
  BY DEF cmd_minus
<1> DEFINE l == Number(t)  r == Number(a)
<1>2. l \in Ints /\ l \in Int /\ r \in Int
  BY NumbersRead
<1> HIDE DEF l, r
<1>3. Wrap(l - r) \in Int
  <2>1. l - r \in Int
    BY <1>2
  <2> QED BY <2>1, WrapIs, HalfAssumption DEF Ints, IntMin, IntMax
<1>4. Answers("-", t, a, Wrap(l - r))
  BY <1>1 DEF l, r
<1>5. Result' = Wrap(l - r) /\ alive' /\ typed' = [name |-> "-", text |-> t, arg |-> a]
  BY <1>3, <1>4, AnswerIs
<1>6. typed'.name = "-" /\ L' = l /\ R' = r
  BY <1>5, Given DEF l, r
<1>7. Wrap(Wrap(l - r) + r) = l
  <2>1. l + (-r) = l - r /\ -r \in Int /\ Wrap(l - r) - (-r) = Wrap(l - r) + r
    BY <1>2, <1>3
  <2>2. Wrap(Wrap(l + (-r)) - (-r)) = l
    BY <1>2, <2>1, WrapBack
  <2> QED BY <2>1, <2>2
<1> QED BY <1>5, <1>6, <1>7, DifferenceAgrees

\* *, of which nothing is asked.
LEMMA MultKeeps == ASSUME cmd_mult PROVE NumbersAgree' /\ typed'.name = "*"
<1>1. alive' /\ typed'.name = "*"
  BY DEF cmd_mult, Answers, Typed, Called
<1> QED BY <1>1, OtherNumbers, Zenon

\* pow.
LEMMA PowKeeps == ASSUME cmd_pow PROVE NumbersAgree' /\ typed'.name = "pow"
<1>1. PICK t \in Numerals, a \in Numerals : Answers("pow", t, a, Power(Number(t), Number(a)))
  BY DEF cmd_pow
<1> DEFINE l == Number(t)  r == Number(a)
<1>2. l \in Ints /\ l \in Int /\ r \in Int
  BY NumbersRead
<1> HIDE DEF l, r
<1>3. alive' /\ typed' = [name |-> "pow", text |-> t, arg |-> a]
  BY <1>1 DEF Answers, Typed, Called
<1>4. typed'.name = "pow" /\ L' = l /\ R' = r
  BY <1>3, Given DEF l, r
<1>5. ASSUME r \in 1..2, Result' # IntMin PROVE Result' = IF r = 1 THEN l ELSE l * l
  <2>1. Power(l, r) \in Int /\ (Power(l, r) # IntMin => Power(l, r) = IF r = 1 THEN l ELSE l * l)
    BY <1>2, <1>5, PowerIs
  <2>2. Answers("pow", t, a, Power(l, r))
    BY <1>1 DEF l, r
  <2>3. Result' = Power(l, r)
    BY <2>1, <2>2, AnswerIs
  <2> QED BY <1>5, <2>1, <2>3
<1>6. R' \in 1..2 /\ Result' # IntMin => Result' = IF R' = 1 THEN L' ELSE L' * L'
  BY <1>4, <1>5
<1> QED BY <1>3, <1>4, <1>6, PowerAgrees

\* abs.
LEMMA AbsKeeps == ASSUME cmd_abs PROVE NumbersAgree' /\ typed'.name = "abs"
<1>1. PICK t \in Numerals : Answers("abs", t, <<>>, Wrap(Abs(Number(t))))
  BY DEF cmd_abs
<1> DEFINE l == Number(t)
<1>2. l \in Ints /\ l \in Int
  BY NumbersRead
<1> HIDE DEF l
<1>3. Abs(l) \in Int /\ Wrap(Abs(l)) \in Int
  <2>1. Abs(l) \in Int
    BY <1>2 DEF Abs
  <2> QED BY <2>1, WrapIs, HalfAssumption DEF Ints, IntMin, IntMax
<1>4. Answers("abs", t, <<>>, Wrap(Abs(l)))
  BY <1>1 DEF l
<1>5. Result' = Wrap(Abs(l)) /\ alive' /\ typed' = [name |-> "abs", text |-> t, arg |-> <<>>]
  BY <1>3, <1>4, AnswerIs
<1>6. typed'.name = "abs" /\ L' = l
  BY <1>5, Given DEF l
<1>7. Wrap(Abs(l)) >= 0 \/ l = IntMin
  <2>1. CASE l = IntMin
    BY <2>1
  <2>2. CASE l # IntMin
    <3>1. Abs(l) \in Ints /\ Abs(l) >= 0
      BY <1>2, <2>2, HalfAssumption DEF Ints, IntMin, IntMax, Abs
    <3>2. Wrap(Abs(l)) = Abs(l)
      BY <3>1, WrapInt
    <3> QED BY <3>1, <3>2
  <2> QED BY <2>1, <2>2
<1> QED BY <1>5, <1>6, <1>7, AbsAgrees

\* A division that ends the shell has no int for its answer.
LEMMA DiesAgrees ==
    ASSUME NEW name \in {"/", "mod"}, NEW t, NEW a, Dies(name, t, a), name = "/" => Number(a) = -1
    PROVE  NumbersAgree' /\ typed'.name = name
<1>1. alive' = FALSE /\ typed' = [name |-> name, text |-> t, arg |-> a]
  BY DEF Dies, Typed, Called
<1>2. typed'.name = name /\ R' = Number(a)
  BY <1>1, Given
<1> QED BY <1>1, <1>2, EndAgrees

\* /.
LEMMA DivKeeps == ASSUME cmd_div PROVE NumbersAgree' /\ typed'.name = "/"
<1>1. PICK t \in Numerals, a \in Numerals :
        \/ /\ Number(a) = 0
           /\ Typed([name |-> "/", text |-> t, arg |-> a])
           /\ returned' = FALSE /\ mRCode' = RCODE_NFUN_INVALID_USSING
           /\ UNCHANGED <<var, set, nextout, alive>>
        \/ ~NoInt(Number(t), Number(a)) /\ Answers("/", t, a, Quotient(Number(t), Number(a)))
        \/ Number(a) # 0 /\ NoInt(Number(t), Number(a)) /\ Dies("/", t, a)
  BY DEF cmd_div
<1> DEFINE l == Number(t)  r == Number(a)
<1>2. l \in Ints /\ r \in Ints /\ l \in Int /\ r \in Int
  BY NumbersRead
<1> HIDE DEF l, r
<1>3. CASE Typed([name |-> "/", text |-> t, arg |-> a]) /\ returned' = FALSE /\ alive' = alive
  <2>1. alive' /\ typed'.name = "/"
    BY <1>3 DEF Typed, Called
  <2> QED BY <1>3, <2>1, RefusalAgrees
<1>4. CASE ~NoInt(l, r) /\ Answers("/", t, a, Quotient(l, r))
  <2>1. /\ Quotient(l, r) \in Ints
        /\ Abs(l - r * Quotient(l, r)) < Abs(r)
        /\ (l - r * Quotient(l, r)) * l >= 0
    BY <1>2, <1>4, Divides
  <2>2. Quotient(l, r) \in Int
    BY <2>1, HalfAssumption DEF Ints, IntMin, IntMax
  <2>3. Result' = Quotient(l, r) /\ alive' /\ typed' = [name |-> "/", text |-> t, arg |-> a]
    BY <1>4, <2>2, AnswerIs
  <2>4. typed'.name = "/" /\ L' = l /\ R' = r
    BY <2>3, Given DEF l, r
  <2> QED BY <2>1, <2>3, <2>4, QuotientAgrees
<1>5. CASE r # 0 /\ NoInt(l, r) /\ Dies("/", t, a)
  <2>1. r = -1
    BY <1>5 DEF NoInt
  <2>2. "/" \in {"/", "mod"}
    OBVIOUS
  <2> QED BY <1>5, <2>1, <2>2, DiesAgrees DEF r
<1> QED BY <1>1, <1>3, <1>4, <1>5 DEF l, r

\* mod.
LEMMA ModKeeps == ASSUME cmd_mod PROVE NumbersAgree' /\ typed'.name = "mod"
<1>1. PICK t \in Numerals, a \in Numerals :
        \/ ~NoInt(Number(t), Number(a)) /\ Answers("mod", t, a, Remainder(Number(t), Number(a)))
        \/ NoInt(Number(t), Number(a)) /\ Dies("mod", t, a)
  BY DEF cmd_mod
<1> DEFINE l == Number(t)  r == Number(a)
<1>2. l \in Ints /\ r \in Ints /\ l \in Int /\ r \in Int
  BY NumbersRead
<1> HIDE DEF l, r
<1>3. CASE ~NoInt(l, r) /\ Answers("mod", t, a, Remainder(l, r))
  <2> DEFINE q == Quotient(l, r)
             e == Remainder(l, r)
  <2>1. q \in Ints /\ Abs(l - r * q) < Abs(r) /\ (l - r * q) * l >= 0
    BY <1>2, <1>3, Divides
  <2>2. e = l - r * q
    BY DEF Remainder
  <2> HIDE DEF q, e
  <2>3. q \in Int /\ e \in Int /\ l = q * r + e
    <3>1. q \in Int
      BY <2>1, HalfAssumption DEF Ints, IntMin, IntMax
    <3> QED BY <1>2, <2>2, <3>1
  <2>4. Answers("mod", t, a, e)
    BY <1>3 DEF e
  <2>5. Result' = e /\ alive' /\ typed' = [name |-> "mod", text |-> t, arg |-> a]
    BY <2>3, <2>4, AnswerIs
  <2>6. typed'.name = "mod" /\ L' = l /\ R' = r
    BY <2>5, Given DEF l, r
  <2>7. q \in IntMin..IntMax
    BY <2>1 DEF Ints
  <2>8. L' = q * R' + Result' /\ Abs(Result') < Abs(R') /\ Result' * L' >= 0
    BY <2>1, <2>2, <2>3, <2>5, <2>6
  <2> QED BY <2>5, <2>6, <2>7, <2>8, RemainderAgrees
<1>4. CASE NoInt(l, r) /\ Dies("mod", t, a)
  <2>1. "mod" \in {"/", "mod"} /\ "mod" # "/"
    OBVIOUS
  <2> QED BY <1>4, <2>1, DiesAgrees
<1> QED BY <1>1, <1>3, <1>4 DEF l, r

\* ++ and --, which answer nothing.
LEMMA StepKeeps ==
    ASSUME cmd_plusplus \/ cmd_minusminus
    PROVE  NumbersAgree' /\ typed'.name \in {"++", "--"}
<1>1. alive' /\ typed'.name \in {"++", "--"}
  BY DEF cmd_plusplus, cmd_minusminus, Step, Typed, Called
<1> QED BY <1>1, OtherNumbers, Zenon

-----------------------------------------------------------------------------
(* Texts and files.                                                        *)

\* Each conjunct of ConditionsAgree is about the commands it names.
LEMMA OtherConditions ==
    ASSUME typed'.name \notin {"-b", "-c", "-d", "-f", "-p", "-S", "-e", "-s", "-r", "-g", "-O",
                               "-nt", "-ot", "=", "-slt", "=~"}
    PROVE  ConditionsAgree'
BY Zenon DEF ConditionsAgree, Asks, Kinds

\* See OtherConditions.
LEMMA KindAgrees ==
    ASSUME typed'.name \in Kinds,
           Yes' => \A k \in Kinds \ {typed'.name} : ~Asked(k, Files[typed'.path])
    PROVE  ConditionsAgree'
BY Zenon DEF ConditionsAgree, Asks, Kinds

\* See OtherConditions.
LEMMA ExistsAgrees ==
    ASSUME typed'.name = "-e", Yes' <=> \E k \in Kinds : Asked(k, Files[typed'.path])
    PROVE  ConditionsAgree'
BY Zenon DEF ConditionsAgree, Asks, Kinds

\* See OtherConditions.
LEMMA KnownAgrees ==
    ASSUME typed'.name \in {"-s", "-r", "-g", "-O"}, Yes' => Asked("-e", Files[typed'.path])
    PROVE  ConditionsAgree'
BY Zenon DEF ConditionsAgree, Asks, Kinds

\* See OtherConditions.
LEMMA TimesAgree ==
    ASSUME typed'.name \in {"-nt", "-ot"}, typed'.path = typed'.arg => ~Yes'
    PROVE  ConditionsAgree'
BY Zenon DEF ConditionsAgree, Asks, Kinds

\* See OtherConditions.
LEMMA EqualAgrees ==
    ASSUME typed'.name = "=", Yes' => Cased(typed'.text, TRUE) = Cased(typed'.arg, TRUE)
    PROVE  ConditionsAgree'
BY Zenon DEF ConditionsAgree, Asks, Kinds

\* See OtherConditions.
LEMMA BeforeAgrees ==
    ASSUME typed'.name = "-slt",
           Yes' => Order(typed'.arg, typed'.text, typed'.ignore) > 0 /\ typed'.text # typed'.arg
    PROVE  ConditionsAgree'
BY Zenon DEF ConditionsAgree, Asks, Kinds

\* See OtherConditions.
LEMMA MatchAgrees ==
    ASSUME typed'.name = "=~",
           Yes' <=> set' # Unset,
           Yes' => /\ set'.PREMATCH \o set'.MATCH \o set'.POSTMATCH = typed'.text
                   /\ \A n \in 1..Len(set'.PREMATCH) :
                          ~IsPrefix(typed'.regex, After(set'.PREMATCH \o set'.MATCH, n - 1))
    PROVE  ConditionsAgree'
BY Zenon DEF ConditionsAgree, Asks, Kinds

\* What a condition has answered.
LEMMA SaysIs ==
    ASSUME NEW command, NEW yes, Says(command, yes)
    PROVE  alive' /\ typed' = command /\ (Yes' <=> yes)
<1>1. mRCode' = (IF yes THEN 0 ELSE RCODE_NFUN_FALSE) /\ alive' /\ typed' = command
  BY DEF Says, Typed, Called, Ended
<1>2. RCODE_NFUN_FALSE # 0
  BY DEF RCODE_NFUN_FALSE
<1> QED BY <1>1, <1>2 DEF Yes

\* -n and -z, of which nothing is asked.
LEMMA EmptyKeeps == ASSUME cmd_condition_empty PROVE TestsAgree'
<1>1. alive' /\ typed'.name \in {"-n", "-z"}
  <2>1. PICK t \in Compared :
          \/ Says([name |-> "-n", text |-> t], t # <<>>)
          \/ Says([name |-> "-z", text |-> t], t = <<>>)
    BY DEF cmd_condition_empty
  <2>2. alive' /\ (typed' = [name |-> "-n", text |-> t] \/ typed' = [name |-> "-z", text |-> t])
    BY <2>1, SaysIs
  <2> QED BY <2>2
<1>2. NumbersAgree'
  BY <1>1, OtherNumbers, Zenon
<1>3. ConditionsAgree'
  BY <1>1, OtherConditions, Zenon
<1> QED BY <1>2, <1>3 DEF TestsAgree

\* Holds says of an order what the name of the condition says.
LEMMA HoldsIs ==
    ASSUME NEW o
    PROVE  /\ Holds("=", o) <=> o = 0
           /\ Holds("-slt", o) <=> o < 0
           /\ Holds("-lt", o) <=> o < 0
           /\ Holds("-gt", o) <=> o > 0
BY Zenon DEF Holds

\* The conditions about numbers.
LEMMA NumbersKeep == ASSUME cmd_condition_numbers PROVE TestsAgree'
<1>1. PICK name \in {"-eq", "-ne", "-lt", "-gt", "-le", "-ge"}, t \in Numerals, a \in Numerals :
        Says([name |-> name, text |-> t, arg |-> a], Holds(name, NumberOrder(t, a)))
  BY DEF cmd_condition_numbers
<1> DEFINE l == Number(t)  r == Number(a)
<1>2. l \in Ints /\ r \in Ints /\ l \in Int /\ r \in Int /\ Half \in Nat \ {0}
  BY NumbersRead
<1>3. NumberOrder(t, a) = l - r
  BY DEF NumberOrder
<1>4. alive' /\ typed' = [name |-> name, text |-> t, arg |-> a]
  BY <1>1 DEF Says, Typed, Called
<1>5. typed'.name = name /\ L' = l /\ R' = r
  BY <1>4, Given
<1> HIDE DEF l, r
<1>6. ConditionsAgree'
  BY <1>5, OtherConditions, Zenon
<1>7. CASE name = "-lt"
  <2>1. Yes' <=> Holds(name, NumberOrder(t, a))
    BY <1>1, SaysIs
  <2>2. Holds(name, NumberOrder(t, a)) <=> NumberOrder(t, a) < 0
    BY <1>7, HoldsIs, Zenon
  <2>3. Yes' <=> l - r < 0
    BY <1>3, <2>1, <2>2
  <2>4. l - r < 0 <=> \E d \in 1..(2 * Half) : l + d = r
    <3>1. l - r < 0 => r - l \in 1..(2 * Half) /\ l + (r - l) = r
      BY <1>2 DEF Ints, IntMin, IntMax
    <3>2. ASSUME NEW d \in 1..(2 * Half), l + d = r PROVE l - r < 0
      BY <1>2, <3>2
    <3> QED BY <3>1, <3>2
  <2> QED BY <1>4, <1>5, <1>6, <1>7, <2>3, <2>4, LessAgrees DEF TestsAgree
<1>8. CASE name = "-gt"
  <2>1. Yes' <=> Holds(name, NumberOrder(t, a))
    BY <1>1, SaysIs
  <2>2. Holds(name, NumberOrder(t, a)) <=> NumberOrder(t, a) > 0
    BY <1>8, HoldsIs, Zenon
  <2>3. Yes' <=> l - r > 0
    BY <1>3, <2>1, <2>2
  <2>4. l - r > 0 <=> \E d \in 1..(2 * Half) : r + d = l
    <3>1. l - r > 0 => l - r \in 1..(2 * Half) /\ r + (l - r) = l
      BY <1>2 DEF Ints, IntMin, IntMax
    <3>2. ASSUME NEW d \in 1..(2 * Half), r + d = l PROVE l - r > 0
      BY <1>2, <3>2
    <3> QED BY <3>1, <3>2
  <2> QED BY <1>4, <1>5, <1>6, <1>8, <2>3, <2>4, GreaterAgrees DEF TestsAgree
<1>9. CASE name \notin {"-lt", "-gt"}
  <2>1. NumbersAgree'
    BY <1>4, <1>5, <1>9, OtherNumbers, Zenon
  <2> QED BY <1>6, <2>1 DEF TestsAgree
<1> QED BY <1>7, <1>8, <1>9

\* strcmp is 0 only for equal texts, and turns its sign with its arguments.
LEMMA StrcmpIs ==
    ASSUME NEW s \in Seq(Int), NEW t \in Seq(Int)
    PROVE  /\ strcmp(s, t) = 0 => s = t
           /\ strcmp(s, t) \in Int /\ strcmp(t, s) = -strcmp(s, t)
<1> DEFINE m == Len(s)
           k == Len(t)
           top == Least(m, k)
           differ == {n \in 1..top : s[n] # t[n]}
           at == CHOOSE n \in differ : \A j \in differ : n <= j
<1>1. strcmp(s, t) = IF differ = {} THEN m - k ELSE s[at] - t[at]
  BY DEF strcmp
<1>2. strcmp(t, s) = IF differ = {} THEN k - m ELSE t[at] - s[at]
  <2> DEFINE other == {n \in 1..Least(k, m) : t[n] # s[n]}
  <2>1. Least(k, m) = top
    BY DEF Least
  <2>2. other = differ
    BY <2>1
  <2>3. strcmp(t, s) = LET n == CHOOSE n \in other : \A j \in other : n <= j
                       IN  IF other = {} THEN k - m ELSE t[n] - s[n]
    BY DEF strcmp
  <2> HIDE DEF other, differ
  <2> QED BY <2>2, <2>3
<1>3. m \in Nat /\ k \in Nat /\ top \in Nat /\ top <= m /\ top <= k /\ (m = k => top = m)
  BY DEF Least
<1> HIDE DEF top
<1>4. CASE differ = {}
  <2>1. \A n \in 1..top : s[n] = t[n]
    BY <1>4
  <2>2. ASSUME m = k PROVE s = t
    BY <1>3, <2>1, <2>2, SeqEqual
  <2> QED BY <1>1, <1>2, <1>3, <1>4, <2>2
<1>5. CASE differ # {}
  <2>1. \E n \in differ : \A j \in differ : n <= j
    <3>1. differ \in SUBSET Nat
      BY <1>3
    <3> HIDE DEF differ
    <3> QED BY <1>5, <3>1, LeastIn
  <2>2. at \in differ
    BY <2>1
  <2> HIDE DEF at
  <2>3. at \in 1..m /\ at \in 1..k /\ s[at] # t[at]
    BY <1>3, <2>2
  <2>4. s[at] \in Int /\ t[at] \in Int
    BY <2>3
  <2>5. strcmp(s, t) = s[at] - t[at] /\ strcmp(t, s) = t[at] - s[at]
    BY <1>1, <1>2, <1>5
  <2> DEFINE x == s[at]
             y == t[at]
  <2>6. x \in Int /\ y \in Int /\ x # y /\ strcmp(s, t) = x - y /\ strcmp(t, s) = y - x
    BY <2>3, <2>4, <2>5
  <2> HIDE DEF x, y, differ
  <2> QED BY <2>6
<1> QED BY <1>4, <1>5

\* Ignoring case makes texts of texts.
LEMMA CasedIs ==
    ASSUME NEW t \in Seq(Nat), NEW ignore \in BOOLEAN
    PROVE  Cased(t, ignore) \in Seq(Int)
<1>1. CASE ignore
  <2> DEFINE c == [n \in 1..Len(t) |-> tolower(t[n])]
  <2>1. \A n \in 1..Len(t) : tolower(t[n]) \in Int
    BY DEF tolower
  <2>2. c \in Seq(Int)
    BY <2>1
  <2> QED BY <1>1, <2>2 DEF Cased
<1>2. CASE ~ignore
  BY <1>2 DEF Cased
<1> QED BY <1>1, <1>2

\* The conditions about texts.
LEMMA TextsKeep == ASSUME cmd_condition_texts PROVE TestsAgree'
<1>1. PICK name \in {"=", "!=", "-slt", "-sgt", "-sle", "-sge"}, t \in Compared, a \in Compared, ignore \in BOOLEAN :
        Says([name |-> name, text |-> t, arg |-> a, ignore |-> ignore], Holds(name, Order(t, a, ignore)))
  BY DEF cmd_condition_texts
<1> DEFINE o == Order(t, a, ignore)
           s == Cased(t, ignore)
           u == Cased(a, ignore)
<1>2. s \in Seq(Int) /\ u \in Seq(Int)
  BY CasedIs, TextsAssumption
<1>3. o = strcmp(s, u) /\ Order(a, t, ignore) = strcmp(u, s)
  BY DEF Order
<1> HIDE DEF o
<1>4. o \in Int /\ (o = 0 => s = u) /\ Order(a, t, ignore) = -o
  <2> HIDE DEF s, u
  <2> QED BY <1>2, <1>3, StrcmpIs
<1>5. alive' /\ typed' = [name |-> name, text |-> t, arg |-> a, ignore |-> ignore]
  BY <1>1 DEF Says, Typed, Called
<1>6. typed'.name = name /\ typed'.text = t /\ typed'.arg = a /\ typed'.ignore = ignore
  BY <1>5
<1>7. NumbersAgree'
  BY <1>5, <1>6, OtherNumbers, Zenon
<1>8. CASE name = "="
  <2>1. Yes' <=> Holds(name, o)
    BY <1>1, SaysIs DEF o
  <2>2. Holds(name, o) <=> o = 0
    BY <1>8, HoldsIs, Zenon
  <2>3. Yes' <=> o = 0
    BY <2>1, <2>2, Zenon
  <2>4. o = 0 => Cased(t, TRUE) = Cased(a, TRUE)
    BY <1>4 DEF Cased
  <2> QED BY <1>6, <1>7, <1>8, <2>3, <2>4, EqualAgrees DEF TestsAgree
<1>9. CASE name = "-slt"
  <2>1. Yes' <=> Holds(name, o)
    BY <1>1, SaysIs DEF o
  <2>2. Holds(name, o) <=> o < 0
    BY <1>9, HoldsIs, Zenon
  <2>3. Yes' <=> o < 0
    BY <2>1, <2>2, Zenon
  <2>4. o < 0 => Order(a, t, ignore) > 0
    BY <1>4
  <2>5. ASSUME o < 0 PROVE t # a
    <3> SUFFICES ASSUME t = a PROVE FALSE
      OBVIOUS
    <3>1. Order(a, t, ignore) = o
      BY DEF o
    <3> QED BY <1>4, <2>5, <3>1
  <2> QED BY <1>6, <1>7, <1>9, <2>3, <2>4, <2>5, BeforeAgrees DEF TestsAgree
<1>10. CASE name \notin {"=", "-slt"}
  <2>1. ConditionsAgree'
    BY <1>6, <1>10, OtherConditions, Zenon
  <2> QED BY <1>7, <2>1 DEF TestsAgree
<1> QED BY <1>8, <1>9, <1>10

\* What is known of a item.
LEMMA FileIs ==
    ASSUME NEW path \in DOMAIN Files
    PROVE  /\ Files[path].kind \in FileKinds /\ Files[path].time \in Int
           /\ Files[path].kind = "missing" =>
                  Files[path].mode = {} /\ Files[path].owned = {} /\ Files[path].size = 0
<1> DEFINE item == Files[path]
<1>1. /\ item \in FileRecords
      /\ item.kind = "missing" => item = [NoFile EXCEPT !.link = item.link, !.time = item.time]
  BY FilesAssumption
<1>2. item.kind \in FileKinds /\ item.time \in Int
  BY <1>1 DEF FileRecords
<1>3. ASSUME item = [NoFile EXCEPT !.link = item.link, !.time = item.time]
      PROVE  item.mode = {} /\ item.owned = {} /\ item.size = 0
  <2> HIDE DEF item
  <2>1. \A l, t : LET g == [NoFile EXCEPT !.link = l, !.time = t]
                  IN  g.mode = {} /\ g.owned = {} /\ g.size = 0
    BY DEF NoFile
  <2> QED BY ZenonT(40), <1>3, <2>1
<1> QED BY <1>1, <1>2, <1>3

\* What Asked asks, by its name.
LEMMA AskedIs ==
    ASSUME NEW item
    PROVE  /\ Asked("-b", item) <=> item.kind = "block"
           /\ Asked("-c", item) <=> item.kind = "character"
           /\ Asked("-d", item) <=> item.kind = "directory"
           /\ Asked("-f", item) <=> item.kind = "regular"
           /\ Asked("-p", item) <=> item.kind = "fifo"
           /\ Asked("-S", item) <=> item.kind = "socket"
           /\ Asked("-g", item) <=> "S_ISGID" \in item.mode
           /\ Asked("-r", item) <=> "R_OK" \in item.mode
           /\ Asked("-O", item) <=> "user" \in item.owned
           /\ Asked("-e", item) <=> item.kind # "missing"
           /\ Asked("-s", item) <=> item.size > 0
BY Zenon DEF Asked

\* A item is of one kind, or missing.
LEMMA KindsAre ==
    ASSUME NEW path \in DOMAIN Files
    PROVE  /\ \A j, k \in Kinds : Asked(j, Files[path]) /\ Asked(k, Files[path]) => j = k
           /\ Asked("-e", Files[path]) <=> \E k \in Kinds : Asked(k, Files[path])
<1> DEFINE item == Files[path]
<1>1. item.kind \in FileKinds
  BY FileIs
<1> HIDE DEF item
<1>2. \A j, k \in Kinds : Asked(j, item) /\ Asked(k, item) => j = k
  BY AskedIs, Zenon DEF Kinds
<1>3. Asked("-e", item) => \E k \in Kinds : Asked(k, item)
  BY <1>1, AskedIs, Zenon DEF Kinds, FileKinds
<1>4. \A k \in Kinds : Asked(k, item) => Asked("-e", item)
  BY AskedIs, Zenon DEF Kinds
<1> QED BY <1>2, <1>3, <1>4 DEF item

\* Of what is missing nothing is answered yes.
LEMMA KnownIs ==
    ASSUME NEW path \in DOMAIN Files, NEW name \in {"-s", "-r", "-g", "-O"}, Asked(name, Files[path])
    PROVE  Asked("-e", Files[path])
<1> DEFINE item == Files[path]
<1>1. item.kind = "missing" => item.mode = {} /\ item.owned = {} /\ item.size = 0
  BY FileIs
<1> HIDE DEF item
<1>2. Asked(name, item)
  BY DEF item
<1>3. ~(0 > 0)
  OBVIOUS
<1>4. "S_ISGID" \notin {} /\ "R_OK" \notin {} /\ "user" \notin {}
  OBVIOUS
<1>5. item.kind # "missing"
  BY <1>1, <1>2, <1>3, <1>4, AskedIs, Zenon
<1>6. Asked("-e", item)
  BY <1>5, AskedIs, Zenon
<1> QED BY <1>6 DEF item

\* The conditions about a item.
LEMMA FileKeeps == ASSUME cmd_condition_file PROVE TestsAgree'
<1>1. PICK name \in Questions, path \in DOMAIN Files :
        Says([name |-> name, path |-> path], Asked(name, Files[path]))
  BY DEF cmd_condition_file
<1>2. alive' /\ typed' = [name |-> name, path |-> path]
  BY <1>1 DEF Says, Typed, Called
<1>3. typed'.name = name /\ typed'.path = path
  BY <1>2
<1>4. Yes' <=> Asked(name, Files[path])
  BY <1>1, SaysIs
<1>5. NumbersAgree'
  BY <1>2, <1>3, OtherNumbers, Zenon DEF Questions, Kinds
<1>6. CASE name \in Kinds
  <2>1. Yes' => \A k \in Kinds \ {typed'.name} : ~Asked(k, Files[typed'.path])
    BY <1>3, <1>4, <1>6, KindsAre, Zenon
  <2>2. ConditionsAgree'
    BY <1>3, <1>6, <2>1, KindAgrees, Zenon
  <2> QED BY <1>5, <2>2 DEF TestsAgree
<1>7. CASE name = "-e"
  <2> DEFINE some == \E k \in Kinds : Asked(k, Files[path])
  <2>3. Asked("-e", Files[path]) <=> some
    BY KindsAre, Zenon
  <2>4. Yes' <=> Asked("-e", Files[path])
    BY <1>4, <1>7, Zenon
  <2>1. Yes' <=> \E k \in Kinds : Asked(k, Files[typed'.path])
    BY <1>3, <2>3, <2>4, Zenon
  <2>2. ConditionsAgree'
    BY <1>3, <1>7, <2>1, ExistsAgrees, Zenon
  <2> QED BY <1>5, <2>2 DEF TestsAgree
<1>8. CASE name \in {"-s", "-r", "-g", "-O"}
  <2>1. Yes' => Asked("-e", Files[typed'.path])
    BY <1>3, <1>4, <1>8, KnownIs, Zenon
  <2>2. ConditionsAgree'
    BY <1>3, <1>8, <2>1, KnownAgrees, Zenon
  <2> QED BY <1>5, <2>2 DEF TestsAgree
<1>9. CASE name \notin Kinds \cup {"-e", "-s", "-r", "-g", "-O"}
  <2>1. ConditionsAgree'
    BY <1>3, <1>9, OtherConditions, Zenon DEF Questions, Kinds
  <2> QED BY <1>5, <2>1 DEF TestsAgree
<1> QED BY <1>6, <1>7, <1>8, <1>9, Zenon

\* The conditions about the times of two files.
LEMMA TimesKeep == ASSUME cmd_condition_times PROVE TestsAgree'
<1>1. PICK path \in DOMAIN Files, arg \in DOMAIN Files :
        LET l == Files[path]  r == Files[arg]
        IN  \/ Says([name |-> "-nt", path |-> path, arg |-> arg], Exists(l) /\ Exists(r) /\ l.time > r.time)
            \/ Says([name |-> "-ot", path |-> path, arg |-> arg], Exists(l) /\ Exists(r) /\ l.time < r.time)
            \/ Says([name |-> "-ef", path |-> path, arg |-> arg], FALSE)
  BY DEF cmd_condition_times
<1> DEFINE l == Files[path]  r == Files[arg]
<1>2. l.time \in Int
  BY FileIs
<1>3. CASE Says([name |-> "-nt", path |-> path, arg |-> arg], Exists(l) /\ Exists(r) /\ l.time > r.time)
  <2>1. alive' /\ typed' = [name |-> "-nt", path |-> path, arg |-> arg]
    BY <1>3 DEF Says, Typed, Called
  <2>2. typed'.name = "-nt" /\ typed'.path = path /\ typed'.arg = arg
    BY <2>1
  <2>3. Yes' => l.time > r.time
    BY <1>3, SaysIs
  <2>4. path = arg => ~Yes'
    BY <1>2, <2>3
  <2>5. ConditionsAgree'
    BY <2>2, <2>4, TimesAgree, Zenon
  <2>6. NumbersAgree'
    BY <2>1, <2>2, OtherNumbers, Zenon
  <2> QED BY <2>5, <2>6 DEF TestsAgree
<1>4. CASE Says([name |-> "-ot", path |-> path, arg |-> arg], Exists(l) /\ Exists(r) /\ l.time < r.time)
  <2>1. alive' /\ typed' = [name |-> "-ot", path |-> path, arg |-> arg]
    BY <1>4 DEF Says, Typed, Called
  <2>2. typed'.name = "-ot" /\ typed'.path = path /\ typed'.arg = arg
    BY <2>1
  <2>3. Yes' => l.time < r.time
    BY <1>4, SaysIs
  <2>4. path = arg => ~Yes'
    BY <1>2, <2>3
  <2>5. ConditionsAgree'
    BY <2>2, <2>4, TimesAgree, Zenon
  <2>6. NumbersAgree'
    BY <2>1, <2>2, OtherNumbers, Zenon
  <2> QED BY <2>5, <2>6 DEF TestsAgree
<1>5. CASE Says([name |-> "-ef", path |-> path, arg |-> arg], FALSE)
  <2>1. alive' /\ typed'.name = "-ef"
    BY <1>5 DEF Says, Typed, Called
  <2>2. NumbersAgree' /\ ConditionsAgree'
    BY <2>1, OtherNumbers, OtherConditions, Zenon
  <2> QED BY <2>2 DEF TestsAgree
<1> QED BY <1>1, <1>3, <1>4, <1>5

\* A part of a sequence.
LEMMA PartIs ==
    ASSUME NEW S, NEW s \in Seq(S), NEW m \in 1..(Len(s) + 1), NEW n \in (m - 1)..Len(s)
    PROVE  /\ SubSeq(s, m, n) \in Seq(S) /\ Len(SubSeq(s, m, n)) = (n - m) + 1
           /\ \A k \in 1..((n - m) + 1) : SubSeq(s, m, n)[k] = s[(m - 1) + k]
<1>1. CASE m <= n
  BY <1>1
<1>2. CASE ~(m <= n)
  <2>1. n = m - 1 /\ SubSeq(s, m, n) = <<>>
    BY <1>2
  <2> QED BY <2>1
<1> QED BY <1>1, <1>2

\* A place behind the first p of p + q, counted from there.
LEMMA OffsetIn ==
    ASSUME NEW p \in Nat, NEW q \in Nat, NEW i \in 1..(p + q), ~(i <= p)
    PROVE  i - p \in 1..q /\ p + (i - p) = i
OBVIOUS

\* Where a word is first found in a text: the parts before, in and behind it
\* are the text, and the word is nowhere before.
LEMMA FoundAt ==
    ASSUME NEW text \in Seq(Nat), NEW word \in Seq(Nat), NEW at \in 0..(Len(text) - Len(word)),
           SubSeq(text, at + 1, at + Len(word)) = word,
           \A n \in 0..(Len(text) - Len(word)) : SubSeq(text, n + 1, n + Len(word)) = word => at <= n
    PROVE  /\ FirstOf(text, at) \o word \o After(text, at + Len(word)) = text
           /\ Len(FirstOf(text, at)) = at
           /\ \A n \in 1..at : ~IsPrefix(word, After(FirstOf(text, at) \o word, n - 1))
<1> DEFINE S == Nat
           N == Len(text)
           k == Len(word)
           pre == SubSeq(text, 1, at)
           u == pre \o word
           post == SubSeq(text, (at + k) + 1, N)
<1>1. FirstOf(text, at) = pre /\ After(text, at + k) = post
  BY DEF FirstOf, After
<1>2. text \in Seq(S) /\ word \in Seq(S) /\ N \in Nat /\ k \in Nat /\ at \in Nat /\ at + k <= N
  OBVIOUS
<1>3. \A i \in 1..k : word[i] = text[at + i]
  <2> DEFINE v == SubSeq(text, at + 1, at + k)
  <2>1. v = word
    OBVIOUS
  <2>2. at + 1 \in 1..(N + 1) /\ at + k \in ((at + 1) - 1)..N /\ ((at + k) - (at + 1)) + 1 = k
        /\ (at + 1) - 1 = at
    BY <1>2
  <2> HIDE DEF S, N, k
  <2>3. \A i \in 1..(((at + k) - (at + 1)) + 1) : v[i] = text[((at + 1) - 1) + i]
    BY <1>2, <2>2, PartIs DEF N
  <2> HIDE DEF v
  <2> QED BY <2>1, <2>2, <2>3
<1> HIDE DEF S
<1>4. pre \in Seq(S) /\ Len(pre) = at /\ \A i \in 1..at : pre[i] = text[i]
  <2>1. 1 \in 1..(N + 1) /\ at \in (1 - 1)..N /\ (at - 1) + 1 = at
    BY <1>2
  <2> HIDE DEF N
  <2>2. /\ pre \in Seq(S) /\ Len(pre) = (at - 1) + 1
        /\ \A i \in 1..((at - 1) + 1) : pre[i] = text[(1 - 1) + i]
    BY <1>2, <2>1, PartIs DEF N
  <2> QED BY <1>2, <2>1, <2>2
<1>5. post \in Seq(S) /\ Len(post) = N - (at + k) /\ \A i \in 1..(N - (at + k)) : post[i] = text[(at + k) + i]
  <2> DEFINE b == (at + k) + 1
  <2>1. /\ b \in 1..(N + 1) /\ N \in (b - 1)..N /\ (N - b) + 1 = N - (at + k) /\ b - 1 = at + k
        /\ N = Len(text) /\ post = SubSeq(text, b, N)
    BY <1>2
  <2> HIDE DEF N, k, b, post
  <2>2. /\ post \in Seq(S) /\ Len(post) = (N - b) + 1
        /\ \A i \in 1..((N - b) + 1) : post[i] = text[(b - 1) + i]
    BY <1>2, <2>1, PartIs
  <2> QED BY <1>2, <2>1, <2>2
<1> HIDE DEF pre, post, N
<1>6. u \in Seq(S) /\ Len(u) = at + k /\ \A i \in 1..(at + k) : u[i] = text[i]
  <2>1. u \in Seq(S) /\ Len(u) = at + k
    <3>1. u \in Seq(S)
      BY <1>2, <1>4
    <3>2. Len(u) = Len(pre) + Len(word)
      <4>1. pre \in Seq(S) /\ word \in Seq(S)
        BY <1>2, <1>4
      <4> QED BY <4>1, ConcatProperties
    <3> QED BY <1>4, <3>1, <3>2
  <2>3. \A j \in 1..(Len(pre) + Len(word)) :
            u[j] = IF j <= Len(pre) THEN pre[j] ELSE word[j - Len(pre)]
    <3>1. pre \in Seq(S) /\ word \in Seq(S)
      BY <1>2, <1>4
    <3> QED BY <3>1, ConcatProperties
  <2>2. ASSUME NEW i \in 1..(at + k) PROVE u[i] = text[i]
    <3>1. CASE i <= at
      <4>1. i \in 1..at /\ u[i] = pre[i]
        BY <1>2, <1>4, <3>1
      <4> QED BY <1>4, <4>1
    <3>2. CASE ~(i <= at)
      <4>2. pre \in Seq(S) /\ word \in Seq(S) /\ k = Len(word) /\ Len(pre) = at
        BY <1>2, <1>4
      <4>3. i - at \in 1..k /\ at + (i - at) = i /\ i \in 1..(Len(pre) + Len(word))
        <5>1. at \in Nat /\ k \in Nat
          BY <1>2
        <5>2. i \in 1..(Len(pre) + Len(word))
          BY <4>2
        <5> HIDE DEF k
        <5>3. i - at \in 1..k /\ at + (i - at) = i
          BY <3>2, <5>1, OffsetIn
        <5> QED BY <5>2, <5>3
      <4>4. u[i] = IF i <= Len(pre) THEN pre[i] ELSE word[i - Len(pre)]
        <5> HIDE DEF u, k
        <5> QED BY <4>3, <2>3
      <4>1. i - at \in 1..k /\ at + (i - at) = i /\ u[i] = word[i - at]
        <5> HIDE DEF u, k
        <5> QED BY <3>2, <4>2, <4>3, <4>4
      <4> QED BY <1>3, <4>1
    <3> QED BY <3>1, <3>2
  <2> QED BY <2>1, <2>2
<1> HIDE DEF u
<1>7. u \o post = text
  <2> DEFINE w == u \o post
  <2>1. w \in Seq(S) /\ Len(w) = N
    BY <1>2, <1>5, <1>6
  <2>2. ASSUME NEW i \in 1..N PROVE w[i] = text[i]
    <3>1. CASE i <= at + k
      <4>1. i \in 1..(at + k) /\ w[i] = u[i]
        BY <1>2, <1>6, <3>1
      <4> QED BY <1>6, <4>1
    <3>2. CASE ~(i <= at + k)
      <4>1. i - (at + k) \in 1..(N - (at + k)) /\ (at + k) + (i - (at + k)) = i
        BY <1>2, <3>2
      <4>3. u \in Seq(S) /\ post \in Seq(S) /\ i \in 1..(Len(u) + Len(post)) /\ ~(i <= Len(u))
            /\ Len(u) = at + k
        <5> HIDE DEF k
        <5> QED BY <1>2, <1>5, <1>6, <3>2
      <4>4. w[i] = post[i - Len(u)]
        <5> HIDE DEF k
        <5> QED BY <4>3, ConcatProperties
      <4>2. w[i] = post[i - (at + k)]
        <5> HIDE DEF w, k
        <5> QED BY <4>3, <4>4
      <4> QED BY <1>5, <4>1, <4>2
    <3> QED BY <3>1, <3>2
  <2> HIDE DEF w
  <2>3. w = text
    BY <1>2, <2>1, <2>2, SeqEqual DEF N
  <2> QED BY <2>3 DEF w
<1>8. ASSUME NEW n \in 1..at, IsPrefix(word, After(u, n - 1)) PROVE FALSE
  <2> DEFINE rest == SubSeq(u, n, at + k)
             start == SubSeq(rest, 1, k)
             there == SubSeq(text, n, (n - 1) + k)
  <2>1. n \in 1..(Len(u) + 1) /\ at + k \in (n - 1)..Len(u) /\ n \in Nat /\ k <= ((at + k) - n) + 1
    BY <1>2, <1>6
  <2>2. After(u, n - 1) = rest
    <3>1. (n - 1) + 1 = n
      BY <2>1
    <3> QED BY <1>6, <3>1 DEF After
  <2> HIDE DEF k
  <2>3. /\ rest \in Seq(S) /\ Len(rest) = ((at + k) - n) + 1
        /\ \A i \in 1..(((at + k) - n) + 1) : rest[i] = u[(n - 1) + i]
    <3> DEFINE e == at + k
    <3>1. u \in Seq(S) /\ n \in 1..(Len(u) + 1) /\ e \in (n - 1)..Len(u)
      BY <1>6, <2>1
    <3> HIDE DEF e
    <3>2. /\ SubSeq(u, n, e) \in Seq(S) /\ Len(SubSeq(u, n, e)) = (e - n) + 1
          /\ \A i \in 1..((e - n) + 1) : SubSeq(u, n, e)[i] = u[(n - 1) + i]
      BY <3>1, PartIs
    <3> QED BY <3>2 DEF e
  <2> HIDE DEF rest
  <2>4. SubSeq(word, 1, k) = start
    BY <1>8, <2>2 DEF IsPrefix, k
  <2>5. SubSeq(word, 1, k) = word
    BY <1>2 DEF k
  <2>6. /\ start \in Seq(S) /\ Len(start) = (k - 1) + 1
        /\ \A i \in 1..((k - 1) + 1) : start[i] = rest[(1 - 1) + i]
    <3>1. 1 \in 1..(Len(rest) + 1) /\ k \in (1 - 1)..Len(rest)
      BY <1>2, <2>1, <2>3
    <3>2. rest \in Seq(S)
      BY <2>3
    <3> QED BY <3>1, <3>2, PartIs
  <2> HIDE DEF start
  <2>7. /\ there \in Seq(S) /\ Len(there) = (((n - 1) + k) - n) + 1
        /\ \A i \in 1..((((n - 1) + k) - n) + 1) : there[i] = text[(n - 1) + i]
    <3>1. n \in 1..(Len(text) + 1) /\ (n - 1) + k \in (n - 1)..Len(text)
      BY <1>2, <2>1 DEF N
    <3> QED BY <1>2, <3>1, PartIs
  <2> HIDE DEF there
  <2>8. Len(there) = k /\ Len(word) = k
    BY <1>2, <2>1, <2>7 DEF k
  <2>9. ASSUME NEW i \in 1..k PROVE there[i] = word[i]
    <3>1. i \in 1..((((n - 1) + k) - n) + 1) /\ i \in 1..(((at + k) - n) + 1) /\ (n - 1) + i \in 1..(at + k)
          /\ i \in 1..((k - 1) + 1) /\ (1 - 1) + i = i
      BY <1>2, <2>1
    <3>2. there[i] = text[(n - 1) + i] /\ u[(n - 1) + i] = text[(n - 1) + i]
      BY <1>6, <2>7, <3>1
    <3>3. rest[i] = u[(n - 1) + i] /\ start[i] = rest[i]
      BY <2>3, <2>6, <3>1
    <3> QED BY <2>4, <2>5, <3>2, <3>3
  <2>10. there = word
    BY <1>2, <2>7, <2>8, <2>9, SeqEqual
  <2>11. n - 1 \in 0..(N - k) /\ (n - 1) + 1 = n /\ ~(at <= n - 1)
    BY <1>2, <2>1
  <2>12. SubSeq(text, (n - 1) + 1, (n - 1) + k) = word
    BY <2>10, <2>11 DEF there
  <2>13. at <= n - 1
    BY <2>11, <2>12 DEF N, k
  <2> QED BY <2>11, <2>13
<1> QED BY <1>1, <1>4, <1>7, <1>8 DEF u

\* =~.
LEMMA ReKeeps == ASSUME cmd_condition_re PROVE TestsAgree'
<1>1. PICK text \in Searched, regex \in Regexes, offsets \in BOOLEAN :
        LET places == {n \in 0..(Len(text) - Len(regex)) : SubSeq(text, n + 1, n + Len(regex)) = regex}
            at == CHOOSE n \in places : \A m \in places : n <= m
            Line(n) == Decimal(str_pointer2kanjipos("kUtf8", text, n)) \o <<LF>>
        IN  /\ Typed([name |-> "=~", text |-> text, regex |-> regex, offsets |-> offsets])
            /\ returned' = TRUE
            /\ UNCHANGED <<var, alive>>
            /\ IF places = {}
               THEN /\ mRCode' = RCODE_NFUN_FALSE
                    /\ set' = Cleared(set)
                    /\ nextout' = <<>>
               ELSE /\ mRCode' = 0
                    /\ set' = MatchOf(text, regex, at)
                    /\ nextout' = IF offsets THEN Line(at) \o Line(at + Len(regex)) ELSE <<>>
  BY DEF cmd_condition_re
<1> DEFINE places == {n \in 0..(Len(text) - Len(regex)) : SubSeq(text, n + 1, n + Len(regex)) = regex}
           at == CHOOSE n \in places : \A m \in places : n <= m
<1>2. alive' /\ typed' = [name |-> "=~", text |-> text, regex |-> regex, offsets |-> offsets]
  BY <1>1 DEF Typed, Called
<1>3. typed'.name = "=~" /\ typed'.text = text /\ typed'.regex = regex
  BY <1>2
<1>4. NumbersAgree'
  BY <1>2, <1>3, OtherNumbers, Zenon
<1>5. IF places = {} THEN mRCode' = RCODE_NFUN_FALSE /\ set' = Cleared(set)
                     ELSE mRCode' = 0 /\ set' = MatchOf(text, regex, at)
  BY <1>1
<1>6. text \in Seq(Nat) /\ regex \in Seq(Nat)
  BY TextsAssumption
<1>7. CASE places = {}
  <2>1. ~Yes'
    BY <1>5, <1>7 DEF Yes, RCODE_NFUN_FALSE
  <2>2. set' = Unset
    BY <1>5, <1>7 DEF Cleared
  <2>3. ConditionsAgree'
    BY <1>3, <2>1, <2>2, MatchAgrees, Zenon
  <2> QED BY <1>4, <2>3 DEF TestsAgree
<1>8. CASE places # {}
  <2>1. \E n \in places : \A m \in places : n <= m
    <3>1. places \in SUBSET Nat
      BY <1>6
    <3> HIDE DEF places
    <3> QED BY <1>8, <3>1, LeastIn
  <2>2. at \in places /\ \A m \in places : at <= m
    BY <2>1
  <2>3. Yes' /\ set' = MatchOf(text, regex, at)
    BY <1>5, <1>8 DEF Yes
  <2> HIDE DEF at
  <2>4. /\ at \in 0..(Len(text) - Len(regex)) /\ SubSeq(text, at + 1, at + Len(regex)) = regex
        /\ \A n \in 0..(Len(text) - Len(regex)) : SubSeq(text, n + 1, n + Len(regex)) = regex => at <= n
    BY <2>2
  <2>5. /\ set'.PREMATCH = FirstOf(text, at) /\ set'.MATCH = regex
        /\ set'.POSTMATCH = After(text, at + Len(regex)) /\ set'.MATCH_NUMBER = 1
    BY <2>3 DEF MatchOf
  <2>6. set' # Unset
    <3>1. Unset.MATCH_NUMBER = 0
      BY DEF Unset
    <3> QED BY <2>5, <3>1
  <2>7. /\ FirstOf(text, at) \o regex \o After(text, at + Len(regex)) = text
        /\ Len(FirstOf(text, at)) = at
        /\ \A n \in 1..at : ~IsPrefix(regex, After(FirstOf(text, at) \o regex, n - 1))
    BY <1>6, <2>4, FoundAt
  <2>8. /\ set'.PREMATCH \o set'.MATCH \o set'.POSTMATCH = typed'.text
        /\ \A n \in 1..Len(set'.PREMATCH) :
               ~IsPrefix(typed'.regex, After(set'.PREMATCH \o set'.MATCH, n - 1))
    BY <1>3, <2>5, <2>7, Zenon
  <2>9. ConditionsAgree'
    BY <1>3, <2>3, <2>6, <2>8, MatchAgrees, Zenon
  <2> QED BY <1>4, <2>9 DEF TestsAgree
<1> QED BY <1>7, <1>8

-----------------------------------------------------------------------------
\* Every command keeps the agreement.
LEMMA TestsKeep == TestsAgree /\ [TestsNext]_testvars => TestsAgree'
<1> SUFFICES ASSUME TestsAgree, [TestsNext]_testvars PROVE TestsAgree'
  OBVIOUS
<1>1. CASE cmd_plusplus \/ cmd_minusminus
  BY <1>1, StepKeeps, OtherConditions, Zenon DEF TestsAgree
<1>2. CASE cmd_plus
  BY <1>2, PlusKeeps, OtherConditions, Zenon DEF TestsAgree
<1>3. CASE cmd_minus
  BY <1>3, MinusKeeps, OtherConditions, Zenon DEF TestsAgree
<1>4. CASE cmd_mult
  BY <1>4, MultKeeps, OtherConditions, Zenon DEF TestsAgree
<1>5. CASE cmd_div
  BY <1>5, DivKeeps, OtherConditions, Zenon DEF TestsAgree
<1>6. CASE cmd_mod
  BY <1>6, ModKeeps, OtherConditions, Zenon DEF TestsAgree
<1>7. CASE cmd_pow
  BY <1>7, PowKeeps, OtherConditions, Zenon DEF TestsAgree
<1>8. CASE cmd_abs
  BY <1>8, AbsKeeps, OtherConditions, Zenon DEF TestsAgree
<1>9. CASE cmd_condition_empty
  BY <1>9, EmptyKeeps
<1>10. CASE cmd_condition_texts
  BY <1>10, TextsKeep
<1>11. CASE cmd_condition_numbers
  BY <1>11, NumbersKeep
<1>12. CASE cmd_condition_file
  BY <1>12, FileKeeps
<1>13. CASE cmd_condition_times
  BY <1>13, TimesKeep
<1>14. CASE cmd_condition_re
  BY <1>14, ReKeeps
<1>15. CASE UNCHANGED testvars
  <2>1. /\ typed' = typed /\ nextout' = nextout /\ mRCode' = mRCode /\ returned' = returned
        /\ set' = set /\ alive' = alive
    BY <1>15 DEF testvars
  <2>2. NumbersAgree' <=> NumbersAgree
    BY <2>1 DEF NumbersAgree, Asks, Yes, L, R, Result
  <2>3. ConditionsAgree' <=> ConditionsAgree
    BY <2>1 DEF ConditionsAgree, Asks, Yes
  <2> QED BY <2>2, <2>3 DEF TestsAgree
<1> QED BY <1>1, <1>2, <1>3, <1>4, <1>5, <1>6, <1>7, <1>8, <1>9, <1>10, <1>11, <1>12, <1>13, <1>14, <1>15
        DEF TestsNext

\* What the commands that reckon and ask leave behind always agrees: numbers
\* fit together although they wrap, a question asked in two ways has one
\* answer, and the variables of =~ are those of its match (cmd_num.c,
\* cmd_condition.c).
THEOREM TestsAlwaysAgree == TestsSpec => []TestsAgree
<1>1. TestsInit => TestsAgree
  <2> SUFFICES ASSUME TestsInit PROVE TestsAgree
    OBVIOUS
  <2>1. alive /\ typed.name = "none"
    BY DEF TestsInit, NoneCalled
  <2>2. NumbersAgree
    BY <2>1, Zenon DEF NumbersAgree, Asks
  <2>3. ConditionsAgree
    BY <2>1, Zenon DEF ConditionsAgree, Asks, Kinds
  <2> QED BY <2>2, <2>3 DEF TestsAgree
<1>2. TestsAgree /\ [TestsNext]_testvars => TestsAgree'
  BY TestsKeep
<1> QED BY <1>1, <1>2, PTL DEF TestsSpec
-----------------------------------------------------------------------------
(* Directories.                                                            *)

\* A function on 0..N may be defined from its value at 0 and a step.
Steps(N, S) == [1..N -> [S -> S]]
Stepwise(f, N, S, first, Stride) ==
    f \in [0..N -> S] /\ f[0] = first /\ \A n \in 1..N : f[n] = Stride[n][f[n - 1]]

\* Such a function exists: the induction behind every recursive function here.
LEMMA FoldSteps ==
    ASSUME NEW N \in Nat, NEW S, NEW first \in S, NEW Stride \in Steps(N, S)
    PROVE  \E f : Stepwise(f, N, S, first, Stride)
<1> USE DEF Steps, Stepwise
<1> DEFINE Good(f, m) == f[0] = first /\ \A n \in 1..m : f[n] = Stride[n][f[n - 1]]
           T == {m \in 0..N : \E f \in [0..m -> S] : Good(f, m)}
<1>1. 0 \in T
  <2> DEFINE f == [n \in 0..0 |-> first]
  <2>1. f \in [0..0 -> S] /\ Good(f, 0)
    OBVIOUS
  <2> HIDE DEF f, Good
  <2> QED BY <2>1
<1>2. ASSUME NEW m \in 0..(N - 1), m \in T PROVE m + 1 \in T
  <2>1. PICK f \in [0..m -> S] : Good(f, m)
    BY <1>2
  <2> DEFINE v == Stride[m + 1][f[m]]
             g == [n \in 0..(m + 1) |-> IF n = m + 1 THEN v ELSE f[n]]
  <2>2. v \in S
    <3>1. m + 1 \in 1..N /\ f[m] \in S
      OBVIOUS
    <3> QED BY <3>1
  <2> HIDE DEF v
  <2>3. g \in [0..(m + 1) -> S]
    BY <2>2
  <2>4. g[0] = first
    <3>1. 0 \in 0..(m + 1) /\ 0 # m + 1
      OBVIOUS
    <3>2. g[0] = f[0]
      BY <3>1
    <3> QED BY <3>2, <2>1
  <2>5. ASSUME NEW n \in 1..(m + 1) PROVE g[n] = Stride[n][g[n - 1]]
    <3>1. CASE n = m + 1
      <4>1. g[n] = v /\ n - 1 = m /\ g[n - 1] = f[m]
        BY <3>1
      <4> QED BY <3>1, <4>1 DEF v
    <3>2. CASE n # m + 1
      <4>1. n \in 1..m /\ g[n] = f[n] /\ g[n - 1] = f[n - 1]
        BY <3>2
      <4> QED BY <4>1, <2>1
    <3> QED BY <3>1, <3>2
  <2>6. Good(g, m + 1)
    BY <2>4, <2>5
  <2>7. m + 1 \in 0..N
    OBVIOUS
  <2> HIDE DEF g, Good
  <2> QED BY <2>3, <2>6, <2>7
<1> HIDE DEF T
<1>3. 0..N \subseteq T
  BY <1>1, <1>2, Upto
<1>4. N \in T
  BY <1>3
<1> QED BY <1>4 DEF T

-----------------------------------------------------------------------------
\* Directories that may be left of those there were at first.
Tree(there) ==
    /\ there \subseteq Directories /\ <<>> \in there
    /\ \A d \in there \ {<<>>} : Front(d) \in there

\* Where a walk may be: in a directory with none closed above it, or nowhere.
Places(there) == {d \in there : Open(d)} \cup {Nowhere}

\* The first elements of a sequence.
LEMMA FirstPart ==
    ASSUME NEW S, NEW s \in Seq(S), NEW n \in 0..Len(s)
    PROVE  /\ SubSeq(s, 1, n) \in Seq(S) /\ Len(SubSeq(s, 1, n)) = n
           /\ \A k \in 1..n : SubSeq(s, 1, n)[k] = s[k]
<1>1. CASE n = 0
  BY <1>1
<1>2. CASE n # 0
  BY <1>2
<1> QED BY <1>1, <1>2

\* What is known of a directory.
LEMMA OfDirectory ==
    ASSUME NEW d \in Directories
    PROVE  /\ d \in Seq(STRING) /\ Len(d) \in Nat /\ d # Nowhere /\ d \notin DOMAIN Links
           /\ d # <<>> => /\ Front(d) \in Seq(STRING) /\ Len(Front(d)) = Len(d) - 1 /\ Len(d) > 0
                          /\ Last(d) \in STRING \ {"", ".", ".."}
                          /\ d = Append(Front(d), Last(d))
<1>1. d \in Seq(STRING) /\ Len(d) \in Nat /\ d # Nowhere /\ d \notin DOMAIN Links
  <2> DEFINE S == STRING
  <2>1. d \in Seq(S) /\ d # Nowhere /\ d \notin DOMAIN Links
    BY DirectoriesAssumption, LinksAssumption
  <2> HIDE DEF S
  <2>2. Len(d) \in Nat
    BY <2>1
  <2> QED BY <2>1, <2>2 DEF S
<1>2. ASSUME d # <<>>
      PROVE  /\ Front(d) \in Seq(STRING) /\ Len(Front(d)) = Len(d) - 1 /\ Len(d) > 0
             /\ Last(d) \in STRING \ {"", ".", ".."}
             /\ d = Append(Front(d), Last(d))
  <2>1. Last(d) \notin {"", ".", ".."}
    BY <1>2, DirectoriesAssumption
  <2> DEFINE S == STRING
  <2>2. d \in Seq(S)
    BY <1>1
  <2> HIDE DEF S
  <2>3. Len(d) > 0
    BY <1>2, <2>2
  <2>4. Front(d) \in Seq(S) /\ Len(Front(d)) = Len(d) - 1 /\ Last(d) \in S
    <3>1. Len(d) \in Nat \ {0} /\ Len(d) \in 1..Len(d) /\ Len(d) - 1 \in 0..Len(d)
      BY <2>2, <2>3
    <3>2. Last(d) \in S
      BY <2>2, <3>1 DEF Last
    <3>3. SubSeq(d, 1, Len(d) - 1) \in Seq(S) /\ Len(SubSeq(d, 1, Len(d) - 1)) = Len(d) - 1
      BY <2>2, <3>1, FirstPart
    <3> QED BY <3>2, <3>3 DEF Front
  <2>5. d = Append(Front(d), Last(d))
    <3>1. \A n \in 1..(Len(d) - 1) : Front(d)[n] = d[n]
      BY <2>2, <2>3 DEF Front
    <3> DEFINE t == Append(Front(d), Last(d))
    <3>2. t \in Seq(S) /\ Len(t) = Len(d)
      BY <2>3, <2>4
    <3>3. \A n \in 1..Len(d) : t[n] = d[n]
      BY <2>2, <2>3, <2>4, <3>1 DEF Last
    <3> HIDE DEF t
    <3> QED BY <2>2, <3>2, <3>3, SeqEqual DEF t
  <2> QED BY <2>1, <2>3, <2>4, <2>5 DEF S
<1> QED BY <1>1, <1>2

\* One step of a walk leads to such a place again.
LEMMA EnterStays ==
    ASSUME NEW there, Tree(there), NEW d \in Places(there), NEW name
    PROVE  Enter(there, d, name) \in Places(there)
<1>1. CASE d = Nowhere
  BY <1>1 DEF Enter
<1> DEFINE at == Append(d, name)
           to == IF at \in DOMAIN Links THEN Links[at] ELSE at
<1>2. CASE d \in there /\ Open(d)
  <2>1. d \in Directories /\ d \in Seq(STRING) /\ Len(d) \in Nat /\ d # Nowhere
    BY <1>2, OfDirectory DEF Tree
  <2>2. CASE name = "" \/ name = "." \/ d \in Closed
    BY <2>1, <2>2 DEF Enter, Places
  <2>3. CASE name = ".."
    <3>1. d # <<>> => Front(d) \in there /\ Open(Front(d))
      <4> SUFFICES ASSUME d # <<>> PROVE Front(d) \in there /\ Open(Front(d))
        OBVIOUS
      <4>1. Front(d) \in there /\ Front(d) \in Seq(STRING) /\ Len(Front(d)) = Len(d) - 1 /\ Len(d) > 0
        BY <1>2, <2>1, OfDirectory DEF Tree
      <4>2. ASSUME NEW n \in 0..(Len(Front(d)) - 1) PROVE SubSeq(Front(d), 1, n) \notin Closed
        <5>1. n \in 0..(Len(d) - 1) /\ n <= Len(d) - 1
          BY <2>1, <4>1
        <5> DEFINE S == STRING
        <5>2. d \in Seq(S)
          BY <2>1
        <5> HIDE DEF S
        <5>3. SubSeq(Front(d), 1, n) = SubSeq(d, 1, n)
          BY <4>1, <5>1, <5>2 DEF Front
        <5> QED BY <1>2, <5>1, <5>3 DEF Open
      <4> QED BY <4>1, <4>2 DEF Open
    <3>2. "" # ".." /\ "." # ".."
      OBVIOUS
    <3> QED BY <1>2, <2>1, <2>3, <3>1, <3>2 DEF Enter, Places
  <2>4. CASE name \notin {"", ".", ".."} /\ d \notin Closed
    <3>1. Enter(there, d, name) = IF to \in there THEN to ELSE Nowhere
      BY <2>1, <2>4 DEF Enter
    <3>2. CASE to \notin there
      BY <3>1, <3>2 DEF Places
    <3>3. CASE to \in there /\ at \in DOMAIN Links
      BY <3>1, <3>3, LinksAssumption DEF Places
    <3>4. CASE to \in there /\ at \notin DOMAIN Links
      <4>1. at \in there /\ at \in Seq(STRING)
        BY <3>4, OfDirectory DEF Tree
      <4>2. ASSUME NEW n \in 0..(Len(at) - 1) PROVE SubSeq(at, 1, n) \notin Closed
        <5> DEFINE S == STRING \cup {name}
        <5>1. d \in Seq(S) /\ name \in S
          BY <2>1
        <5> HIDE DEF S
        <5>2. Len(at) = Len(d) + 1 /\ \A k \in 1..Len(d) : at[k] = d[k]
          BY <5>1
        <5>3. at \in Seq(S)
          BY <5>1
        <5> HIDE DEF at
        <5>4. n \in 0..Len(d)
          BY <2>1, <5>2
        <5> DEFINE u == SubSeq(at, 1, n)  v == SubSeq(d, 1, n)
        <5>5. u \in Seq(S) /\ v \in Seq(S) /\ Len(u) = n /\ Len(v) = n
              /\ \A k \in 1..n : u[k] = at[k] /\ v[k] = d[k]
          BY <5>1, <5>2, <5>3, <5>4
        <5> HIDE DEF u, v
        <5>6. u = v
          <6>1. \A k \in 1..n : k \in 1..Len(d)
            BY <2>1, <5>4
          <6>2. \A k \in 1..Len(u) : u[k] = v[k]
            BY <5>2, <5>5, <6>1
          <6> QED BY <5>5, <6>2, SeqEqual
        <5>7. CASE n = Len(d)
          <6>1. v = d
            BY <2>1, <5>7 DEF v
          <6> QED BY <2>4, <5>6, <6>1 DEF u
        <5>8. CASE n # Len(d)
          <6>1. n \in 0..(Len(d) - 1)
            BY <2>1, <5>4, <5>8
          <6>2. v \notin Closed
            BY <1>2, <6>1 DEF Open, v
          <6> QED BY <5>6, <6>2 DEF u
        <5> QED BY <5>7, <5>8
      <4> QED BY <3>1, <3>4, <4>1, <4>2 DEF Places, Open
    <3> QED BY <3>2, <3>3, <3>4
  <2> QED BY <2>2, <2>3, <2>4
<1> QED BY <1>1, <1>2 DEF Places

-----------------------------------------------------------------------------
(* Walks, and where they lead.                                             *)

\* A path is walked from the root or from where one is; f says where the walk
\* is after each name.
Begin(from, path) == IF path[1] = "" /\ Len(path) > 1 THEN <<>> ELSE from
Goes(f, there, start, path) ==
    f[0] = start /\ \A n \in 1..Len(path) : f[n] = Enter(there, f[n - 1], path[n])
IsWalk(f, there, start, path) ==
    f \in [0..Len(path) -> Places(there)] /\ Goes(f, there, start, path)

\* There is one walk.
LEMMA WalkExists ==
    ASSUME NEW there, Tree(there), NEW start \in Places(there), NEW S, NEW path \in Seq(S)
    PROVE  \E f : IsWalk(f, there, start, path)
<1> DEFINE N == Len(path)
           V == Places(there)
           Stride == [n \in 1..N |-> [d \in V |-> Enter(there, d, path[n])]]
<1>1. N \in Nat
  OBVIOUS
<1>2. \A d \in V, n \in 1..N : Enter(there, d, path[n]) \in V
  BY EnterStays
<1> HIDE DEF V
<1>3. Stride \in Steps(N, V)
  BY <1>2 DEF Steps
<1>4. \A d \in V, n \in 1..N : Stride[n][d] = Enter(there, d, path[n])
  OBVIOUS
<1> HIDE DEF N, Stride
<1>5. PICK f : Stepwise(f, N, V, start, Stride)
  BY <1>1, <1>3, FoldSteps DEF V
<1>6. \A n \in 1..N : n - 1 \in 0..N /\ f[n - 1] \in V
  BY <1>1, <1>5 DEF Stepwise
<1>7. f \in [0..N -> V] /\ f[0] = start /\ \A n \in 1..N : f[n] = Stride[n][f[n - 1]]
  BY <1>5 DEF Stepwise
<1>8. \A n \in 1..N : f[n] = Enter(there, f[n - 1], path[n])
  BY <1>4, <1>6, <1>7
<1>9. IsWalk(f, there, start, path)
  BY <1>7, <1>8 DEF IsWalk, Goes, N, V
<1> QED BY <1>9

\* Two walks along a path from the same place are the same.
LEMMA OneWalk ==
    ASSUME NEW there, NEW start, NEW S, NEW path \in Seq(S),
           NEW f, NEW g, Goes(f, there, start, path), Goes(g, there, start, path)
    PROVE  \A n \in 0..Len(path) : f[n] = g[n]
<1> DEFINE T == {n \in 0..Len(path) : f[n] = g[n]}
<1>1. Len(path) \in Nat
  OBVIOUS
<1>2. 0 \in T
  BY <1>1 DEF Goes
<1>3. ASSUME NEW n \in 0..(Len(path) - 1), n \in T PROVE n + 1 \in T
  <2>1. n + 1 \in 1..Len(path) /\ n + 1 \in 0..Len(path) /\ (n + 1) - 1 = n
    BY <1>1
  <2>2. f[n + 1] = Enter(there, f[n], path[n + 1]) /\ g[n + 1] = Enter(there, g[n], path[n + 1])
    BY <2>1 DEF Goes
  <2> QED BY <1>3, <2>1, <2>2
<1> HIDE DEF T
<1>4. 0..Len(path) \subseteq T
  BY <1>1, <1>2, <1>3, Upto
<1> QED BY <1>4 DEF T

\* And Walk is where it ends.
LEMMA WalkIs ==
    ASSUME NEW there, Tree(there), NEW from, NEW S, NEW path \in Seq(S),
           NEW f, IsWalk(f, there, Begin(from, path), path)
    PROVE  Walk(there, from, path) = f[Len(path)]
<1> DEFINE N == Len(path)
           start == Begin(from, path)
           Made(h) == h = [n \in 0..N |-> IF n = 0 THEN start ELSE Enter(there, h[n - 1], path[n])]
           at == CHOOSE h : Made(h)
<1>1. N \in Nat
  OBVIOUS
<1>2. Walk(there, from, path) = at[N]
  BY DEF Walk, Begin
<1> HIDE DEF start
<1>3. Made(f)
  <2> DEFINE g == [n \in 0..N |-> IF n = 0 THEN start ELSE Enter(there, f[n - 1], path[n])]
  <2>1. f = [n \in 0..N |-> f[n]]
    BY DEF IsWalk
  <2>2. \A n \in 0..N : f[n] = g[n]
    BY <1>1 DEF IsWalk, Goes, start
  <2>3. f = g
    BY <2>1, <2>2
  <2> QED BY <2>3
<1>4. Made(at)
  BY <1>3
<1> HIDE DEF at
<1>5. Goes(at, there, start, path)
  <2>1. \A n \in 0..N : at[n] = IF n = 0 THEN start ELSE Enter(there, at[n - 1], path[n])
    BY <1>4, Zenon
  <2>2. 0 \in 0..N /\ \A n \in 1..N : n \in 0..N /\ n # 0
    BY <1>1
  <2> QED BY <2>1, <2>2 DEF Goes
<1>6. Goes(f, there, start, path)
  BY DEF IsWalk, start
<1>7. \A n \in 0..N : at[n] = f[n]
  BY <1>5, <1>6, OneWalk
<1> QED BY <1>1, <1>2, <1>7

\* So a walk ends in such a place.
LEMMA WalkEnds ==
    ASSUME NEW there, Tree(there), NEW from \in Places(there), NEW S, NEW path \in Seq(S)
    PROVE  Begin(from, path) \in Places(there) /\ Walk(there, from, path) \in Places(there)
<1>1. <<>> \in Places(there)
  <2>1. \A n \in 0..(Len(<<>>) - 1) : FALSE
    OBVIOUS
  <2> QED BY <2>1 DEF Tree, Places, Open
<1>2. Begin(from, path) \in Places(there)
  BY <1>1 DEF Begin
<1>3. PICK f : IsWalk(f, there, Begin(from, path), path)
  BY <1>2, WalkExists
<1>4. Walk(there, from, path) = f[Len(path)]
  BY <1>3, WalkIs
<1>5. Len(path) \in 0..Len(path)
  OBVIOUS
<1> QED BY <1>2, <1>3, <1>4, <1>5 DEF IsWalk

\* Where there are fewer directories a walk leads to the same place or nowhere.
LEMMA EnterFewer ==
    ASSUME NEW there, NEW fewer, fewer \subseteq there, NEW d, NEW name
    PROVE  /\ Enter(fewer, d, name) \in {Enter(there, d, name), Nowhere}
           /\ Enter(there, Nowhere, name) = Nowhere
BY DEF Enter

\* The same of a walk, name after name.
LEMMA WalkFewer ==
    ASSUME NEW there, Tree(there), NEW fewer, Tree(fewer), fewer \subseteq there,
           NEW from \in Places(fewer), NEW S, NEW path \in Seq(S)
    PROVE  Walk(fewer, from, path) \in {Walk(there, from, path), Nowhere}
<1> DEFINE start == Begin(from, path)
<1>1. from \in Places(there)
  BY DEF Places
<1>2. start \in Places(there) /\ start \in Places(fewer)
  BY <1>1, WalkEnds
<1>3. PICK f : IsWalk(f, there, start, path)
  BY <1>2, WalkExists
<1>4. PICK g : IsWalk(g, fewer, start, path)
  BY <1>2, WalkExists
<1>5. Walk(there, from, path) = f[Len(path)] /\ Walk(fewer, from, path) = g[Len(path)]
  BY <1>3, <1>4, WalkIs
<1> HIDE DEF start
<1> DEFINE T == {n \in 0..Len(path) : g[n] \in {f[n], Nowhere}}
<1>6. Len(path) \in Nat
  OBVIOUS
<1>7. 0 \in T
  BY <1>3, <1>4, <1>6 DEF IsWalk, Goes
<1>8. ASSUME NEW n \in 0..(Len(path) - 1), n \in T PROVE n + 1 \in T
  <2>1. n + 1 \in 1..Len(path) /\ n + 1 \in 0..Len(path) /\ (n + 1) - 1 = n
    BY <1>6
  <2>2. /\ f[n + 1] = Enter(there, f[n], path[n + 1])
        /\ g[n + 1] = Enter(fewer, g[n], path[n + 1])
    BY <1>3, <1>4, <2>1 DEF IsWalk, Goes
  <2>3. g[n + 1] \in {Enter(there, g[n], path[n + 1]), Nowhere}
        /\ Enter(there, Nowhere, path[n + 1]) = Nowhere
    BY <2>2, EnterFewer
  <2>4. g[n] = f[n] \/ g[n] = Nowhere
    BY <1>8
  <2> QED BY <2>1, <2>2, <2>3, <2>4
<1> HIDE DEF T
<1>9. 0..Len(path) \subseteq T
  BY <1>6, <1>7, <1>8, Upto
<1> QED BY <1>5, <1>6, <1>9 DEF T

\* Nobody comes back from nowhere.
LEMMA NowhereStays ==
    ASSUME NEW there, NEW start, NEW S, NEW path \in Seq(S),
           NEW f, Goes(f, there, start, path), f[Len(path)] # Nowhere
    PROVE  \A n \in 0..Len(path) : f[n] # Nowhere
<1> SUFFICES ASSUME NEW m \in 0..Len(path), f[m] = Nowhere PROVE FALSE
  OBVIOUS
<1> DEFINE T == {n \in 0..Len(path) : n < m \/ f[n] = Nowhere}
<1>1. Len(path) \in Nat
  OBVIOUS
<1>2. 0 \in T
  BY <1>1
<1>3. ASSUME NEW n \in 0..(Len(path) - 1), n \in T PROVE n + 1 \in T
  <2>1. n + 1 \in 1..Len(path) /\ n + 1 \in 0..Len(path) /\ (n + 1) - 1 = n
    BY <1>1
  <2>2. CASE n + 1 < m \/ n + 1 = m
    BY <2>1, <2>2
  <2>3. CASE m < n + 1
    <3>1. f[n] = Nowhere
      BY <1>3, <2>3
    <3>2. f[n + 1] = Enter(there, f[n], path[n + 1])
      BY <2>1 DEF Goes
    <3> QED BY <2>1, <3>1, <3>2, EnterFewer
  <2> QED BY <1>1, <2>2, <2>3
<1> HIDE DEF T
<1>4. 0..Len(path) \subseteq T
  BY <1>1, <1>2, <1>3, Upto
<1>5. Len(path) \in T /\ ~(Len(path) < m)
  BY <1>1, <1>4
<1> QED BY <1>5 DEF T

\* The directories on the way to one.
LEMMA OnTheWay ==
    ASSUME NEW there, Tree(there), NEW q \in there, Open(q), NEW n \in 0..Len(q)
    PROVE  /\ SubSeq(q, 1, n) \in Places(there) \cap there /\ SubSeq(q, 1, n) \in Seq(STRING)
           /\ n < Len(q) => Enter(there, SubSeq(q, 1, n), q[n + 1]) = SubSeq(q, 1, n + 1)
<1> DEFINE at(k) == SubSeq(q, 1, k)
           N == Len(q)
           T == {k \in 0..N : at(N - k) \in there}
           S == STRING
<1>1. q \in Seq(S) /\ N \in Nat
  BY OfDirectory DEF Tree
<1>2. \A d \in there \ {<<>>} : /\ Front(d) \in there /\ Len(Front(d)) = Len(d) - 1
                               /\ d \in Seq(S) /\ Front(d) \in Seq(S)
  BY OfDirectory DEF Tree
<1> HIDE DEF S
<1>3. \A k \in 0..N : at(k) \in Seq(S) /\ Len(at(k)) = k /\ \A m \in 1..k : at(k)[m] = q[m]
  BY <1>1, FirstPart
<1>4. at(N) = q
  BY <1>1
<1> HIDE DEF N, at
<1>5. \A k \in 1..N : Front(at(k)) = at(k - 1)
  <2> SUFFICES ASSUME NEW k \in 1..N PROVE Front(at(k)) = at(k - 1)
    OBVIOUS
  <2>1. k \in 0..N /\ k - 1 \in 0..N /\ k - 1 \in 0..k /\ 0 <= k - 1
    BY <1>1
  <2>2. at(k) \in Seq(S) /\ Len(at(k)) = k /\ \A m \in 1..k : at(k)[m] = q[m]
    BY <1>3, <2>1
  <2> DEFINE u == Front(at(k))
  <2>3. u \in Seq(S) /\ Len(u) = k - 1 /\ \A m \in 1..(k - 1) : u[m] = at(k)[m]
    BY <2>1, <2>2, FirstPart DEF Front
  <2> HIDE DEF u
  <2>4. \A m \in 1..(k - 1) : m \in 1..k
    BY <2>1
  <2>5. at(k - 1) \in Seq(S) /\ Len(at(k - 1)) = k - 1 /\ \A m \in 1..(k - 1) : at(k - 1)[m] = q[m]
    BY <1>3, <2>1
  <2>6. u = at(k - 1)
    BY <2>2, <2>3, <2>4, <2>5, SeqEqual
  <2> QED BY <2>6 DEF u
<1>6. 0 \in T
  BY <1>1, <1>4
<1>7. ASSUME NEW k \in 0..(N - 1), k \in T PROVE k + 1 \in T
  <2>1. N - k \in 1..N /\ N - k \in 0..N /\ (N - k) - 1 = N - (k + 1) /\ k + 1 \in 0..N
    BY <1>1
  <2>2. at(N - k) \in there /\ Len(at(N - k)) # 0
    BY <1>3, <1>7, <2>1
  <2>3. at(N - k) # <<>>
    BY <2>2
  <2>4. Front(at(N - k)) \in there
    BY <1>2, <2>2, <2>3
  <2>5. at(N - (k + 1)) \in there
    BY <1>5, <2>1, <2>4
  <2> QED BY <2>1, <2>5
<1> HIDE DEF T
<1>8. 0..N \subseteq T
  BY <1>1, <1>6, <1>7, Upto
<1>9. \A k \in 0..N : at(k) \in there
  <2> SUFFICES ASSUME NEW k \in 0..N PROVE at(k) \in there
    OBVIOUS
  <2>1. N - k \in 0..N /\ N - (N - k) = k
    BY <1>1
  <2>2. at(N - (N - k)) \in there
    BY <1>8, <2>1 DEF T
  <2> QED BY <2>1, <2>2
<1>10. n \in 0..N
  BY DEF N
<1>11. Open(at(n))
  <2> SUFFICES ASSUME NEW k \in 0..(Len(at(n)) - 1) PROVE SubSeq(at(n), 1, k) \notin Closed
    BY DEF Open
  <2>1. k \in 0..(N - 1) /\ k \in 0..N /\ k \in 0..n /\ k < n
    BY <1>1, <1>3, <1>10
  <2> DEFINE u == SubSeq(at(n), 1, k)
  <2>2. u \in Seq(S) /\ Len(u) = k /\ \A m \in 1..k : u[m] = at(n)[m]
    BY <1>3, <1>10, <2>1, FirstPart
  <2> HIDE DEF u
  <2>3. \A m \in 1..k : m \in 1..n
    BY <1>10, <2>1
  <2>4. \A m \in 1..k : u[m] = at(k)[m]
    BY <1>3, <1>10, <2>1, <2>2, <2>3
  <2>5. u = at(k)
    BY <1>3, <2>1, <2>2, <2>4, SeqEqual
  <2>6. at(k) \notin Closed
    BY <2>1 DEF Open, N, at
  <2> QED BY <2>5, <2>6 DEF u
<1>12. ASSUME n < N PROVE Enter(there, at(n), q[n + 1]) = at(n + 1)
  <2>1. n + 1 \in 0..N /\ n + 1 \in 1..N /\ (n + 1) - 1 = n /\ n \in 0..(N - 1)
    BY <1>1, <1>10, <1>12
  <2>2. at(n + 1) \in there \ {<<>>} /\ Len(at(n + 1)) = n + 1
    <3>1. at(n + 1) \in there /\ Len(at(n + 1)) = n + 1
      BY <1>3, <1>9, <2>1
    <3> QED BY <2>1, <3>1
  <2>3. Front(at(n + 1)) = at(n)
    BY <1>5, <2>1
  <2>4. Last(at(n + 1)) = q[n + 1]
    <3>1. at(n + 1)[n + 1] = q[n + 1]
      BY <1>3, <2>1
    <3> QED BY <2>2, <3>1 DEF Last
  <2>5. /\ at(n + 1) \notin DOMAIN Links /\ Last(at(n + 1)) \notin {"", ".", ".."}
        /\ at(n + 1) = Append(Front(at(n + 1)), Last(at(n + 1)))
    BY <2>2, OfDirectory DEF Tree
  <2>6. at(n) \notin Closed /\ at(n) # Nowhere
    <3>1. at(n) \notin Closed
      BY <2>1 DEF Open, N, at
    <3>2. at(n) \in Directories
      BY <1>9, <1>10 DEF Tree
    <3> QED BY <3>1, <3>2, OfDirectory
  <2> QED BY <2>2, <2>3, <2>4, <2>5, <2>6 DEF Enter
<1> QED BY <1>3, <1>9, <1>10, <1>11, <1>12 DEF Places, N, at, S

\* The walk from the root through a directory and on.
Continues(there, root, q, tail, f) ==
    \E h : /\ IsWalk(h, there, <<>>, (<<root>> \o q) \o tail)
           /\ \A n \in 0..Len(q) : h[1 + n] = SubSeq(q, 1, n)
           /\ \A n \in 0..Len(tail) : h[1 + Len(q) + n] = f[n]

\* Such a walk exists: from the root one gets to q by its own names.
LEMMA Continue ==
    ASSUME NEW there, Tree(there), NEW q \in there, Open(q), NEW S, q \in Seq(S),
           NEW root \in S, \A d : Enter(there, d, root) = d,
           NEW tail \in Seq(S), NEW f, IsWalk(f, there, q, tail)
    PROVE  Continues(there, root, q, tail, f)
<1> DEFINE K == Len(q)
           M == Len(tail)
           at(n) == SubSeq(q, 1, n)
           path == <<root>> \o q \o tail
           P == Places(there)
           h == [n \in 0..(1 + K + M) |-> IF n = 0 THEN <<>> ELSE IF n <= 1 + K THEN at(n - 1)
                                          ELSE f[n - 1 - K]]
<1>1. K \in Nat /\ M \in Nat
  OBVIOUS
<1>2. <<root>> \in Seq(S)
  OBVIOUS
<1>3. /\ path \in Seq(S) /\ Len(path) = 1 + K + M /\ path[1] = root
      /\ \A n \in 1..K : path[1 + n] = q[n]
      /\ \A n \in 1..M : path[1 + K + n] = tail[n]
  <2> DEFINE e == <<root>>  u == e \o q
  <2>1. e \in Seq(S) /\ Len(e) = 1 /\ e[1] = root
    BY <1>2
  <2> HIDE DEF e
  <2>2. /\ u \in Seq(S) /\ Len(u) = 1 + K /\ u[1] = root
        /\ \A n \in 1..K : u[1 + n] = q[n]
    <3>1. /\ u \in Seq(S) /\ Len(u) = Len(e) + Len(q)
          /\ \A n \in 1..(Len(e) + Len(q)) : u[n] = IF n <= Len(e) THEN e[n] ELSE q[n - Len(e)]
      BY <1>2, <2>1, ConcatProperties
    <3> HIDE DEF u
    <3>2. 1 \in 1..(Len(e) + Len(q)) /\ 1 <= Len(e)
      BY <1>1, <2>1
    <3>3. \A n \in 1..K : 1 + n \in 1..(Len(e) + Len(q)) /\ ~(1 + n <= Len(e)) /\ (1 + n) - Len(e) = n
      BY <1>1, <2>1
    <3> QED BY <2>1, <3>1, <3>2, <3>3
  <2> HIDE DEF u
  <2>3. /\ u \o tail \in Seq(S) /\ Len(u \o tail) = 1 + K + M
        /\ \A n \in 1..(1 + K) : (u \o tail)[n] = u[n]
        /\ \A n \in 1..M : (u \o tail)[1 + K + n] = tail[n]
    <3> DEFINE w == u \o tail
    <3>1. /\ w \in Seq(S) /\ Len(w) = Len(u) + Len(tail)
          /\ \A n \in 1..(Len(u) + Len(tail)) : w[n] = IF n <= Len(u) THEN u[n] ELSE tail[n - Len(u)]
      <4>1. u \in Seq(S)
        BY <2>2
      <4> QED BY <4>1, ConcatProperties
    <3> HIDE DEF w
    <3>2. \A n \in 1..(1 + K) : n \in 1..(Len(u) + Len(tail)) /\ n <= Len(u)
      BY <1>1, <2>2
    <3>3. \A n \in 1..M : /\ 1 + K + n \in 1..(Len(u) + Len(tail)) /\ ~(1 + K + n <= Len(u))
                          /\ (1 + K + n) - Len(u) = n
      BY <1>1, <2>2
    <3> QED BY <2>2, <3>1, <3>2, <3>3 DEF w
  <2>4. 1 \in 1..(1 + K) /\ \A n \in 1..K : 1 + n \in 1..(1 + K)
    BY <1>1
  <2>5. path = u \o tail
    BY DEF u, e
  <2> HIDE DEF path
  <2> QED BY <2>2, <2>3, <2>4, <2>5
<1>4. /\ \A n \in 0..K : at(n) \in P
      /\ \A n \in 0..(K - 1) : Enter(there, at(n), q[n + 1]) = at(n + 1)
  <2>1. \A n \in 0..K : /\ SubSeq(q, 1, n) \in P
                        /\ n < Len(q) => Enter(there, SubSeq(q, 1, n), q[n + 1]) = SubSeq(q, 1, n + 1)
    BY OnTheWay
  <2>2. \A n \in 0..(K - 1) : n \in 0..K /\ n < Len(q)
    BY <1>1
  <2> QED BY <2>1, <2>2
<1>5. at(0) = <<>> /\ at(K) = q /\ <<>> \in P
  <2>1. at(0) = <<>> /\ at(K) = q
    OBVIOUS
  <2>2. 0 \in 0..K
    BY <1>1
  <2> QED BY <1>4, <2>1, <2>2
<1>6. f \in [0..M -> P] /\ f[0] = q /\ \A n \in 1..M : f[n] = Enter(there, f[n - 1], tail[n])
  BY DEF IsWalk, Goes
<1> HIDE DEF at, P, K, M
<1>7. h \in [0..(1 + K + M) -> P]
  <2> SUFFICES ASSUME NEW n \in 0..(1 + K + M)
               PROVE  (IF n = 0 THEN <<>> ELSE IF n <= 1 + K THEN at(n - 1) ELSE f[n - 1 - K]) \in P
    OBVIOUS
  <2>1. CASE n = 0
    BY <1>5, <2>1
  <2>2. CASE n \in 1..(1 + K)
    <3>1. n - 1 \in 0..K
      BY <1>1, <2>2
    <3> QED BY <1>4, <2>2, <3>1
  <2>3. CASE n > 1 + K
    <3>1. n - 1 - K \in 0..M /\ n # 0 /\ ~(n <= 1 + K)
      BY <1>1, <2>3
    <3> QED BY <1>6, <3>1
  <2> QED BY <1>1, <2>1, <2>2, <2>3
<1>8. h[0] = <<>> /\ (\A n \in 0..K : h[1 + n] = at(n)) /\ \A n \in 0..M : h[1 + K + n] = f[n]
  <2>1. h[0] = <<>>
    BY <1>1
  <2>2. \A n \in 0..K : h[1 + n] = at(n)
    <3> SUFFICES ASSUME NEW n \in 0..K PROVE h[1 + n] = at(n)
      OBVIOUS
    <3>1. 1 + n \in 0..(1 + K + M) /\ 1 + n # 0 /\ 1 + n <= 1 + K /\ (1 + n) - 1 = n
      BY <1>1
    <3> QED BY <3>1
  <2>3. \A n \in 1..M : h[1 + K + n] = f[n]
    <3> SUFFICES ASSUME NEW n \in 1..M PROVE h[1 + K + n] = f[n]
      OBVIOUS
    <3>1. /\ 1 + K + n \in 0..(1 + K + M) /\ 1 + K + n # 0 /\ ~(1 + K + n <= 1 + K)
          /\ (1 + K + n) - 1 - K = n
      BY <1>1
    <3> QED BY <3>1
  <2>4. h[1 + K + 0] = f[0]
    <3>1. K \in 0..K /\ 1 + K + 0 = 1 + K
      BY <1>1
    <3>2. h[1 + K] = at(K)
      BY <2>2, <3>1
    <3> QED BY <1>5, <1>6, <3>1, <3>2
  <2>5. \A n \in 0..M : n = 0 \/ n \in 1..M
    BY <1>1
  <2> QED BY <2>1, <2>2, <2>3, <2>4, <2>5
<1> HIDE DEF h, path
<1>9. ASSUME NEW n \in 1..(1 + K + M) PROVE h[n] = Enter(there, h[n - 1], path[n])
  <2>1. CASE n = 1
    <3>1. 0 \in 0..K /\ 1 + 0 = 1 /\ 1 - 1 = 0
      BY <1>1
    <3>2. h[1] = at(0) /\ h[n - 1] = <<>>
      BY <1>8, <2>1, <3>1
    <3> QED BY <1>3, <1>5, <2>1, <3>2
  <2>2. CASE n \in 2..(1 + K)
    <3> DEFINE k == n - 2
    <3>1. /\ k \in 0..(K - 1) /\ k \in 0..K /\ k + 1 \in 0..K /\ k + 1 \in 1..K
          /\ n = 1 + (k + 1) /\ n - 1 = 1 + k
      BY <1>1, <2>2
    <3> HIDE DEF k
    <3>2. h[n] = at(k + 1) /\ h[n - 1] = at(k) /\ path[n] = q[k + 1]
      BY <1>3, <1>8, <3>1
    <3> QED BY <1>4, <3>1, <3>2
  <2>3. CASE n > 1 + K
    <3> DEFINE k == n - 1 - K
    <3>1. /\ k \in 1..M /\ k \in 0..M /\ k - 1 \in 0..M /\ n = 1 + K + k /\ n - 1 = 1 + K + (k - 1)
      BY <1>1, <2>3
    <3> HIDE DEF k
    <3>2. h[n] = f[k] /\ h[n - 1] = f[k - 1] /\ path[n] = tail[k]
      BY <1>3, <1>8, <3>1
    <3> QED BY <1>6, <3>1, <3>2
  <2> QED BY <1>1, <2>1, <2>2, <2>3
<1>10. IsWalk(h, there, <<>>, path)
  BY <1>3, <1>7, <1>8, <1>9 DEF IsWalk, Goes, P
<1> QED BY <1>8, <1>10 DEF Continues, at, K, M, path

-----------------------------------------------------------------------------
(* Shortening, and what a shortened path is.                               *)

\* What is kept of a path is never empty, and so says what is after each name.
Stacks(S) == [ok : BOOLEAN, path : Seq(S) \ {<<>>}]
Shortens(so, path) ==
    /\ so[1] = [ok |-> TRUE, path |-> <<path[1]>>]
    /\ \A n \in 2..Len(path) : so[n] = Shorten(so[n - 1], path[n])
IsShortening(so, S, path) == so \in [1..Len(path) -> Stacks(S)] /\ Shortens(so, path)

\* The sequence without its last element.
LEMMA FrontOf ==
    ASSUME NEW S, NEW s \in Seq(S), s # <<>>
    PROVE  /\ Front(s) \in Seq(S) /\ Len(Front(s)) = Len(s) - 1 /\ Len(s) \in Nat \ {0}
           /\ \A k \in 1..(Len(s) - 1) : Front(s)[k] = s[k]
<1>1. Len(s) \in Nat \ {0}
  OBVIOUS
<1>2. Len(s) - 1 \in 0..Len(s)
  BY <1>1
<1> QED BY <1>1, <1>2, FirstPart DEF Front

\* A name added or taken away leaves such a pair.
LEMMA ShortenStays ==
    ASSUME NEW S, NEW x \in Stacks(S), NEW name \in S
    PROVE  Shorten(x, name) \in Stacks(S)
<1>1. \/ Shorten(x, name) = x
      \/ Shorten(x, name) = [x EXCEPT !.path = Append(@, name)]
      \/ Shorten(x, name) = [ok |-> FALSE, path |-> x.path]
      \/ Len(x.path) # 1 /\ Shorten(x, name) = [x EXCEPT !.path = Front(@)]
  BY Zenon DEF Shorten
<1>2. x = [ok |-> x.ok, path |-> x.path] /\ x.ok \in BOOLEAN /\ x.path \in Seq(S) /\ x.path # <<>>
  BY DEF Stacks
<1>3. Append(x.path, name) \in Seq(S) \ {<<>>}
  BY <1>2, AppendProperties
<1>4. ASSUME Len(x.path) # 1 PROVE Front(x.path) \in Seq(S) \ {<<>>}
  <2> DEFINE t == Front(x.path)
  <2>1. t \in Seq(S) /\ Len(t) = Len(x.path) - 1 /\ Len(x.path) \in Nat
    BY <1>2, FrontOf
  <2> HIDE DEF t
  <2>2. Len(t) # 0
    BY <1>4, <2>1
  <2>3. t # <<>>
    BY <2>2
  <2> QED BY <2>1, <2>3 DEF t
<1>5. /\ [x EXCEPT !.path = Append(@, name)] = [ok |-> x.ok, path |-> Append(x.path, name)]
      /\ [x EXCEPT !.path = Front(@)] = [ok |-> x.ok, path |-> Front(x.path)]
  <2> DEFINE b == x.ok  t == x.path
  <2>1. x = [ok |-> b, path |-> t]
    BY <1>2
  <2> HIDE DEF b, t
  <2>2. /\ [x EXCEPT !.path = Append(@, name)] = [ok |-> b, path |-> Append(t, name)]
        /\ [x EXCEPT !.path = Front(@)] = [ok |-> b, path |-> Front(t)]
    <3> DEFINE y == [ok |-> b, path |-> t]
    <3>1. [y EXCEPT !.path = Append(@, name)] = [ok |-> b, path |-> Append(t, name)]
      OBVIOUS
    <3>2. [y EXCEPT !.path = Front(@)] = [ok |-> b, path |-> Front(t)]
      OBVIOUS
    <3>3. x = y
      BY <2>1
    <3> HIDE DEF y
    <3> QED BY <3>1, <3>2, <3>3, Zenon
  <2> QED BY <2>2 DEF b, t
<1>6. FALSE \in BOOLEAN
  OBVIOUS
<1>7. \A b \in BOOLEAN, t \in Seq(S) \ {<<>>} : [ok |-> b, path |-> t] \in Stacks(S)
  BY DEF Stacks
<1>8. x.path \in Seq(S) \ {<<>>}
  BY <1>2
<1>9. /\ [ok |-> FALSE, path |-> x.path] \in Stacks(S)
      /\ [x EXCEPT !.path = Append(@, name)] \in Stacks(S)
      /\ Len(x.path) # 1 => [x EXCEPT !.path = Front(@)] \in Stacks(S)
  <2>1. [ok |-> FALSE, path |-> x.path] \in Stacks(S)
    BY <1>6, <1>7, <1>8, Zenon
  <2>2. [ok |-> x.ok, path |-> Append(x.path, name)] \in Stacks(S)
    BY <1>2, <1>3, <1>7, Zenon
  <2>3. Len(x.path) # 1 => [ok |-> x.ok, path |-> Front(x.path)] \in Stacks(S)
    BY <1>2, <1>4, <1>7, Zenon
  <2> QED BY <1>5, <2>1, <2>2, <2>3, Zenon
<1> QED BY <1>1, <1>9, Zenon

\* There are such pairs for every path.
LEMMA ShorteningExists ==
    ASSUME NEW S, NEW path \in Seq(S), path # <<>>
    PROVE  \E so : IsShortening(so, S, path)
<1> DEFINE N == Len(path) - 1
           V == Stacks(S)
           first == [ok |-> TRUE, path |-> <<path[1]>>]
           Stride == [n \in 1..N |-> [x \in V |-> Shorten(x, path[n + 1])]]
<1>1. N \in Nat /\ Len(path) = N + 1 /\ 1 \in 1..Len(path)
  OBVIOUS
<1>2. first \in V
  <2>1. <<path[1]>> \in Seq(S) /\ <<path[1]>> # <<>> /\ TRUE \in BOOLEAN
    BY <1>1
  <2> QED BY <2>1 DEF Stacks
<1>3. \A x \in V, n \in 1..N : Shorten(x, path[n + 1]) \in V
  <2>1. \A n \in 1..N : path[n + 1] \in S
    BY <1>1
  <2> QED BY <2>1, ShortenStays
<1> HIDE DEF V, first
<1>4. Stride \in Steps(N, V)
  BY <1>3 DEF Steps
<1>5. \A x \in V, n \in 1..N : Stride[n][x] = Shorten(x, path[n + 1])
  OBVIOUS
<1> HIDE DEF N, Stride
<1>6. PICK f : Stepwise(f, N, V, first, Stride)
  BY <1>1, <1>2, <1>4, FoldSteps
<1> DEFINE so == [n \in 1..Len(path) |-> f[n - 1]]
<1>7. f \in [0..N -> V] /\ f[0] = first /\ \A n \in 1..N : f[n] = Stride[n][f[n - 1]]
  BY <1>6 DEF Stepwise
<1>8. so \in [1..Len(path) -> V]
  <2>1. \A n \in 1..Len(path) : n - 1 \in 0..N
    BY <1>1
  <2> QED BY <1>7, <2>1
<1>9. so[1] = first
  BY <1>1, <1>7
<1>10. ASSUME NEW n \in 2..Len(path) PROVE so[n] = Shorten(so[n - 1], path[n])
  <2> DEFINE k == n - 1
  <2>1. /\ k \in 1..N /\ k - 1 \in 0..N /\ n = k + 1 /\ n - 1 = k
        /\ n \in 1..Len(path) /\ k \in 1..Len(path)
    BY <1>1
  <2> HIDE DEF k
  <2>2. so[n] = f[k] /\ so[n - 1] = f[k - 1] /\ path[n] = path[k + 1] /\ f[k - 1] \in V
    BY <1>7, <2>1
  <2> HIDE DEF so
  <2> QED BY <1>5, <1>7, <2>1, <2>2
<1> HIDE DEF so
<1> QED BY <1>8, <1>9, <1>10 DEF IsShortening, Shortens, V, first

\* And NoDotDot is the last of them.
LEMMA NoDotDotIs ==
    ASSUME NEW S, NEW path \in Seq(S), path # <<>>, NEW so, IsShortening(so, S, path)
    PROVE  NoDotDot(path) = so[Len(path)]
<1> DEFINE N == Len(path)
           first == [ok |-> TRUE, path |-> <<path[1]>>]
           Made(h) == h = [n \in 1..N |-> IF n = 1 THEN first ELSE Shorten(h[n - 1], path[n])]
           at == CHOOSE h : Made(h)
<1>1. N \in Nat \ {0}
  OBVIOUS
<1>2. NoDotDot(path) = at[N]
  BY DEF NoDotDot
<1> HIDE DEF first
<1>3. Made(so)
  <2> DEFINE g == [n \in 1..N |-> IF n = 1 THEN first ELSE Shorten(so[n - 1], path[n])]
  <2>1. so = [n \in 1..N |-> so[n]]
    BY DEF IsShortening
  <2>2. \A n \in 1..N : so[n] = g[n]
    <3>1. \A n \in 1..N : n = 1 \/ n \in 2..N
      BY <1>1
    <3>2. so[1] = first /\ \A n \in 2..N : so[n] = Shorten(so[n - 1], path[n])
      BY DEF IsShortening, Shortens, first
    <3> QED BY <3>1, <3>2
  <2>3. so = g
    BY <2>1, <2>2
  <2> QED BY <2>3
<1>4. Made(at)
  BY <1>3
<1> HIDE DEF at
<1>5. \A n \in 1..N : at[n] = IF n = 1 THEN first ELSE Shorten(at[n - 1], path[n])
  BY <1>4, Zenon
<1> DEFINE T == {n \in 0..(N - 1) : at[n + 1] = so[n + 1]}
<1>6. 0 \in T
  <2>1. 1 \in 1..N /\ 0 + 1 = 1 /\ 0 \in 0..(N - 1)
    BY <1>1
  <2>2. at[1] = so[1]
    BY <1>5, <2>1 DEF IsShortening, Shortens, first
  <2> QED BY <2>1, <2>2
<1>7. ASSUME NEW n \in 0..((N - 1) - 1), n \in T PROVE n + 1 \in T
  <2> DEFINE k == n + 2
  <2>1. /\ k \in 2..N /\ k \in 1..N /\ k # 1 /\ k - 1 = n + 1 /\ (n + 1) + 1 = k /\ n + 1 \in 0..(N - 1)
    BY <1>1
  <2> HIDE DEF k
  <2>2. at[k] = Shorten(at[k - 1], path[k])
    BY <1>5, <2>1
  <2>3. so[k] = Shorten(so[k - 1], path[k])
    BY <2>1 DEF IsShortening, Shortens
  <2>4. at[k - 1] = so[k - 1]
    BY <1>7, <2>1
  <2> QED BY <2>1, <2>2, <2>3, <2>4
<1> HIDE DEF T
<1>8. N - 1 \in Nat
  BY <1>1
<1>9. 0..(N - 1) \subseteq T
  BY <1>6, <1>7, <1>8, Upto
<1>10. N - 1 \in T /\ (N - 1) + 1 = N
  BY <1>8, <1>9
<1> QED BY <1>2, <1>10 DEF T

\* What is appended to, or taken from, the end of a path behind its first name.
IsBehind(S, r, d) ==
    /\ <<r>> \o d \in Seq(S) /\ Len(<<r>> \o d) = 1 + Len(d) /\ (<<r>> \o d)[1] = r
    /\ \A name \in S : Append(<<r>> \o d, name) = <<r>> \o Append(d, name)
    /\ d # <<>> => Front(<<r>> \o d) = <<r>> \o Front(d)

\* A name in front changes nothing of what happens at the end.
LEMMA Behind ==
    ASSUME NEW S, NEW r \in S, NEW d \in Seq(S)
    PROVE  IsBehind(S, r, d)
<1> DEFINE e == <<r>>
           u == e \o d
<1>1. e \in Seq(S) /\ Len(e) = 1 /\ e[1] = r /\ Len(d) \in Nat
  OBVIOUS
<1> HIDE DEF e
<1>2. /\ u \in Seq(S) /\ Len(u) = 1 + Len(d)
      /\ \A n \in 1..(1 + Len(d)) : u[n] = IF n <= 1 THEN e[n] ELSE d[n - 1]
  <2>1. /\ u \in Seq(S) /\ Len(u) = Len(e) + Len(d)
        /\ \A n \in 1..(Len(e) + Len(d)) : u[n] = IF n <= Len(e) THEN e[n] ELSE d[n - Len(e)]
    BY <1>1, ConcatProperties
  <2> HIDE DEF u
  <2> QED BY <1>1, <2>1
<1>3. u[1] = r
  BY <1>1, <1>2
<1>4. ASSUME NEW name \in S PROVE Append(u, name) = e \o Append(d, name)
  <2>1. <<name>> \in Seq(S)
    OBVIOUS
  <2>2. Append(u, name) = u \o <<name>> /\ Append(d, name) = d \o <<name>>
    BY <1>2, AppendIsConcat
  <2>3. (e \o d) \o <<name>> = e \o (d \o <<name>>)
    BY <1>1, <2>1, ConcatAssociative
  <2> QED BY <2>2, <2>3
<1>5. ASSUME d # <<>> PROVE Front(u) = e \o Front(d)
  <2> DEFINE t == Front(d)  v == e \o t  w == Front(u)
  <2>1. t \in Seq(S) /\ Len(t) = Len(d) - 1 /\ Len(d) > 0 /\ \A k \in 1..(Len(d) - 1) : t[k] = d[k]
    <3>1. Len(d) \in Nat \ {0}
      BY <1>5
    <3> QED BY <1>5, <3>1, FrontOf
  <2> HIDE DEF t
  <2>2. /\ v \in Seq(S) /\ Len(v) = Len(d)
        /\ \A n \in 1..Len(d) : v[n] = IF n <= 1 THEN e[n] ELSE t[n - 1]
    <3>1. /\ v \in Seq(S) /\ Len(v) = Len(e) + Len(t)
          /\ \A n \in 1..(Len(e) + Len(t)) : v[n] = IF n <= Len(e) THEN e[n] ELSE t[n - Len(e)]
      BY <1>1, <2>1, ConcatProperties
    <3>2. Len(e) + Len(t) = Len(d)
      BY <1>1, <2>1
    <3> HIDE DEF v
    <3> QED BY <1>1, <3>1, <3>2
  <2> HIDE DEF u, v
  <2>3. w \in Seq(S) /\ Len(w) = Len(d) /\ \A n \in 1..Len(d) : w[n] = u[n]
    <3>1. Len(u) # 0
      BY <1>1, <1>2
    <3>2. u # <<>>
      BY <3>1
    <3>3. Len(u) - 1 = Len(d)
      BY <1>1, <1>2
    <3> QED BY <1>2, <3>2, <3>3, FrontOf
  <2> HIDE DEF w
  <2>4. \A n \in 1..Len(d) : w[n] = v[n]
    <3> SUFFICES ASSUME NEW n \in 1..Len(d) PROVE w[n] = v[n]
      OBVIOUS
    <3>1. n \in 1..(1 + Len(d)) /\ (~(n <= 1) => n - 1 \in 1..(Len(d) - 1))
      BY <1>1
    <3>2. w[n] = u[n] /\ u[n] = (IF n <= 1 THEN e[n] ELSE d[n - 1])
      BY <1>2, <2>3, <3>1
    <3>3. v[n] = IF n <= 1 THEN e[n] ELSE t[n - 1]
      BY <2>2
    <3> QED BY <2>1, <3>1, <3>2, <3>3
  <2>5. w = v
    BY <2>2, <2>3, <2>4, SeqEqual
  <2> QED BY <2>5 DEF t, u, v, w
<1> QED BY <1>2, <1>3, <1>4, <1>5 DEF e, IsBehind

\* What is done with a name, in terms that need not look at it.
Up(name) == name = ".."

\* The cases of Shorten.
LEMMA ShortenBy ==
    ASSUME NEW S, NEW x \in Stacks(S), NEW name
    PROVE  /\ ~x.ok => Shorten(x, name) = x
           /\ x.ok /\ ~Up(name) => /\ Shorten(x, name).ok
                                   /\ Shorten(x, name).path = Append(x.path, name)
           /\ x.ok /\ Up(name) /\ Len(x.path) = 1 => ~Shorten(x, name).ok
           /\ x.ok /\ Up(name) /\ Len(x.path) # 1 => /\ Shorten(x, name).ok
                                                     /\ Shorten(x, name).path = Front(x.path)
<1>1. ASSUME ~x.ok PROVE Shorten(x, name) = x
  BY <1>1 DEF Shorten
<1> DEFINE Put(v) == [x EXCEPT !.path = v]
<1>2. \A v : Put(v).ok = x.ok /\ Put(v).path = v
  BY Zenon DEF Stacks
<1>3. ASSUME x.ok, ~Up(name) PROVE Shorten(x, name) = Put(Append(x.path, name))
  BY <1>3, Zenon DEF Shorten, Up
<1>4. ASSUME x.ok, Up(name), Len(x.path) = 1 PROVE Shorten(x, name) = [ok |-> FALSE, path |-> x.path]
  BY <1>4, Zenon DEF Shorten, Up
<1>5. ASSUME x.ok, Up(name), Len(x.path) # 1 PROVE Shorten(x, name) = Put(Front(x.path))
  BY <1>5, Zenon DEF Shorten, Up
<1> HIDE DEF Put
<1>6. ~[ok |-> FALSE, path |-> x.path].ok
  OBVIOUS
<1>7. ASSUME x.ok, ~Up(name) PROVE Shorten(x, name).ok /\ Shorten(x, name).path = Append(x.path, name)
  BY <1>2, <1>3, <1>7, Zenon
<1>8. ASSUME x.ok, Up(name), Len(x.path) = 1 PROVE ~Shorten(x, name).ok
  BY <1>4, <1>6, <1>8, Zenon
<1>9. ASSUME x.ok, Up(name), Len(x.path) # 1
      PROVE  Shorten(x, name).ok /\ Shorten(x, name).path = Front(x.path)
  BY <1>2, <1>5, <1>9, Zenon
<1> QED BY <1>1, <1>7, <1>8, <1>9, Zenon

\* Where a name that leads up leads.
LEMMA EnterUp ==
    ASSUME NEW there, NEW d, d # Nowhere, NEW name, Up(name), Enter(there, d, name) # Nowhere
    PROVE  Enter(there, d, name) = IF d = <<>> THEN d ELSE Front(d)
<1>1. name # "" /\ name # "." /\ name = ".."
  BY DEF Up
<1>2. d \notin Closed
  BY <1>1 DEF Enter
<1> QED BY <1>1, <1>2 DEF Enter

\* The names in front of one that leads up lead down, and not along a link.
Down(h, path) ==
    \A n \in 2..Len(path) : Up(path[n]) =>
        \A m \in 2..(n - 1) : ~Up(path[m]) => h[m] = Append(h[m - 1], path[m])

\* Up to a name that leads up, what is kept of a path from the root is the
\* directory the path has led to.
PastTop(h, path, k) == \E n \in 2..k : Up(path[n]) /\ h[n - 1] = <<>>

\* If it fails on the way, the walk has been at the root before such a name.
LEMMA KeptIs ==
    ASSUME NEW there, Tree(there), NEW S, NEW path \in Seq(S), path # <<>>,
           there \subseteq Seq(S), NEW h, IsWalk(h, there, <<>>, path), h[Len(path)] # Nowhere,
           \A d : Enter(there, d, path[1]) = d, Down(h, path),
           NEW so, IsShortening(so, S, path),
           NEW D \in 1..Len(path), D = 1 \/ Up(path[D])
    PROVE  \A k \in 1..D : IF so[k].ok THEN so[k].path = <<path[1]>> \o h[k] ELSE PastTop(h, path, k)
<1> DEFINE Length == Len(path)
           r == path[1]
           HoldsAt(k) == IF so[k].ok THEN so[k].path = <<r>> \o h[k] ELSE PastTop(h, path, k)
           T == {n \in 0..(D - 1) : HoldsAt(n + 1)}
<1>1. Length \in Nat \ {0} /\ 1 \in 1..Length /\ D \in Nat \ {0} /\ D - 1 \in Nat
  OBVIOUS
<1>2. \A n \in 0..Length : h[n] \in there /\ h[n] \in Seq(S) /\ h[n] # Nowhere
  <2>1. \A n \in 0..Length : h[n] # Nowhere
    BY NowhereStays DEF IsWalk
  <2>2. \A n \in 0..Length : h[n] \in Places(there)
    BY DEF IsWalk
  <2> QED BY <2>1, <2>2 DEF Places
<1>3. h[0] = <<>> /\ \A n \in 1..Length : h[n] = Enter(there, h[n - 1], path[n])
  BY DEF IsWalk, Goes
<1>4. h[1] = <<>>
  BY <1>1, <1>3
<1>5. /\ \A n \in 1..Length : so[n] \in Stacks(S)
      /\ so[1] = [ok |-> TRUE, path |-> <<r>>]
      /\ \A n \in 2..Length : so[n] = Shorten(so[n - 1], path[n])
  BY DEF IsShortening, Shortens
<1>6. r \in S /\ \A n \in 1..Length : path[n] \in S
  BY <1>1
<1> HIDE DEF r
<1>7. 0 \in T
  <2>1. <<r>> \in Seq(S)
    BY <1>6
  <2>2. <<r>> \o h[1] = <<r>>
    BY <1>4, <2>1, ConcatEmptySeq
  <2>3. so[1].ok /\ so[1].path = <<r>>
    BY <1>5
  <2>4. 0 + 1 = 1 /\ 0 \in 0..(D - 1)
    BY <1>1
  <2>5. HoldsAt(1)
    BY <2>2, <2>3
  <2> HIDE DEF HoldsAt
  <2> QED BY <2>4, <2>5
<1>8. ASSUME NEW n \in 0..((D - 1) - 1), n \in T PROVE n + 1 \in T
  <2> DEFINE k == n + 1
  <2>1. /\ k \in 1..Length /\ k \in 0..Length /\ k + 1 \in 2..Length /\ k + 1 \in 1..Length /\ k + 1 \in 0..Length
        /\ (k + 1) - 1 = k /\ k \in 0..(D - 1) /\ k + 1 \in 2..D /\ D \in 2..Length
    BY <1>1
  <2>2. HoldsAt(k)
    BY <1>8
  <2> HIDE DEF k
  <2> DEFINE x == so[k]  y == so[k + 1]  name == path[k + 1]
  <2>3. x \in Stacks(S) /\ y = Shorten(x, name) /\ name \in S
    BY <1>5, <1>6, <2>1
  <2>4. h[k + 1] = Enter(there, h[k], name) /\ h[k] \in Seq(S) /\ h[k] # Nowhere /\ h[k + 1] # Nowhere
    BY <1>2, <1>3, <2>1
  <2> DEFINE d == h[k]  u == <<r>> \o d
  <2>20. d \in Seq(S) /\ d # Nowhere
    BY <2>4
  <2> HIDE DEF d
  <2>21. /\ u \in Seq(S) /\ Len(u) = 1 + Len(d)
         /\ Append(u, name) = <<r>> \o Append(d, name)
         /\ d # <<>> => Front(u) = <<r>> \o Front(d)
    <3>1. r \in S /\ name \in S
      BY <1>6, <2>3
    <3> HIDE DEF name
    <3>2. /\ u \in Seq(S) /\ Len(u) = 1 + Len(d)
          /\ \A nn \in S : Append(u, nn) = <<r>> \o Append(d, nn)
          /\ d # <<>> => Front(u) = <<r>> \o Front(d)
      <4>1. IsBehind(S, r, d)
        BY <2>20, <3>1, Behind
      <4> QED BY <4>1 DEF IsBehind
    <3> QED BY <3>1, <3>2, Zenon
  <2>22. x.ok => x.path = u
    BY <2>2 DEF d
  <2>5. ASSUME ~x.ok PROVE HoldsAt(k + 1)
    <3>1. y = x
      BY <2>3, <2>5, ShortenBy
    <3>2. PastTop(h, path, k)
      BY <2>2, <2>5
    <3>3. PastTop(h, path, k + 1)
      BY <2>1, <3>2 DEF PastTop
    <3>4. ~y.ok
      BY <2>5, <3>1
    <3> QED BY <3>3, <3>4
  <2>6. ASSUME x.ok, ~Up(name) PROVE HoldsAt(k + 1)
    <3>1. y.ok /\ y.path = Append(x.path, name)
      BY <2>3, <2>6, ShortenBy
    <3>2. h[k + 1] = Append(h[k], name)
      <4>1. k + 1 # D
        BY <2>6, <2>1
      <4>2. k + 1 \in 2..(D - 1) /\ Up(path[D])
        BY <1>1, <2>1, <4>1
      <4> QED BY <2>1, <2>6, <4>2 DEF Down
    <3> QED BY <2>6, <2>21, <2>22, <3>1, <3>2 DEF d
  <2>7. ASSUME x.ok, Up(name) PROVE HoldsAt(k + 1)
    <3>1. x.path = u /\ Len(x.path) = 1 + Len(d) /\ Len(d) \in Nat
      BY <2>7, <2>20, <2>21, <2>22
    <3>2. CASE d = <<>>
      <4>1. Len(x.path) = 1
        BY <3>1, <3>2
      <4>2. ~y.ok
        BY <2>3, <2>7, <4>1, ShortenBy
      <4>3. PastTop(h, path, k + 1)
        <5>1. k + 1 \in 2..(k + 1) /\ h[(k + 1) - 1] = <<>>
          BY <2>1, <3>2 DEF d
        <5>2. Up(path[k + 1])
          BY <2>7
        <5> QED BY <5>1, <5>2, Zenon DEF PastTop
      <4> QED BY <4>2, <4>3
    <3>3. CASE d # <<>>
      <4>1. Len(x.path) # 1
        BY <2>20, <3>1, <3>3
      <4>2. y.ok /\ y.path = Front(x.path)
        BY <2>3, <2>7, <4>1, ShortenBy
      <4>3. h[k + 1] = Front(d)
        BY <2>4, <2>7, <3>3, EnterUp DEF d
      <4> QED BY <2>21, <3>1, <3>3, <4>2, <4>3
    <3> QED BY <3>2, <3>3
  <2>8. HoldsAt(k + 1)
    BY <2>5, <2>6, <2>7, Zenon
  <2> HIDE DEF HoldsAt
  <2> QED BY <2>1, <2>8 DEF k
<1> HIDE DEF T
<1>9. 0..(D - 1) \subseteq T
  BY <1>1, <1>7, <1>8, Upto
<1>10. ASSUME NEW k \in 1..D PROVE HoldsAt(k)
  <2>1. k - 1 \in 0..(D - 1) /\ (k - 1) + 1 = k
    BY <1>1
  <2> QED BY <1>9, <2>1 DEF T
<1> QED BY <1>10 DEF r

\* And after the last name that leads up every name is kept.
Between(s, m, n) == SubSeq(s, m, n)

\* A part of a sequence, and the same part with one element more.
LEMMA OneMore ==
    ASSUME NEW S, NEW s \in Seq(S), NEW m \in 1..Len(s), NEW n \in m..Len(s)
    PROVE  /\ Between(s, m + 1, n) \in Seq(S) /\ Len(Between(s, m + 1, n)) = n - m
           /\ \A k \in 1..(n - m) : Between(s, m + 1, n)[k] = s[m + k]
           /\ Between(s, m + 1, m) = <<>>
           /\ n < Len(s) => Between(s, m + 1, n + 1) = Append(Between(s, m + 1, n), s[n + 1])
<1> DEFINE u(k) == Between(s, m + 1, k)
<1>1. Len(s) \in Nat /\ m \in Int /\ m + 1 \in Int /\ n \in Int
  OBVIOUS
<1>2. \A k \in m..Len(s) : u(k) \in Seq(S) /\ Len(u(k)) = k - m /\ \A i \in 1..(k - m) : u(k)[i] = s[m + i]
  <2> SUFFICES ASSUME NEW k \in m..Len(s)
               PROVE  u(k) \in Seq(S) /\ Len(u(k)) = k - m /\ \A i \in 1..(k - m) : u(k)[i] = s[m + i]
    OBVIOUS
  <2>1. k \in Int /\ \A i \in (m + 1)..k : i \in 1..Len(s)
    BY <1>1
  <2>2. \A i \in (m + 1)..k : s[i] \in S
    BY <2>1
  <2>3. /\ SubSeq(s, m + 1, k) \in Seq(S)
        /\ Len(SubSeq(s, m + 1, k)) = IF m + 1 <= k THEN k - (m + 1) + 1 ELSE 0
        /\ \A i \in 1..(k - (m + 1) + 1) : SubSeq(s, m + 1, k)[i] = s[(m + 1) + i - 1]
    BY <1>1, <2>1, <2>2, SubSeqProperties
  <2> DEFINE v == SubSeq(s, m + 1, k)
  <2> HIDE DEF v
  <2>4. /\ (IF m + 1 <= k THEN k - (m + 1) + 1 ELSE 0) = k - m
        /\ k - (m + 1) + 1 = k - m /\ \A i \in 1..(k - m) : (m + 1) + i - 1 = m + i
    BY <1>1, <2>1
  <2>5. v \in Seq(S) /\ Len(v) = k - m /\ \A i \in 1..(k - m) : v[i] = s[m + i]
    BY <2>3, <2>4 DEF v
  <2> QED BY <2>5 DEF v, Between
<1>3. u(m) = <<>>
  <2>1. m < m + 1
    BY <1>1
  <2> QED BY <1>1, <2>1, SubSeqEmpty DEF Between
<1>4. ASSUME n < Len(s) PROVE u(n + 1) = Append(u(n), s[n + 1])
  <2> DEFINE a == u(n + 1)  b == u(n)  c == Append(b, s[n + 1])
  <2>1. n \in m..Len(s) /\ n + 1 \in m..Len(s) /\ n + 1 \in 1..Len(s) /\ (n + 1) - m = (n - m) + 1
    BY <1>1, <1>4
  <2>2. /\ a \in Seq(S) /\ Len(a) = (n - m) + 1 /\ \A i \in 1..((n + 1) - m) : a[i] = s[m + i]
        /\ b \in Seq(S) /\ Len(b) = n - m /\ \A i \in 1..(n - m) : b[i] = s[m + i]
    BY <1>2, <2>1
  <2> HIDE DEF a, b
  <2>3. /\ c \in Seq(S) /\ Len(c) = (n - m) + 1 /\ c[(n - m) + 1] = s[n + 1]
        /\ \A i \in 1..(n - m) : c[i] = b[i]
    <3>1. s[n + 1] \in S
      BY <2>1
    <3> QED BY <2>2, <3>1, AppendProperties
  <2> HIDE DEF c
  <2>4. ASSUME NEW i \in 1..((n - m) + 1) PROVE a[i] = c[i]
    <3>1. CASE i = (n - m) + 1
      <4>1. m + i = n + 1 /\ i \in 1..((n + 1) - m)
        BY <1>1, <3>1
      <4>2. a[i] = s[n + 1] /\ c[i] = s[n + 1]
        BY <2>2, <2>3, <3>1, <4>1
      <4> QED BY <4>2
    <3>2. CASE i # (n - m) + 1
      <4>1. i \in 1..(n - m) /\ i \in 1..((n + 1) - m)
        BY <1>1, <3>2
      <4> QED BY <2>2, <2>3, <4>1
    <3> QED BY <3>1, <3>2
  <2>5. a = c
    BY <2>2, <2>3, <2>4, SeqEqual
  <2> QED BY <2>5 DEF a, b, c
<1>5. n \in m..Len(s)
  OBVIOUS
<1> HIDE DEF u
<1>6. u(n) \in Seq(S) /\ Len(u(n)) = n - m /\ \A k \in 1..(n - m) : u(n)[k] = s[m + k]
  BY <1>2, <1>5
<1> QED BY <1>3, <1>4, <1>6 DEF u

\* Nothing behind the last name that leads up is taken away.
LEMMA RestIsKept ==
    ASSUME NEW S, NEW path \in Seq(S), path # <<>>, NEW so, IsShortening(so, S, path),
           NEW D \in 1..Len(path), \A k \in (D + 1)..Len(path) : ~Up(path[k])
    PROVE  \A k \in D..Len(path) :
              IF so[D].ok THEN so[k].ok /\ so[k].path = so[D].path \o Between(path, D + 1, k)
              ELSE ~so[k].ok
<1> DEFINE Length == Len(path)
           t(k) == Between(path, D + 1, k)
           HoldsAt(k) == IF so[D].ok THEN so[k].ok /\ so[k].path = so[D].path \o t(k) ELSE ~so[k].ok
           T == {n \in 0..(Length - D) : HoldsAt(D + n)}
<1>1. Length \in Nat \ {0} /\ D \in Nat \ {0} /\ Length - D \in Nat /\ D \in D..Length /\ D + 0 = D
  OBVIOUS
<1>2. /\ \A n \in 1..Length : so[n] \in Stacks(S)
      /\ \A n \in 2..Length : so[n] = Shorten(so[n - 1], path[n])
  BY DEF IsShortening, Shortens
<1>3. \A n \in 1..Length : path[n] \in S
  OBVIOUS
<1>4. /\ t(D) = <<>> /\ \A k \in D..Length : t(k) \in Seq(S)
      /\ \A k \in D..(Length - 1) : t(k + 1) = Append(t(k), path[k + 1])
  <2>1. \A k \in D..(Length - 1) : k \in D..Length /\ k < Length
    BY <1>1
  <2> QED BY ZenonT(40), <1>1, <2>1, OneMore
<1> HIDE DEF t
<1>5. so[D].path \in Seq(S)
  BY <1>2 DEF Stacks
<1>6. 0 \in T
  <2>1. so[D].path \o t(D) = so[D].path
    BY <1>4, <1>5, ConcatEmptySeq
  <2>2. HoldsAt(D)
    BY <2>1
  <2> HIDE DEF HoldsAt
  <2> QED BY <1>1, <2>2
<1>7. ASSUME NEW n \in 0..((Length - D) - 1), n \in T PROVE n + 1 \in T
  <2> DEFINE k == D + n
  <2>1. /\ k \in 1..Length /\ k + 1 \in 2..Length /\ k + 1 \in 1..Length /\ k + 1 \in (D + 1)..Length /\ k \in D..Length
        /\ k \in D..(Length - 1)
        /\ (k + 1) - 1 = k /\ n + 1 \in 0..(Length - D) /\ D + (n + 1) = k + 1
    BY <1>1
  <2>2. HoldsAt(k)
    BY <1>7
  <2> HIDE DEF k
  <2> DEFINE x == so[k]  y == so[k + 1]  name == path[k + 1]  p == so[D].path
  <2>3. x \in Stacks(S) /\ y = Shorten(x, name) /\ name \in S /\ ~Up(name)
    BY <1>2, <1>3, <2>1
  <2>4. ASSUME ~so[D].ok PROVE HoldsAt(k + 1)
    <3>1. ~x.ok
      BY <2>2, <2>4, Zenon
    <3>2. y = x
      BY <2>3, <3>1, ShortenBy
    <3> QED BY <2>4, <3>1, <3>2, Zenon
  <2>5. ASSUME so[D].ok PROVE HoldsAt(k + 1)
    <3>1. x.ok /\ x.path = p \o t(k)
      BY <2>2, <2>5, Zenon
    <3>2. y.ok /\ y.path = Append(x.path, name)
      <4>1. x.ok /\ ~Up(name) /\ x \in Stacks(S)
        BY <2>3, <3>1, Zenon
      <4>2. Shorten(x, name).ok /\ Shorten(x, name).path = Append(x.path, name)
        BY <4>1, ShortenBy
      <4> QED BY <2>3, <4>2, Zenon
    <3>3. t(k + 1) = Append(t(k), name) /\ t(k) \in Seq(S)
      BY <1>4, <2>1
    <3>4. Append(p \o t(k), name) = p \o Append(t(k), name)
      <4> DEFINE b == t(k)
      <4>1. p \in Seq(S) /\ b \in Seq(S) /\ name \in S
        BY <1>5, <2>3, <3>3
      <4> HIDE DEF b, p, name
      <4>2. <<name>> \in Seq(S) /\ p \o b \in Seq(S)
        BY <4>1
      <4>3. Append(p \o b, name) = (p \o b) \o <<name>> /\ Append(b, name) = b \o <<name>>
        BY <4>1, <4>2, AppendIsConcat
      <4>4. (p \o b) \o <<name>> = p \o (b \o <<name>>)
        BY SMTT(30), <4>1, <4>2, ConcatAssociative
      <4>5. Append(p \o b, name) = p \o Append(b, name)
        BY <4>3, <4>4
      <4> QED BY <4>5 DEF b
    <3>5. y.path = p \o t(k + 1)
      BY <3>1, <3>2, <3>3, <3>4
    <3> QED BY <2>5, <3>2, <3>5, Zenon
  <2>6. HoldsAt(k + 1)
    BY <2>4, <2>5, Zenon
  <2> HIDE DEF HoldsAt
  <2> QED BY <2>1, <2>6
<1> HIDE DEF T
<1>8. 0..(Length - D) \subseteq T
  BY <1>1, <1>6, <1>7, Upto
<1>9. ASSUME NEW k \in D..Length PROVE HoldsAt(k)
  <2>1. k - D \in 0..(Length - D) /\ D + (k - D) = k
    BY <1>1
  <2> QED BY <1>8, <2>1 DEF T
<1> QED BY <1>9 DEF t

\* There is a last name that leads up, or none.
LEMMA LastUp ==
    ASSUME NEW S, NEW path \in Seq(S), path # <<>>
    PROVE  \E D \in 1..Len(path) :
              (D = 1 \/ Up(path[D])) /\ \A k \in (D + 1)..Len(path) : ~Up(path[k])
<1> DEFINE Length == Len(path)
           T == {n \in 0..(Length - 1) : n = Length - 1 \/ Up(path[Length - n])}
<1>1. Length \in Nat \ {0}
  OBVIOUS
<1>2. Length - 1 \in T /\ T \in SUBSET Nat
  BY <1>1
<1>3. T # {}
  BY <1>2
<1>4. PICK n \in T : \A k \in T : n <= k
  BY <1>2, <1>3, LeastIn
<1> DEFINE D == Length - n
<1>5. D \in 1..Length /\ (D = 1 \/ Up(path[D]))
  BY <1>1, <1>4
<1>6. ASSUME NEW k \in (D + 1)..Length, Up(path[k]) PROVE FALSE
  <2>1. n \in 0..(Length - 1)
    BY <1>4
  <2>2. Length - k \in 0..(Length - 1) /\ Length - (Length - k) = k /\ Length - k < n
    BY <1>1, <1>6, <2>1
  <2>3. Length - k \in T
    BY <1>6, <2>2
  <2> HIDE DEF T
  <2> QED BY <1>1, <1>4, <2>1, <2>2, <2>3
<1> HIDE DEF D
<1> QED BY <1>5, <1>6

\* What walks from the root leaves out, so that a path may begin there with it.
IsRoot(name) == name = ""

\* The walk stays where it is, and a path with more behind it begins at the root.
LEMMA RootIs ==
    ASSUME NEW name, IsRoot(name)
    PROVE  /\ \A there, d : Enter(there, d, name) = d
           /\ \A from, path : path[1] = name /\ Len(path) > 1 => Begin(from, path) = <<>>
BY DEF IsRoot, Enter, Begin

\* A path without "..", made of one whose names lead down, leads to the same
\* directory; it cannot be made only of a path that goes up past the root.
IsShortened(short, there, h, S, path) ==
    IF short.ok
    THEN /\ short.path \in Seq(S) /\ short.path # <<>> /\ short.path[1] = path[1]
         /\ IF Len(short.path) = 1 THEN h[Len(path)] = <<>>
            ELSE \A from : Walk(there, from, short.path) = h[Len(path)]
    ELSE PastTop(h, path, Len(path))

\* What is left of a sequence behind its first m.
IsRest(S, s, m, t) ==
    t \in Seq(S) /\ Len(t) = Len(s) - m /\ \A k \in 1..(Len(s) - m) : t[k] = s[m + k]

\* It is the part from the next of them to the last.
LEMMA RestIs ==
    ASSUME NEW S, NEW s \in Seq(S), NEW m \in 1..Len(s)
    PROVE  IsRest(S, s, m, Between(s, m + 1, Len(s)))
<1> DEFINE Length == Len(s)
<1>1. Length \in m..Len(s)
  OBVIOUS
<1> HIDE DEF Length
<1>2. /\ Between(s, m + 1, Length) \in Seq(S) /\ Len(Between(s, m + 1, Length)) = Length - m
      /\ \A k \in 1..(Length - m) : Between(s, m + 1, Length)[k] = s[m + k]
  BY <1>1, OneMore
<1> QED BY <1>2, Zenon DEF IsRest, Length

\* So NoDotDot keeps where a path leads.
LEMMA Shortened ==
    ASSUME NEW there, Tree(there), NEW S, NEW path \in Seq(S), path # <<>>,
           there \subseteq Seq(S), NEW h, IsWalk(h, there, <<>>, path), h[Len(path)] # Nowhere,
           IsRoot(path[1]), Down(h, path)
    PROVE  IsShortened(NoDotDot(path), there, h, S, path)
<1> DEFINE Length == Len(path)
           r == path[1]
<1>1. PICK D \in 1..Length : (D = 1 \/ Up(path[D])) /\ \A k \in (D + 1)..Length : ~Up(path[k])
  BY LastUp
<1>2. PICK so : IsShortening(so, S, path)
  BY ShorteningExists
<1>3. NoDotDot(path) = so[Length]
  BY <1>2, NoDotDotIs
<1>4. Length \in Nat \ {0} /\ D \in Nat \ {0} /\ D \in 1..D /\ Length \in D..Length /\ Length - D \in Nat /\ Length \in 1..Length
  BY <1>1
<1>5. \A d : Enter(there, d, path[1]) = d
  BY RootIs
<1>6. IF so[D].ok THEN so[D].path = <<r>> \o h[D] ELSE PastTop(h, path, D)
  <2>1. \A k \in 1..D : IF so[k].ok THEN so[k].path = <<path[1]>> \o h[k] ELSE PastTop(h, path, k)
    BY <1>1, <1>2, <1>5, KeptIs
  <2> QED BY <1>4, <2>1, Zenon
<1> DEFINE tail == Between(path, D + 1, Length)
           q == h[D]
           p == (<<r>> \o q) \o tail
<1>7. IF so[D].ok THEN so[Length].ok /\ so[Length].path = so[D].path \o tail ELSE ~so[Length].ok
  <2>1. \A k \in D..Length : IF so[D].ok THEN so[k].ok /\ so[k].path = so[D].path \o Between(path, D + 1, k)
                        ELSE ~so[k].ok
    BY <1>1, <1>2, RestIsKept
  <2> QED BY <1>4, <2>1, Zenon
<1>8. CASE ~so[Length].ok
  <2>1. ~so[D].ok
    BY <1>7, <1>8, Zenon
  <2>2. PastTop(h, path, D)
    BY <1>6, <2>1, Zenon
  <2>3. PastTop(h, path, Length)
    BY <1>4, <2>2 DEF PastTop
  <2> QED BY <1>3, <1>8, <2>3, Zenon DEF IsShortened
<1>9. CASE so[Length].ok
  <2>1. so[D].ok
    BY <1>7, <1>9, Zenon
  <2>2. so[Length].path = p
    BY <1>6, <1>7, <2>1, Zenon
  <2>3. h \in [0..Length -> Places(there)] /\ \A n \in 1..Length : h[n] = Enter(there, h[n - 1], path[n])
    BY DEF IsWalk, Goes
  <2>4. q \in there /\ Open(q) /\ q \in Seq(S)
    <3>1. D \in 0..Length
      BY <1>4
    <3>2. q # Nowhere
      BY <3>1, NowhereStays DEF IsWalk
    <3>3. q \in Places(there)
      BY <2>3, <3>1
    <3> QED BY <3>2, <3>3 DEF Places
  <2>5. tail \in Seq(S) /\ Len(tail) = Length - D /\ \A k \in 1..(Length - D) : tail[k] = path[D + k]
    <3>1. D \in 1..Len(path) /\ Len(path) \in D..Len(path)
      BY <1>4
    <3>2. /\ Between(path, D + 1, Len(path)) \in Seq(S)
          /\ Len(Between(path, D + 1, Len(path))) = Len(path) - D
          /\ \A k \in 1..(Len(path) - D) : Between(path, D + 1, Len(path))[k] = path[D + k]
      <4>1. IsRest(S, path, D, Between(path, D + 1, Len(path)))
        BY <3>1, RestIs
      <4> QED BY <4>1 DEF IsRest
    <3> QED BY <3>2
  <2>6. r \in S /\ \A d : Enter(there, d, r) = d
    BY <1>4, <1>5
  <2> DEFINE f == [n \in 0..(Length - D) |-> h[D + n]]
  <2>7. IsWalk(f, there, q, tail)
    <3>1. \A n \in 0..(Length - D) : D + n \in 0..Length
      BY <1>4
    <3>2. f \in [0..(Length - D) -> Places(there)]
      BY <2>3, <3>1
    <3>3. f[0] = q
      <4>1. 0 \in 0..(Length - D) /\ D + 0 = D
        BY <1>4
      <4> QED BY <4>1
    <3>4. ASSUME NEW n \in 1..(Length - D) PROVE f[n] = Enter(there, f[n - 1], tail[n])
      <4>1. /\ D + n \in 1..Length /\ (D + n) - 1 = D + (n - 1)
            /\ n \in 0..(Length - D) /\ n - 1 \in 0..(Length - D)
        BY <1>4
      <4>2. f[n] = h[D + n] /\ f[n - 1] = h[D + (n - 1)] /\ tail[n] = path[D + n]
        BY <2>5, <4>1
      <4> HIDE DEF f, tail
      <4> QED BY <2>3, <4>1, <4>2
    <3> HIDE DEF f, tail, q
    <3> QED BY <2>5, <3>2, <3>3, <3>4 DEF IsWalk, Goes
  <2>8. f[Length - D] = h[Length]
    <3>1. Length - D \in 0..(Length - D) /\ D + (Length - D) = Length
      BY <1>4
    <3> QED BY <3>1
  <2> HIDE DEF f, tail, q, r
  <2>9. PICK g : /\ IsWalk(g, there, <<>>, p)
                 /\ \A n \in 0..Len(tail) : g[1 + Len(q) + n] = f[n]
    <3>1. Continues(there, r, q, tail, f)
      BY <2>4, <2>5, <2>6, <2>7, Continue
    <3> QED BY <3>1 DEF Continues, p
  <2>10. /\ p \in Seq(S) /\ Len(p) = 1 + Len(q) + Len(tail) /\ p[1] = r
         /\ Len(q) \in Nat /\ Len(tail) \in Nat
    <3> DEFINE u == <<r>> \o q
    <3>1. u \in Seq(S) /\ Len(u) = 1 + Len(q) /\ u[1] = r
      <4>1. IsBehind(S, r, q)
        BY <2>4, <2>6, Behind
      <4> QED BY <4>1 DEF IsBehind
    <3>2. Len(q) \in Nat /\ Len(tail) \in Nat
      BY <2>4, <2>5
    <3> HIDE DEF u
    <3>3. /\ u \o tail \in Seq(S) /\ Len(u \o tail) = Len(u) + Len(tail)
          /\ \A n \in 1..(Len(u) + Len(tail)) : (u \o tail)[n] = IF n <= Len(u) THEN u[n] ELSE tail[n - Len(u)]
      <4>1. u \in Seq(S) /\ tail \in Seq(S)
        BY <2>5, <3>1
      <4> QED BY <4>1, ConcatProperties
    <3>4. 1 \in 1..(Len(u) + Len(tail)) /\ 1 <= Len(u)
      BY <3>1, <3>2
    <3>5. (u \o tail)[1] = r
      BY <3>1, <3>3, <3>4
    <3> QED BY <3>1, <3>2, <3>3, <3>5 DEF u
  <2> HIDE DEF p
  <2>11. g[Len(p)] = h[Length]
    <3>1. Length - D \in 0..Len(tail) /\ 1 + Len(q) + (Length - D) = Len(p)
      BY <1>4, <2>5, <2>10
    <3> QED BY <2>8, <2>9, <3>1
  <2>12. p # <<>>
    BY <2>10
  <2>13. CASE Len(p) = 1
    <3>1. Len(q) = 0 /\ Length = D
      <4>1. Len(q) + Len(tail) = 0 /\ Len(tail) = Length - D
        <5>1. Len(tail) = Length - D
          BY <2>5
        <5>2. Len(p) = 1 + Len(q) + Len(tail) /\ Len(q) \in Nat /\ Len(tail) \in Nat
          BY <2>10
        <5>3. Len(q) + Len(tail) = 0
          <6> DEFINE a == Len(q)  b == Len(tail)  c == Len(p)
          <6>1. c = 1 + a + b /\ a \in Nat /\ b \in Nat
            BY <5>2
          <6>2. c = 1
            BY <2>13
          <6> HIDE DEF a, b, c
          <6>3. a + b = 0
            BY <6>1, <6>2
          <6> QED BY <6>3 DEF a, b
        <5> QED BY <5>1, <5>3
      <4> QED BY <1>4, <2>10, <4>1
    <3>2. q = <<>>
      BY <2>4, <3>1
    <3>3. h[Length] = <<>>
      BY <3>1, <3>2 DEF q
    <3> QED BY <1>3, <1>9, <2>2, <2>10, <2>12, <2>13, <3>3, Zenon DEF IsShortened, r
  <2>14. CASE Len(p) # 1
    <3>1. Len(p) > 1
      BY <2>10, <2>14
    <3>2. ASSUME NEW from PROVE Walk(there, from, p) = h[Length]
      <4>1. Begin(from, p) = <<>>
        BY <2>10, <3>1, RootIs DEF r
      <4>2. IsWalk(g, there, Begin(from, p), p)
        BY <2>9, <4>1
      <4> QED BY <2>10, <2>11, <4>2, WalkIs
    <3> QED BY <1>3, <1>9, <2>2, <2>10, <2>12, <2>14, <3>2, Zenon DEF IsShortened, r
  <2> QED BY <2>13, <2>14
<1> QED BY <1>8, <1>9

-----------------------------------------------------------------------------
(* What cd makes of a path that is plain.                                  *)

\* The names of paths.  (That "" is a string is beyond the provers.)
Names == STRING \cup {""}

\* A sequence over a set is one over a larger set.
LEMMA Wider ==
    ASSUME NEW S, NEW T, S \subseteq T, NEW s \in Seq(S)
    PROVE  s \in Seq(T)
<1>1. Len(s) \in Nat /\ s = [n \in 1..Len(s) |-> s[n]] /\ \A n \in 1..Len(s) : s[n] \in S
  OBVIOUS
<1> QED BY <1>1

\* Paths and directories are sequences of names.
LEMMA NamesIs ==
    /\ "" \in Names /\ \A path \in Seq(STRING) : path \in Seq(Names)
    /\ \A d \in Directories : d \in Seq(Names)
<1> DEFINE S == STRING  e == ""
<1>1. Names = S \cup {e}
  BY DEF Names
<1>2. \A d \in Directories : d \in Seq(S)
  BY OfDirectory
<1> HIDE DEF S, e
<1>3. e \in Names /\ S \subseteq Names
  BY <1>1
<1>4. \A path \in Seq(S) : path \in Seq(Names)
  BY <1>3, Wider
<1> QED BY <1>2, <1>3, <1>4 DEF S, e

\* The path from the root, before any of it is deleted.
Absolute(path) == path[1] = "" /\ Len(path) > 1
Whole(from, path) == IF Absolute(path) THEN path ELSE (<<"">> \o from) \o path

\* correct_path in these terms.
LEMMA CorrectIs ==
    ASSUME NEW from \in Directories, NEW path
    PROVE  LET short == NoDotDot(NoDot(Whole(from, path)))
           IN  correct_path(Text(from), path) =
                  IF short.path = <<"">> \/ ~short.ok THEN [short EXCEPT !.path = <<"", "">>] ELSE short
<1> DEFINE S == Names
           e == ""
           current == Text(from)
<1>1. from \in Seq(S) /\ e \in S /\ (from # <<>> => Last(from) # e)
  <2>1. from \in Seq(S) /\ (from # <<>> => Last(from) # e)
    BY OfDirectory, NamesIs
  <2>2. e \in S
    BY NamesIs
  <2> QED BY <2>1, <2>2
<1>2. current = IF from = <<>> THEN <<e, e>> ELSE <<e>> \o from
  BY DEF Text
<1> HIDE DEF S, e, current
<1>3. (IF current = <<e, e>> THEN <<e>> ELSE current) = <<e>> \o from
  <2>1. CASE from = <<>>
    <3>1. current = <<e, e>>
      BY <1>2, <2>1
    <3>2. <<e>> \o <<>> = <<e>>
      BY <1>1, ConcatEmptySeq
    <3> QED BY <2>1, <3>1, <3>2
  <2>2. CASE from # <<>>
    <3> DEFINE u == <<e>> \o from
    <3>1. Len(from) \in Nat \ {0} /\ Last(from) = from[Len(from)]
      BY <1>1, <2>2 DEF Last
    <3>2. /\ u \in Seq(S) /\ Len(u) = Len(<<e>>) + Len(from)
          /\ \A n \in 1..(Len(<<e>>) + Len(from)) : u[n] = IF n <= Len(<<e>>) THEN <<e>>[n]
                                                          ELSE from[n - Len(<<e>>)]
      <4>1. <<e>> \in Seq(S)
        BY <1>1
      <4> QED BY <1>1, <4>1, ConcatProperties
    <3>3. Len(<<e>>) = 1
      OBVIOUS
    <3> HIDE DEF u
    <3>4. ASSUME u = <<e, e>> PROVE FALSE
      <4>1. Len(u) = 2 /\ u[2] = e
        BY <3>4
      <4>2. Len(from) = 1
        <5> DEFINE a == Len(from)  b == Len(u)
        <5>1. b = 1 + a /\ a \in Nat /\ b = 2
          BY <3>1, <3>2, <3>3, <4>1
        <5> HIDE DEF a, b
        <5>2. a = 1
          BY <5>1
        <5> QED BY <5>2 DEF a
      <4>3. 2 \in 1..(Len(<<e>>) + Len(from)) /\ ~(2 <= Len(<<e>>)) /\ 2 - Len(<<e>>) = 1
        BY <3>3, <4>2
      <4>4. u[2] = from[1]
        BY <3>2, <4>3
      <4> QED BY <1>1, <2>2, <3>1, <4>1, <4>2, <4>4
    <3>5. current = u
      BY <1>2, <2>2 DEF u
    <3> QED BY <3>4, <3>5 DEF u
  <2> QED BY <2>1, <2>2
<1> QED BY <1>3 DEF correct_path, Whole, Absolute, current, e

\* Where a path that is walked goes through before a name of it.
LEMMA StopsAt ==
    ASSUME NEW there, Tree(there), NEW from, NEW S, NEW path \in Seq(S),
           NEW g, IsWalk(g, there, Begin(from, path), path), NEW i \in 1..Len(path), Up(path[i]),
           NEW root \in S, IsRoot(root)
    PROVE  Walk(there, from, Append(SubSeq(path, 1, i - 1), root)) = g[i - 1]
<1> DEFINE u == SubSeq(path, 1, i - 1)
           s == Append(u, root)
           P == Places(there)
           start == Begin(from, path)
           f == [n \in 0..i |-> IF n = i THEN g[i - 1] ELSE g[n]]
<1>1. Len(path) \in Nat /\ i \in Nat \ {0} /\ i - 1 \in 0..Len(path) /\ i - 1 \in 0..(i - 1)
  OBVIOUS
<1>2. u \in Seq(S) /\ Len(u) = i - 1 /\ \A k \in 1..(i - 1) : u[k] = path[k]
  BY <1>1, FirstPart
<1> HIDE DEF u
<1>3. s \in Seq(S) /\ Len(s) = i /\ s[i] = root /\ \A k \in 1..(i - 1) : s[k] = path[k]
  <2>1. s \in Seq(S) /\ Len(s) = Len(u) + 1 /\ s[Len(u) + 1] = root /\ \A k \in 1..Len(u) : s[k] = u[k]
    BY <1>2, AppendProperties
  <2>2. Len(u) + 1 = i
    BY <1>1, <1>2
  <2> HIDE DEF s
  <2> QED BY <1>2, <2>1, <2>2
<1> HIDE DEF s
<1>4. Begin(from, s) = start
  <2>1. CASE i = 1
    <3>1. path[1] # ""
      BY <2>1 DEF Up
    <3>2. ~(Len(s) > 1)
      BY <1>3, <2>1
    <3> QED BY <3>1, <3>2 DEF Begin
  <2>2. CASE i # 1
    <3>1. Len(s) > 1 /\ Len(path) > 1 /\ 1 \in 1..(i - 1)
      BY <1>1, <1>3, <2>2
    <3>2. s[1] = path[1]
      BY <1>3, <3>1
    <3> QED BY <3>1, <3>2 DEF Begin
  <2> QED BY <2>1, <2>2
<1>5. /\ g \in [0..Len(path) -> P] /\ g[0] = start
      /\ \A n \in 1..Len(path) : g[n] = Enter(there, g[n - 1], path[n])
  BY DEF IsWalk, Goes
<1> HIDE DEF P, start
<1>6. f \in [0..i -> P]
  <2>1. \A n \in 0..i : n # i => n \in 0..Len(path)
    BY <1>1
  <2> QED BY <1>1, <1>5, <2>1
<1>7. f[0] = start
  <2>1. 0 \in 0..i /\ 0 # i
    BY <1>1
  <2> QED BY <1>5, <2>1
<1>8. ASSUME NEW n \in 1..i PROVE f[n] = Enter(there, f[n - 1], s[n])
  <2>1. n \in 0..i /\ n - 1 \in 0..i /\ n - 1 # i
    BY <1>1
  <2>2. CASE n = i
    <3>1. f[n] = g[i - 1] /\ f[n - 1] = g[i - 1] /\ s[n] = root
      BY <1>3, <2>1, <2>2
    <3> QED BY <3>1, RootIs
  <2>3. CASE n # i
    <3>1. n \in 1..(i - 1) /\ n \in 1..Len(path)
      BY <1>1, <2>3
    <3>2. f[n] = g[n] /\ f[n - 1] = g[n - 1] /\ s[n] = path[n]
      BY <1>3, <2>1, <2>3, <3>1
    <3> HIDE DEF f
    <3> QED BY <1>5, <3>1, <3>2
  <2> QED BY <2>2, <2>3
<1>9. f[i] = g[i - 1]
  <2>1. i \in 0..i
    BY <1>1
  <2> QED BY <2>1
<1> HIDE DEF f
<1>10. IsWalk(f, there, Begin(from, s), s)
  BY <1>3, <1>4, <1>6, <1>7, <1>8 DEF IsWalk, Goes, P
<1>11. Walk(there, from, s) = f[Len(s)]
  BY <1>3, <1>10, WalkIs
<1> QED BY <1>3, <1>9, <1>11 DEF s, u

\* Deleting "." from it: at most the last name goes.
Stay(name) == name = "."

\* The cases of NoDot that a plain path meets.
LEMMA NoDotBy ==
    ASSUME NEW path
    PROVE  /\ Stay(path[Len(path)]) => NoDot(path) = Front(path)
           /\ /\ ~Stay(path[Len(path)]) /\ ~Stay(path[Len(path) - 1])
              /\ path[Len(path)] \notin DOMAIN DotNames
              => NoDot(path) = path
BY Zenon DEF NoDot, Stay

\* The last element of two sequences is that of the second.
LEMMA FrontOfConcat ==
    ASSUME NEW S, NEW u \in Seq(S), NEW t \in Seq(S), t # <<>>
    PROVE  Front(u \o t) = u \o Front(t)
<1> DEFINE s == u \o t  v == Front(t)  a == Front(s)  b == u \o v
<1>1. Len(u) \in Nat /\ Len(t) \in Nat \ {0}
  OBVIOUS
<1>2. v \in Seq(S) /\ Len(v) = Len(t) - 1 /\ \A k \in 1..(Len(t) - 1) : v[k] = t[k]
  BY FrontOf
<1>3. /\ s \in Seq(S) /\ Len(s) = Len(u) + Len(t)
      /\ \A n \in 1..(Len(u) + Len(t)) : s[n] = IF n <= Len(u) THEN u[n] ELSE t[n - Len(u)]
  BY ConcatProperties
<1> HIDE DEF s, v
<1>4. /\ b \in Seq(S) /\ Len(b) = Len(u) + Len(v)
      /\ \A n \in 1..(Len(u) + Len(v)) : b[n] = IF n <= Len(u) THEN u[n] ELSE v[n - Len(u)]
  BY <1>2, ConcatProperties
<1> HIDE DEF b
<1>5. a \in Seq(S) /\ Len(a) = Len(s) - 1 /\ \A k \in 1..(Len(s) - 1) : a[k] = s[k]
  <2>1. Len(s) # 0
    BY <1>1, <1>3
  <2>2. s # <<>>
    BY <2>1
  <2> QED BY <1>3, <2>2, FrontOf
<1> HIDE DEF a
<1> DEFINE M == Len(u) + Len(t) - 1
<1>6. M \in Nat /\ Len(s) - 1 = M /\ Len(u) + Len(v) = M /\ Len(a) = M /\ Len(b) = M
  BY <1>1, <1>2, <1>3, <1>4, <1>5
<1>7. ASSUME NEW n \in 1..M PROVE a[n] = b[n]
  <2>1. n \in 1..(Len(s) - 1) /\ n \in 1..(Len(u) + Len(v)) /\ n \in 1..(Len(u) + Len(t))
    BY <1>1, <1>6
  <2>2. /\ a[n] = IF n <= Len(u) THEN u[n] ELSE t[n - Len(u)]
        /\ b[n] = IF n <= Len(u) THEN u[n] ELSE v[n - Len(u)]
    BY <1>3, <1>4, <1>5, <2>1
  <2>3. ~(n <= Len(u)) => n - Len(u) \in 1..(Len(t) - 1)
    BY <1>1
  <2> QED BY <1>2, <2>2, <2>3
<1> HIDE DEF M
<1>8. a = b
  <2>1. Len(a) = Len(b) /\ \A n \in 1..Len(a) : a[n] = b[n]
    BY <1>6, <1>7
  <2> QED BY <1>4, <1>5, <2>1, SeqEqual
<1> QED BY <1>8 DEF a, b, s, v

\* No name of a directory is one of those with a meaning.
LEMMA NamesOf ==
    ASSUME NEW there, Tree(there), NEW d \in there, Open(d)
    PROVE  \A n \in 1..Len(d) : d[n] \notin {"", ".", ".."}
<1> SUFFICES ASSUME NEW n \in 1..Len(d) PROVE d[n] \notin {"", ".", ".."}
  OBVIOUS
<1> DEFINE S == STRING
           u == SubSeq(d, 1, n)
<1>1. d \in Seq(S)
  BY OfDirectory DEF Tree
<1> HIDE DEF S
<1>2. Len(d) \in Nat /\ n \in 0..Len(d) /\ n \in 1..n /\ n \in Nat \ {0}
  BY <1>1
<1>3. u \in Seq(S) /\ Len(u) = n /\ \A k \in 1..n : u[k] = d[k]
  BY <1>1, <1>2, FirstPart
<1>4. u \in Places(there)
  BY <1>2, OnTheWay
<1> HIDE DEF u
<1>5. u # <<>> /\ Last(u) = d[n]
  <2>1. Len(u) # 0
    BY <1>2, <1>3
  <2>2. u # <<>>
    BY <2>1
  <2> QED BY <1>2, <1>3, <2>2 DEF Last
<1>6. u # Nowhere
  <2>1. SubSeq(d, 1, n) \in there
    BY <1>2, OnTheWay
  <2> QED BY <2>1, OfDirectory DEF Tree, u
<1>7. u \in there
  BY <1>4, <1>6 DEF Places
<1> QED BY <1>5, <1>7, OfDirectory DEF Tree

\* A path from the root is <<"">> and what leads on from there; one from a
\* directory leads on from that one.  The walk is the same behind its first c
\* steps.
IsFrom(there, from, path, g, base, c, tail, f) ==
    /\ base \in there /\ Open(base)
    /\ c \in {0, 1} /\ (c = 1 <=> Absolute(path))
    /\ tail \in Seq(Names) /\ tail # <<>> /\ Len(path) = c + Len(tail)
    /\ \A n \in 1..Len(tail) : tail[n] = path[c + n]
    /\ IsWalk(f, there, base, tail) /\ \A n \in 0..Len(tail) : f[n] = g[c + n]
    /\ Whole(from, path) = (<<"">> \o base) \o tail

\* Every path can be seen so.
LEMMA IsFromSome ==
    ASSUME NEW there, Tree(there), NEW from \in there, Open(from),
           NEW path \in Seq(Names), path # <<>>,
           NEW g, IsWalk(g, there, Begin(from, path), path)
    PROVE  \E base, c, tail, f : IsFrom(there, from, path, g, base, c, tail, f)
<1> DEFINE S == Names  N == Len(path)  e == ""  P == Places(there)
<1>0. e \in S /\ IsRoot(e)
  BY NamesIs DEF IsRoot
<1>1. path \in Seq(S) /\ N \in Nat \ {0}
  OBVIOUS
<1>2. /\ g \in [0..N -> P] /\ g[0] = Begin(from, path)
      /\ \A n \in 1..N : g[n] = Enter(there, g[n - 1], path[n])
  BY DEF IsWalk, Goes
<1>3. Absolute(path) <=> path[1] = e /\ Len(path) > 1
  BY DEF Absolute
<1> HIDE DEF e
<1>4. CASE ~Absolute(path)
  <2>1. Begin(from, path) = from
    BY <1>4 DEF Begin, Absolute
  <2>2. IsWalk(g, there, from, path)
    BY <2>1
  <2>3. Whole(from, path) = (<<"">> \o from) \o path
    BY <1>4 DEF Whole
  <2>4. N = 0 + N /\ \A n \in 0..N : 0 + n = n
    BY <1>1
  <2>5. \A n \in 1..N : path[n] = path[0 + n]
    BY <1>1
  <2>6. \A n \in 0..N : g[n] = g[0 + n]
    BY <2>4
  <2>7. 0 \in {0, 1} /\ ~(0 = 1)
    OBVIOUS
  <2>8. IsFrom(there, from, path, g, from, 0, path, g)
    BY <1>4, <2>2, <2>3, <2>4, <2>5, <2>6, <2>7, Zenon DEF IsFrom
  <2> QED BY <2>8
<1>5. CASE Absolute(path)
  <2> DEFINE M == N - 1
             tail == [n \in 1..M |-> path[1 + n]]
             f == [n \in 0..M |-> g[1 + n]]
             base == <<>>
  <2>1. M \in Nat \ {0} /\ N = 1 + M /\ path[1] = e /\ 1 \in 1..N /\ 1 - 1 = 0 /\ N > 1
    <3>1. Len(path) > 1 /\ path[1] = e
      BY <1>3, <1>5
    <3> QED BY <1>1, <3>1
  <2>2. tail \in Seq(S) /\ Len(tail) = M /\ \A n \in 1..M : tail[n] = path[1 + n]
    <3>1. \A n \in 1..M : path[1 + n] \in S
      BY <1>1, <2>1
    <3> HIDE DEF M
    <3> QED BY <2>1, <3>1
  <2>3. tail # <<>>
    BY <2>1, <2>2
  <2>4. Begin(from, path) = base
    BY <1>5 DEF Begin, Absolute
  <2>5. g[1] = base
    <3>1. g[1] = Enter(there, base, e)
      BY <1>2, <2>1, <2>4
    <3> HIDE DEF base
    <3> QED BY <1>0, <3>1, RootIs
  <2>6. base \in there /\ Open(base)
    <3>1. Len(<<>>) = 0
      OBVIOUS
    <3>2. \A n \in 0..(0 - 1) : FALSE
      OBVIOUS
    <3> QED BY <3>1, <3>2 DEF Tree, Open
  <2> HIDE DEF tail, M
  <2>7. f \in [0..M -> P] /\ f[0] = base
    <3>1. \A n \in 0..M : 1 + n \in 0..N
      BY <1>1, <2>1
    <3>2. 0 \in 0..M /\ 1 + 0 = 1
      BY <2>1
    <3> QED BY <1>2, <2>5, <3>1, <3>2
  <2>8. \A n \in 0..M : f[n] = g[1 + n]
    OBVIOUS
  <2> HIDE DEF f
  <2>9. \A n \in 1..M : f[n] = Enter(there, f[n - 1], tail[n])
    <3> SUFFICES ASSUME NEW n \in 1..M PROVE f[n] = Enter(there, f[n - 1], tail[n])
      OBVIOUS
    <3>1. 1 + n \in 1..N /\ (1 + n) - 1 = 1 + (n - 1) /\ n \in 0..M /\ n - 1 \in 0..M
      BY <2>1
    <3>2. f[n] = g[1 + n] /\ f[n - 1] = g[1 + (n - 1)] /\ tail[n] = path[1 + n]
      BY <2>2, <2>8, <3>1
    <3> QED BY <1>2, <3>1, <3>2
  <2>10. IsWalk(f, there, base, tail)
    BY <2>2, <2>7, <2>9 DEF IsWalk, Goes
  <2>11. path = (<<e>> \o base) \o tail
    <3> DEFINE r == <<e>>  u == r \o tail
    <3>1. r \in Seq(S) /\ Len(r) = 1 /\ r[1] = e
      BY <1>0
    <3>2. r \o <<>> = r
      BY <3>1, ConcatEmptySeq
    <3> HIDE DEF r
    <3>3. /\ u \in Seq(S) /\ Len(u) = Len(r) + Len(tail)
          /\ \A n \in 1..(Len(r) + Len(tail)) : u[n] = IF n <= Len(r) THEN r[n] ELSE tail[n - Len(r)]
      BY <2>2, <3>1, ConcatProperties
    <3> HIDE DEF u
    <3>4. Len(r) + Len(tail) = N
      BY <2>1, <2>2, <3>1
    <3>5. ASSUME NEW n \in 1..N PROVE u[n] = path[n]
      <4>1. u[n] = IF n <= 1 THEN r[n] ELSE tail[n - 1]
        BY <3>1, <3>3, <3>4
      <4>2. n = 1 \/ (~(n <= 1) /\ n - 1 \in 1..M /\ 1 + (n - 1) = n)
        BY <1>1, <2>1
      <4> QED BY <2>1, <2>2, <3>1, <4>1, <4>2
    <3>6. u = path
      BY <1>1, <3>3, <3>4, <3>5, SeqEqual
    <3> QED BY <3>2, <3>6 DEF u, r
  <2>12. Whole(from, path) = (<<"">> \o base) \o tail
    BY <1>5, <2>11 DEF Whole, e
  <2>13. IsFrom(there, from, path, g, base, 1, tail, f)
    <3>1. 1 \in {0, 1} /\ Len(path) = 1 + Len(tail) /\ Len(tail) = M
      BY <2>1, <2>2
    <3> HIDE DEF base
    <3> QED BY <1>5, <2>2, <2>3, <2>6, <2>8, <2>10, <2>12, <3>1, Zenon DEF IsFrom
  <2> QED BY <2>13
<1> QED BY <1>4, <1>5

\* Of such names only the last can be "" or ".", and none in front of a name
\* that leads up is a link's.
OnlyNames(tail) ==
    /\ \A n \in 1..(Len(tail) - 1) : ~Stay(tail[n]) /\ ~IsRoot(tail[n])
    /\ tail[Len(tail)] \notin DOMAIN DotNames
    /\ \A m, n \in 1..Len(tail) : m < n /\ Up(tail[n]) => \A at \in DOMAIN Links : tail[m] # Last(at)

\* What leads on in a plain path has such names.
LEMMA PlainTail ==
    ASSUME NEW there, NEW from, NEW path \in Seq(Names), path # <<>>, IsPlain(path),
           NEW g, NEW base, NEW c, NEW tail, NEW f, IsFrom(there, from, path, g, base, c, tail, f)
    PROVE  OnlyNames(tail)
<1> DEFINE N == Len(path)  M == Len(tail)
<1>1. /\ N \in Nat \ {0} /\ M \in Nat \ {0} /\ N = c + M /\ c \in {0, 1}
      /\ \A n \in 1..M : c + n \in 1..N /\ tail[n] = path[c + n]
  <2>1. N \in Nat \ {0}
    OBVIOUS
  <2>2. tail \in Seq(Names) /\ tail # <<>>
    BY DEF IsFrom
  <2>3. M \in Nat \ {0}
    BY <2>2
  <2>4. N = c + M /\ c \in {0, 1} /\ \A n \in 1..M : tail[n] = path[c + n]
    BY DEF IsFrom
  <2> HIDE DEF N, M
  <2>5. \A n \in 1..M : c + n \in 1..N
    BY <2>1, <2>3, <2>4
  <2> QED BY <2>1, <2>3, <2>4, <2>5
<1>2. /\ \A n \in 1..(N - 1) : ~Stay(path[n]) /\ (n > 1 => ~IsRoot(path[n]))
      /\ path[N] \notin DOMAIN DotNames
      /\ \A m, n \in 1..N : m < n /\ Up(path[n]) => \A at \in DOMAIN Links : path[m] # Last(at)
  <2>1. DOMAIN path = 1..N
    OBVIOUS
  <2>2. Last(path) = path[N]
    BY DEF Last
  <2> HIDE DEF N
  <2> QED BY <2>1, <2>2, Zenon DEF IsPlain, Stay, IsRoot, Up, N
<1>3. c = 1 <=> Absolute(path)
  BY DEF IsFrom
<1> HIDE DEF N, M
<1>4. ASSUME NEW n \in 1..(M - 1) PROVE ~Stay(tail[n]) /\ ~IsRoot(tail[n])
  <2>1. /\ n \in 1..M /\ c + n \in 1..(N - 1) /\ N > 1 /\ 1 \in 1..(N - 1)
        /\ (c + n > 1 \/ (c = 0 /\ n = 1 /\ c + n = 1))
    BY <1>1
  <2>2. tail[n] = path[c + n]
    BY <1>1, <2>1
  <2>3. ~Stay(tail[n])
    BY <1>2, <2>1, <2>2
  <2>4. CASE c + n > 1
    BY <1>2, <2>1, <2>2, <2>3, <2>4
  <2>5. CASE c = 0 /\ n = 1 /\ c + n = 1
    <3>1. ~Absolute(path)
      BY <1>3, <2>5
    <3>2. ~IsRoot(path[1])
      BY <2>1, <3>1 DEF Absolute, IsRoot, N
    <3> QED BY <2>2, <2>3, <2>5, <3>2
  <2> QED BY <2>1, <2>4, <2>5
<1>5. tail[M] \notin DOMAIN DotNames
  <2>1. M \in 1..M /\ c + M = N
    BY <1>1
  <2>2. tail[M] = path[N]
    BY <1>1, <2>1
  <2> QED BY <1>2, <2>2
<1>6. ASSUME NEW m \in 1..M, NEW n \in 1..M, m < n, Up(tail[n]), NEW at \in DOMAIN Links
      PROVE  tail[m] # Last(at)
  <2>1. c + m \in 1..N /\ c + n \in 1..N /\ c + m < c + n
    BY <1>1, <1>6
  <2>2. tail[m] = path[c + m] /\ tail[n] = path[c + n]
    BY <1>1
  <2> QED BY <1>2, <1>6, <2>1, <2>2
<1> QED BY <1>4, <1>5, <1>6 DEF OnlyNames, M

\* What deleting "." leaves leads to the same directory, if it leads to any.
NoStay(tail) == IF Stay(tail[Len(tail)]) THEN Front(tail) ELSE tail

\* The walk ends where it ended with the ".".
LEMMA NoStayIs ==
    ASSUME NEW there, Tree(there), NEW base \in there, Open(base),
           NEW S, NEW tail \in Seq(S), tail # <<>>, OnlyNames(tail),
           NEW f, IsWalk(f, there, base, tail), f[Len(tail)] # Nowhere
    PROVE  /\ NoStay(tail) \in Seq(S) /\ Len(NoStay(tail)) \in Nat /\ Len(NoStay(tail)) <= Len(tail)
           /\ \A n \in 1..Len(NoStay(tail)) : NoStay(tail)[n] = tail[n] /\ ~Stay(tail[n])
           /\ f[Len(NoStay(tail))] = f[Len(tail)]
<1> DEFINE M == Len(tail)  t == NoStay(tail)
<1>1. M \in Nat \ {0}
  OBVIOUS
<1>2. \A n \in 1..(M - 1) : ~Stay(tail[n])
  BY DEF OnlyNames
<1>3. CASE ~Stay(tail[M])
  <2>1. t = tail
    BY <1>3 DEF NoStay
  <2>2. \A n \in 1..M : n \in 1..(M - 1) \/ n = M
    BY <1>1
  <2>3. \A n \in 1..M : ~Stay(tail[n])
    BY <1>2, <1>3, <2>2
  <2> QED BY <1>1, <2>1, <2>3
<1>4. CASE Stay(tail[M])
  <2>1. t = Front(tail)
    BY <1>4 DEF NoStay
  <2>2. t \in Seq(S) /\ Len(t) = M - 1 /\ \A k \in 1..(M - 1) : t[k] = tail[k]
    BY <2>1, FrontOf
  <2>3. M \in 1..M /\ M \in 0..M /\ M - 1 \in 0..M
    BY <1>1
  <2>4. f[M] = Enter(there, f[M - 1], tail[M])
    BY <2>3 DEF IsWalk, Goes
  <2>5. Enter(there, f[M - 1], tail[M]) \in {f[M - 1], Nowhere}
    <3>1. tail[M] = "."
      BY <1>4 DEF Stay
    <3> QED BY <3>1, Zenon DEF Enter
  <2>6. f[M - 1] = f[M]
    BY <2>4, <2>5
  <2> HIDE DEF t
  <2>7. M - 1 \in Nat /\ M - 1 <= M
    BY <1>1
  <2> HIDE DEF M
  <2> QED BY <1>2, <2>2, <2>6, <2>7 DEF t, M
<1> QED BY <1>3, <1>4

\* And it is what NoDot leaves of the path from the root.
LEMMA NoDotIs ==
    ASSUME NEW there, Tree(there), NEW base \in there, Open(base),
           NEW S, base \in Seq(S), NEW root \in S, IsRoot(root),
           NEW tail \in Seq(S), tail # <<>>, OnlyNames(tail)
    PROVE  NoDot((<<root>> \o base) \o tail) = (<<root>> \o base) \o NoStay(tail)
<1> DEFINE u == <<root>> \o base
           M == Len(tail)
           K == Len(base)
           path == u \o tail
<1>1. M \in Nat \ {0} /\ K \in Nat /\ M \in 1..M
  OBVIOUS
<1>2. u \in Seq(S) /\ Len(u) = 1 + K /\ u[1] = root /\ \A n \in 1..K : u[1 + n] = base[n]
  <2> DEFINE e == <<root>>
  <2>1. e \in Seq(S) /\ Len(e) = 1 /\ e[1] = root
    OBVIOUS
  <2> HIDE DEF e
  <2>2. /\ e \o base \in Seq(S) /\ Len(e \o base) = Len(e) + Len(base)
        /\ \A n \in 1..(Len(e) + Len(base)) : (e \o base)[n] = IF n <= Len(e) THEN e[n] ELSE base[n - Len(e)]
    BY <2>1, ConcatProperties
  <2>3. u = e \o base
    BY DEF e
  <2> HIDE DEF u
  <2>4. 1 \in 1..(Len(e) + Len(base)) /\ 1 <= Len(e)
    BY <1>1, <2>1
  <2>5. \A n \in 1..K : 1 + n \in 1..(Len(e) + Len(base)) /\ ~(1 + n <= Len(e)) /\ (1 + n) - Len(e) = n
    BY <1>1, <2>1
  <2> QED BY <2>1, <2>2, <2>3, <2>4, <2>5
<1> HIDE DEF u
<1>3. /\ path \in Seq(S) /\ Len(path) = Len(u) + M
      /\ \A n \in 1..(Len(u) + M) : path[n] = IF n <= Len(u) THEN u[n] ELSE tail[n - Len(u)]
  <2>1. u \in Seq(S) /\ tail \in Seq(S)
    BY <1>2
  <2>2. /\ u \o tail \in Seq(S) /\ Len(u \o tail) = Len(u) + Len(tail)
        /\ \A n \in 1..(Len(u) + Len(tail)) : (u \o tail)[n] = IF n <= Len(u) THEN u[n] ELSE tail[n - Len(u)]
    BY <2>1, ConcatProperties
  <2> QED BY <2>2
<1>4. Front(path) = u \o Front(tail)
  BY <1>2, FrontOfConcat
<1> HIDE DEF path
<1> DEFINE N == Len(path)
<1>5. N = 1 + K + M /\ N \in 1..(Len(u) + M) /\ ~(N <= Len(u)) /\ N - Len(u) = M
  BY <1>1, <1>2, <1>3
<1>6. path[N] = tail[M]
  BY <1>3, <1>5
<1>7. ~Stay(path[N - 1])
  <2>1. N - 1 \in 1..(Len(u) + M)
    BY <1>1, <1>2, <1>5
  <2>2. path[N - 1] = IF N - 1 <= Len(u) THEN u[N - 1] ELSE tail[(N - 1) - Len(u)]
    BY <1>3, <2>1
  <2>3. CASE M > 1
    <3>1. ~(N - 1 <= Len(u)) /\ (N - 1) - Len(u) = M - 1 /\ M - 1 \in 1..(M - 1)
      BY <1>1, <1>2, <1>5, <2>3
    <3> QED BY <2>2, <3>1 DEF OnlyNames
  <2>4. CASE M = 1 /\ K = 0
    <3>1. N - 1 = 1 /\ N - 1 <= Len(u)
      BY <1>1, <1>2, <1>5, <2>4
    <3>2. path[N - 1] = root
      BY <1>2, <2>2, <3>1
    <3>3. "" # "."
      OBVIOUS
    <3> QED BY <3>2, <3>3, Zenon DEF IsRoot, Stay
  <2>5. CASE M = 1 /\ K # 0
    <3>1. N - 1 = 1 + K /\ N - 1 <= Len(u) /\ K \in 1..K
      BY <1>1, <1>2, <1>5, <2>5
    <3>2. path[N - 1] = base[K]
      BY <1>2, <2>2, <3>1
    <3>3. base[K] \notin {"", ".", ".."}
      BY <3>1, NamesOf
    <3> QED BY <3>2, <3>3 DEF Stay
  <2>6. M > 1 \/ (M = 1 /\ K = 0) \/ (M = 1 /\ K # 0)
    <3> HIDE DEF M, K
    <3> QED BY <1>1
  <2> QED BY <2>3, <2>4, <2>5, <2>6
<1>8. path[N] \notin DOMAIN DotNames
  BY <1>6 DEF OnlyNames
<1>9. NoDot(path) = IF Stay(path[N]) THEN Front(path) ELSE path
  BY <1>7, <1>8, NoDotBy
<1>10. NoDot(path) = u \o NoStay(tail)
  <2>1. CASE Stay(tail[M])
    BY <1>4, <1>6, <1>9, <2>1 DEF NoStay
  <2>2. CASE ~Stay(tail[M])
    <3>1. NoStay(tail) = tail
      BY <2>2 DEF NoStay
    <3>2. NoDot(path) = path
      BY <1>6, <1>9, <2>2
    <3> QED BY <3>1, <3>2 DEF path
  <2> QED BY <2>1, <2>2
<1> QED BY <1>10 DEF path, u

\* A name with no meaning that is no link's leads down.
LEMMA EnterDown ==
    ASSUME NEW there, NEW S, NEW d \in Seq(S), d # Nowhere, NEW name \in S,
           ~IsRoot(name), ~Stay(name), ~Up(name), Enter(there, d, name) # Nowhere,
           \A at \in DOMAIN Links : name # Last(at)
    PROVE  Enter(there, d, name) = Append(d, name)
<1>1. name # "" /\ name # "." /\ name # ".."
  BY Zenon DEF IsRoot, Stay, Up
<1> DEFINE at == Append(d, name)
           to == IF at \in DOMAIN Links THEN Links[at] ELSE at
<1>2. Enter(there, d, name) \in {to, Nowhere}
  BY <1>1, Zenon DEF Enter
<1>3. Last(at) = name
  <2>1. Len(at) = Len(d) + 1 /\ at[Len(d) + 1] = name
    BY AppendProperties
  <2> QED BY <2>1 DEF Last
<1>4. at \notin DOMAIN Links
  BY <1>3
<1> HIDE DEF at
<1> QED BY <1>2, <1>4 DEF at

\* One element more of a sequence.
LEMMA TakeOne ==
    ASSUME NEW S, NEW s \in Seq(S), NEW n \in 1..Len(s)
    PROVE  SubSeq(s, 1, n) = Append(SubSeq(s, 1, n - 1), s[n])
<1> DEFINE u == SubSeq(s, 1, n)  v == SubSeq(s, 1, n - 1)  w == Append(v, s[n])
<1>1. n \in 0..Len(s) /\ n - 1 \in 0..Len(s) /\ s[n] \in S /\ n \in Nat
  OBVIOUS
<1>2. u \in Seq(S) /\ Len(u) = n /\ \A k \in 1..n : u[k] = s[k]
  BY <1>1, FirstPart
<1>3. v \in Seq(S) /\ Len(v) = n - 1 /\ \A k \in 1..(n - 1) : v[k] = s[k]
  BY <1>1, FirstPart
<1> HIDE DEF u, v
<1>4. /\ w \in Seq(S) /\ Len(w) = Len(v) + 1 /\ w[Len(v) + 1] = s[n]
      /\ \A k \in 1..Len(v) : w[k] = v[k]
  BY <1>1, <1>3, AppendProperties
<1> HIDE DEF w
<1>5. Len(w) = n /\ w[n] = s[n] /\ \A k \in 1..(n - 1) : w[k] = s[k]
  BY <1>1, <1>3, <1>4
<1>6. \A k \in 1..n : k = n \/ k \in 1..(n - 1)
  BY <1>1
<1>7. u = w
  BY <1>2, <1>4, <1>5, <1>6, SeqEqual
<1> QED BY <1>7 DEF u, v, w

\* The walk along what deleting "." leaves, from the root.
IsThrough(h, there, base, t, f, full) ==
    /\ IsWalk(h, there, <<>>, full)
    /\ \A n \in 0..Len(base) : h[1 + n] = SubSeq(base, 1, n)
    /\ \A n \in 0..Len(t) : h[1 + Len(base) + n] = f[n]
IsJoined(S, full, root, base, t) ==
    /\ full \in Seq(S) /\ Len(full) = 1 + Len(base) + Len(t) /\ full[1] = root
    /\ \A n \in 1..Len(base) : full[1 + n] = base[n]
    /\ \A n \in 1..Len(t) : full[1 + Len(base) + n] = t[n]

\* The parts of such a path.
LEMMA Joined ==
    ASSUME NEW S, NEW root \in S, NEW base \in Seq(S), NEW t \in Seq(S)
    PROVE  IsJoined(S, (<<root>> \o base) \o t, root, base, t)
<1> DEFINE e == <<root>>  u == e \o base  w == u \o t  K == Len(base)  M == Len(t)
<1>1. K \in Nat /\ M \in Nat
  OBVIOUS
<1>2. e \in Seq(S) /\ Len(e) = 1 /\ e[1] = root
  OBVIOUS
<1> HIDE DEF e
<1>3. /\ u \in Seq(S) /\ Len(u) = Len(e) + Len(base)
      /\ \A n \in 1..(Len(e) + Len(base)) : u[n] = IF n <= Len(e) THEN e[n] ELSE base[n - Len(e)]
  BY <1>2, ConcatProperties
<1> HIDE DEF u
<1>4. /\ w \in Seq(S) /\ Len(w) = Len(u) + Len(t)
      /\ \A n \in 1..(Len(u) + Len(t)) : w[n] = IF n <= Len(u) THEN u[n] ELSE t[n - Len(u)]
  <2>1. u \in Seq(S) /\ t \in Seq(S)
    BY <1>3
  <2> QED BY <2>1, ConcatProperties
<1> HIDE DEF w, K, M
<1>5. /\ Len(u) = 1 + K /\ \A n \in 1..(1 + K) : u[n] = IF n <= 1 THEN e[n] ELSE base[n - 1]
  BY <1>2, <1>3 DEF K
<1>6. /\ Len(w) = 1 + K + M
      /\ \A n \in 1..(1 + K + M) : w[n] = IF n <= 1 + K THEN u[n] ELSE t[n - (1 + K)]
  BY <1>4, <1>5 DEF M
<1>7. w[1] = root
  <2>1. 1 \in 1..(1 + K + M) /\ 1 \in 1..(1 + K) /\ 1 <= 1 + K /\ 1 <= 1
    BY <1>1
  <2> QED BY <1>2, <1>5, <1>6, <2>1
<1>8. \A n \in 1..K : w[1 + n] = base[n]
  <2>1. \A n \in 1..K : /\ 1 + n \in 1..(1 + K + M) /\ 1 + n \in 1..(1 + K) /\ 1 + n <= 1 + K
                        /\ ~(1 + n <= 1) /\ (1 + n) - 1 = n
    BY <1>1
  <2> QED BY <1>5, <1>6, <2>1
<1>9. \A n \in 1..M : w[1 + K + n] = t[n]
  <2>1. \A n \in 1..M : /\ 1 + K + n \in 1..(1 + K + M) /\ ~(1 + K + n <= 1 + K)
                        /\ (1 + K + n) - (1 + K) = n
    BY <1>1
  <2> QED BY <1>6, <2>1
<1> QED BY <1>4, <1>6, <1>7, <1>8, <1>9 DEF IsJoined, K, M, w, u, e

\* On this walk names lead down, and none in front of a ".." along a link.
LEMMA ThroughDown ==
    ASSUME NEW there, Tree(there), NEW S, there \subseteq Seq(S),
           NEW base \in there, Open(base),
           NEW tail \in Seq(S), tail # <<>>, OnlyNames(tail),
           NEW f, IsWalk(f, there, base, tail), f[Len(tail)] # Nowhere,
           NEW root \in S, NEW h, NEW full,
           IsJoined(S, full, root, base, NoStay(tail)),
           IsThrough(h, there, base, NoStay(tail), f, full)
    PROVE  Down(h, full)
<1> DEFINE t == NoStay(tail)  K == Len(base)  M == Len(t)  N == Len(tail)  Length == Len(full)
<1>1. base \in Seq(S)
  OBVIOUS
<1>2. /\ t \in Seq(S) /\ M \in Nat /\ M <= N
      /\ \A n \in 1..M : t[n] = tail[n] /\ ~Stay(tail[n])
  BY NoStayIs
<1>3. K \in Nat /\ N \in Nat \ {0}
  BY <1>1
<1>4. /\ Length = 1 + K + M
      /\ \A n \in 1..K : full[1 + n] = base[n]
      /\ \A n \in 1..M : full[1 + K + n] = t[n]
  BY DEF IsJoined
<1>5. /\ \A n \in 0..K : h[1 + n] = SubSeq(base, 1, n)
      /\ \A n \in 0..M : h[1 + K + n] = f[n]
  BY DEF IsThrough
<1>6. \A n \in 1..K : base[n] \notin {"", ".", ".."}
  BY NamesOf
<1>7. /\ \A n \in 0..N : f[n] # Nowhere
      /\ \A n \in 0..N : f[n] \in Seq(S)
      /\ \A n \in 1..N : f[n] = Enter(there, f[n - 1], tail[n]) /\ tail[n] \in S
  <2>1. \A n \in 0..N : f[n] # Nowhere
    BY NowhereStays DEF IsWalk
  <2>2. \A n \in 0..N : f[n] \in Places(there)
    BY DEF IsWalk
  <2>3. \A n \in 0..N : f[n] \in Seq(S)
    BY <2>1, <2>2 DEF Places
  <2>4. \A n \in 1..N : f[n] = Enter(there, f[n - 1], tail[n])
    BY DEF IsWalk, Goes
  <2> QED BY <2>1, <2>3, <2>4
<1>8. /\ \A n \in 1..(N - 1) : ~IsRoot(tail[n])
      /\ \A m, n \in 1..N : m < n /\ Up(tail[n]) => \A at \in DOMAIN Links : tail[m] # Last(at)
  BY DEF OnlyNames
<1> SUFFICES ASSUME NEW n \in 2..Length, Up(full[n]), NEW m \in 2..(n - 1), ~Up(full[m])
             PROVE  h[m] = Append(h[m - 1], full[m])
  BY DEF Down
<1> HIDE DEF t, K, M, N, Length
<1>9. CASE m <= 1 + K
  <2> DEFINE k == m - 1
  <2>1. k \in 1..K /\ k \in 0..K /\ k - 1 \in 0..K /\ m = 1 + k /\ m - 1 = 1 + (k - 1)
    BY <1>3, <1>4, <1>9, <1>2
  <2> HIDE DEF k
  <2>2. h[m] = SubSeq(base, 1, k) /\ h[m - 1] = SubSeq(base, 1, k - 1) /\ full[m] = base[k]
    BY <1>4, <1>5, <2>1
  <2>3. SubSeq(base, 1, k) = Append(SubSeq(base, 1, k - 1), base[k])
    BY <1>1, <2>1, TakeOne DEF K
  <2> QED BY <2>2, <2>3
<1>10. CASE ~(m <= 1 + K)
  <2> DEFINE j == m - 1 - K  i == n - 1 - K
  <2>1. /\ j \in 1..M /\ j \in 0..M /\ j - 1 \in 0..M /\ i \in 1..M /\ j < i
        /\ m = 1 + K + j /\ m - 1 = 1 + K + (j - 1) /\ n = 1 + K + i
        /\ j \in 1..(N - 1) /\ j \in 1..N /\ i \in 1..N /\ j - 1 \in 0..N /\ j \in 0..N
    BY <1>2, <1>3, <1>4, <1>10
  <2> HIDE DEF i, j
  <2>2. h[m] = f[j] /\ h[m - 1] = f[j - 1] /\ full[m] = tail[j] /\ full[n] = tail[i]
    BY <1>2, <1>4, <1>5, <2>1
  <2>3. f[j] = Enter(there, f[j - 1], tail[j]) /\ f[j] # Nowhere /\ f[j - 1] # Nowhere
        /\ f[j - 1] \in Seq(S) /\ tail[j] \in S
    BY <1>7, <2>1
  <2>4. ~Up(tail[j]) /\ ~Stay(tail[j]) /\ ~IsRoot(tail[j])
    BY <1>2, <1>8, <2>1, <2>2
  <2>5. \A at \in DOMAIN Links : tail[j] # Last(at)
    BY <1>8, <2>1, <2>2
  <2>6. f[j] = Append(f[j - 1], tail[j])
    <3> DEFINE d == f[j - 1]  name == tail[j]
    <3>1. /\ d \in Seq(S) /\ d # Nowhere /\ name \in S /\ ~IsRoot(name) /\ ~Stay(name) /\ ~Up(name)
          /\ Enter(there, d, name) # Nowhere /\ \A at \in DOMAIN Links : name # Last(at)
      BY <2>3, <2>4, <2>5
    <3> HIDE DEF d, name
    <3>2. Enter(there, d, name) = Append(d, name)
      BY <3>1, EnterDown
    <3> QED BY <2>3, <3>2 DEF d, name
  <2> QED BY <2>2, <2>6
<1> QED BY <1>9, <1>10

\* A plain path is made into one that leads to the same directory from
\* wherever one is, or goes up past the root.
LeadsPastRoot(there, from, path) ==
    \E n \in 1..Len(path) : Up(path[n]) /\ Walk(there, from, Append(SubSeq(path, 1, n - 1), "")) = <<>>
IsMeant(short, there, from, path) ==
    IF short.ok
    THEN /\ short.path \in Seq(Names) /\ short.path # <<>> /\ IsRoot(short.path[1])
         /\ IF Len(short.path) = 1 THEN Walk(there, from, path) = <<>>
            ELSE \A a : Walk(there, a, short.path) = Walk(there, from, path)
    ELSE LeadsPastRoot(there, from, path)

\* The main lemma: what cd and pushd make of a plain path.
LEMMA PlainIsMeant ==
    ASSUME NEW there, Tree(there), NEW from \in there, Open(from),
           NEW path \in Seq(Names), path # <<>>, IsPlain(path), Walk(there, from, path) # Nowhere
    PROVE  IsMeant(NoDotDot(NoDot(Whole(from, path))), there, from, path)
<1> DEFINE S == Names  e == ""  N == Len(path)
<1>1. e \in S /\ IsRoot(e) /\ there \subseteq Seq(S) /\ from \in Places(there)
  BY NamesIs DEF IsRoot, Tree, Places
<1> HIDE DEF e
<1>2. Begin(from, path) \in Places(there)
  BY <1>1, WalkEnds
<1>3. PICK g : IsWalk(g, there, Begin(from, path), path)
  BY <1>2, WalkExists
<1>4. Walk(there, from, path) = g[N]
  BY <1>3, WalkIs
<1>5. PICK base, c, tail, f : IsFrom(there, from, path, g, base, c, tail, f)
  BY <1>3, IsFromSome
<1> DEFINE M == Len(tail)  K == Len(base)  t == NoStay(tail)  J == Len(t)
           u == <<e>> \o base  full == u \o t  Length == Len(full)
<1>6. /\ base \in there /\ Open(base) /\ base \in Seq(S)
      /\ tail \in Seq(S) /\ tail # <<>> /\ IsWalk(f, there, base, tail)
      /\ c \in {0, 1} /\ N = c + M
      /\ \A n \in 1..M : tail[n] = path[c + n]
      /\ \A n \in 0..M : f[n] = g[c + n]
  <2>1. base \in there /\ Open(base) /\ base \in Seq(S)
    BY <1>1, <1>5 DEF IsFrom
  <2>2. /\ tail \in Seq(S) /\ tail # <<>> /\ IsWalk(f, there, base, tail)
        /\ c \in {0, 1} /\ N = c + M
    BY <1>5 DEF IsFrom
  <2>3. \A n \in 1..M : tail[n] = path[c + n]
    BY <1>5 DEF IsFrom
  <2>4. \A n \in 0..M : f[n] = g[c + n]
    BY <1>5 DEF IsFrom
  <2> QED BY <2>1, <2>2, <2>3, <2>4
<1>7. Whole(from, path) = u \o tail
  BY <1>5, Zenon DEF IsFrom, e
<1>8. K \in Nat /\ M \in Nat \ {0} /\ N \in Nat \ {0} /\ M \in 0..M
  BY <1>6
<1>9. OnlyNames(tail)
  BY <1>5, PlainTail
<1>10. f[M] = Walk(there, from, path) /\ f[M] # Nowhere
  BY <1>4, <1>6, <1>8
<1>11. /\ t \in Seq(S) /\ J \in Nat /\ J <= M
       /\ \A n \in 1..J : t[n] = tail[n]
       /\ f[J] = f[M]
  BY <1>6, <1>9, <1>10, NoStayIs
<1>12. NoDot(Whole(from, path)) = full
  <2>1. NoDot((<<e>> \o base) \o tail) = (<<e>> \o base) \o NoStay(tail)
    BY <1>1, <1>6, <1>9, NoDotIs
  <2> QED BY <1>7, <2>1
<1>13. IsJoined(S, full, e, base, t)
  BY <1>1, <1>6, <1>11, Joined
<1> HIDE DEF t, u, full
<1> DEFINE k == [n \in 0..J |-> f[n]]
<1>14. IsWalk(k, there, base, t)
  <2>1. \A n \in 0..J : n \in 0..M
    BY <1>8, <1>11
  <2>2. f \in [0..M -> Places(there)] /\ f[0] = base
        /\ \A n \in 1..M : f[n] = Enter(there, f[n - 1], tail[n])
    BY <1>6 DEF IsWalk, Goes
  <2>3. k \in [0..J -> Places(there)] /\ k[0] = base
    <3>1. 0 \in 0..J
      BY <1>11
    <3> QED BY <2>1, <2>2, <3>1
  <2>4. \A n \in 0..J : k[n] = f[n]
    OBVIOUS
  <2> HIDE DEF k
  <2>5. \A n \in 1..J : k[n] = Enter(there, k[n - 1], t[n])
    <3> SUFFICES ASSUME NEW n \in 1..J PROVE k[n] = Enter(there, k[n - 1], t[n])
      OBVIOUS
    <3>1. n \in 0..J /\ n - 1 \in 0..J /\ n \in 1..M
      BY <1>8, <1>11
    <3>2. k[n] = f[n] /\ k[n - 1] = f[n - 1] /\ t[n] = tail[n]
      BY <1>11, <2>4, <3>1
    <3> QED BY <2>2, <3>1, <3>2
  <2> QED BY <2>3, <2>5 DEF IsWalk, Goes
<1>15. PICK h : /\ IsWalk(h, there, <<>>, full)
                /\ \A n \in 0..K : h[1 + n] = SubSeq(base, 1, n)
                /\ \A n \in 0..J : h[1 + K + n] = k[n]
  <2>1. \A d : Enter(there, d, e) = d
    BY <1>1, RootIs
  <2> HIDE DEF k
  <2>2. base \in there /\ Open(base) /\ base \in Seq(S) /\ e \in S /\ t \in Seq(S)
    BY <1>1, <1>6, <1>11
  <2>3. Continues(there, e, base, t, k)
    BY <1>14, <2>1, <2>2, Continue
  <2> QED BY <2>3 DEF Continues, full, u
<1>16. \A n \in 0..J : h[1 + K + n] = f[n]
  BY <1>15
<1> HIDE DEF k
<1>17. Down(h, full)
  <2>1. IsThrough(h, there, base, t, f, full)
    BY <1>15, <1>16 DEF IsThrough
  <2> QED BY <1>1, <1>6, <1>9, <1>10, <1>13, <2>1, ThroughDown DEF t
<1>18. /\ full \in Seq(S) /\ Length = 1 + K + J /\ full[1] = e
       /\ \A n \in 1..K : full[1 + n] = base[n]
       /\ \A n \in 1..J : full[1 + K + n] = t[n]
  BY <1>13 DEF IsJoined
<1> HIDE DEF Length, K, J, M, N
<1>19. h[Length] = Walk(there, from, path) /\ Length \in Nat \ {0}
  <2>1. J \in 0..J
    BY <1>11
  <2> QED BY <1>8, <1>10, <1>11, <1>16, <1>18, <2>1
<1>20. IsShortened(NoDotDot(full), there, h, S, full)
  <2>1. full # <<>>
    BY <1>18, <1>19 DEF Length
  <2>2. IsRoot(full[1]) /\ h[Len(full)] # Nowhere
    BY <1>1, <1>18, <1>19 DEF Length
  <2> QED BY <1>1, <1>15, <1>17, <1>18, <2>1, <2>2, Shortened
<1> DEFINE short == NoDotDot(full)
<1> HIDE DEF short
<1>21. ASSUME short.ok PROVE IsMeant(short, there, from, path)
  <2>1. /\ short.path \in Seq(S) /\ short.path # <<>> /\ short.path[1] = e
        /\ IF Len(short.path) = 1 THEN h[Length] = <<>>
           ELSE \A a : Walk(there, a, short.path) = h[Length]
    BY <1>18, <1>20, <1>21, Zenon DEF IsShortened, Length, short
  <2>2. IsRoot(short.path[1])
    BY <1>1, <2>1
  <2> QED BY <1>19, <1>21, <2>1, <2>2, Zenon DEF IsMeant
<1>22. ASSUME ~short.ok PROVE IsMeant(short, there, from, path)
  <2>1. PICK n \in 2..Length : Up(full[n]) /\ h[n - 1] = <<>>
    BY <1>20, <1>22, Zenon DEF IsShortened, PastTop, Length, short
  <2>2. ~(n <= 1 + K)
    <3> SUFFICES ASSUME n <= 1 + K PROVE FALSE
      OBVIOUS
    <3> DEFINE i == n - 1
    <3>1. i \in 1..K /\ n = 1 + i
      BY <1>8, <1>19
    <3> HIDE DEF i
    <3>2. Up(base[i])
      BY <1>18, <2>1, <3>1
    <3>3. base[i] \notin {"", ".", ".."}
      BY <1>6, <3>1, NamesOf DEF K
    <3> QED BY <3>2, <3>3 DEF Up
  <2> DEFINE j == n - 1 - K  i == c + j
  <2>3. /\ j \in 1..J /\ j - 1 \in 0..J /\ n = 1 + K + j /\ n - 1 = 1 + K + (j - 1)
        /\ j \in 1..M /\ j - 1 \in 0..M /\ i \in 1..N /\ i - 1 = c + (j - 1)
    BY <1>6, <1>8, <1>11, <1>18, <1>19, <2>2
  <2> HIDE DEF j
  <2>4. Up(path[i]) /\ g[i - 1] = <<>>
    <3>1. full[n] = tail[j] /\ tail[j] = path[i]
      BY <1>6, <1>11, <1>18, <2>3 DEF M
    <3>2. h[n - 1] = f[j - 1] /\ f[j - 1] = g[i - 1]
      BY <1>6, <1>16, <2>3 DEF M
    <3> QED BY <2>1, <3>1, <3>2
  <2> HIDE DEF i
  <2>5. Walk(there, from, Append(SubSeq(path, 1, i - 1), e)) = g[i - 1]
    <3>1. i \in 1..Len(path)
      BY <2>3 DEF N
    <3> QED BY <1>1, <1>3, <2>4, <3>1, StopsAt
  <2>6. LeadsPastRoot(there, from, path)
    BY <2>3, <2>4, <2>5, Zenon DEF LeadsPastRoot, e, N
  <2> QED BY <1>22, <2>6, Zenon DEF IsMeant
<1>23. IsMeant(short, there, from, path)
  BY <1>21, <1>22, Zenon
<1> QED BY <1>12, <1>23 DEF short

\* Whatever path cd is given, the one it makes is one, and is not that of the
\* root with nothing behind it.
IsPath(path) == (\E T : path \in Seq(T)) /\ path # <<>>
Led(path) == path[1] = "" => Len(path) > 1

\* The path from the root is a path of at least two names.
LEMMA WholeIsPath ==
    ASSUME NEW from \in Directories, NEW path \in Seq(Names), path # <<>>
    PROVE  Whole(from, path) \in Seq(Names) /\ Len(Whole(from, path)) > 1
<1> DEFINE S == Names  e == ""
<1>1. from \in Seq(S) /\ e \in S
  BY NamesIs
<1>2. Whole(from, path) = IF Absolute(path) THEN path ELSE (<<e>> \o from) \o path
  BY Zenon DEF Whole
<1> HIDE DEF e
<1>3. Len(path) \in Nat \ {0} /\ Len(from) \in Nat
  BY <1>1
<1>4. CASE Absolute(path)
  BY <1>2, <1>4 DEF Absolute
<1>5. CASE ~Absolute(path)
  <2> DEFINE w == (<<e>> \o from) \o path
  <2>1. IsJoined(S, w, e, from, path)
    BY <1>1, Joined
  <2> HIDE DEF w
  <2>2. w \in Seq(S) /\ Len(w) = 1 + Len(from) + Len(path)
    BY <2>1 DEF IsJoined
  <2>3. Len(w) > 1
    BY <1>3, <2>2
  <2> QED BY <1>2, <1>5, <2>2, <2>3 DEF w
<1> QED BY <1>4, <1>5

\* Deleting "." leaves a path.
LEMMA NoDotIsPath ==
    ASSUME NEW S, NEW path \in Seq(S), Len(path) > 1
    PROVE  IsPath(NoDot(path))
<1> DEFINE n == Len(path)
           before == SubSeq(path, 1, n - 2)
           x == path[n - 1] \o DotNames[path[n]]
           e == ""
           T == S \cup {x, e}
<1>1. n \in Nat /\ n - 2 \in 0..n
  OBVIOUS
<1>2. NoDot(path) \in {Front(path), Append(before, e), Append(before, x), path}
  BY Zenon DEF NoDot
<1> HIDE DEF e, x
<1>3. path \in Seq(T) /\ e \in T /\ x \in T
  <2>1. S \subseteq T
    OBVIOUS
  <2> HIDE DEF T
  <2>2. path \in Seq(T)
    BY <2>1, Wider
  <2> QED BY <2>2 DEF T
<1> HIDE DEF T
<1>4. before \in Seq(T)
  BY <1>1, <1>3, FirstPart
<1> HIDE DEF before
<1>5. Append(before, e) \in Seq(T) \ {<<>>} /\ Append(before, x) \in Seq(T) \ {<<>>}
  BY <1>3, <1>4, AppendProperties
<1>6. path # <<>>
  BY <1>1
<1>7. Front(path) \in Seq(T) /\ Front(path) # <<>>
  <2> DEFINE u == Front(path)
  <2>1. u \in Seq(T) /\ Len(u) = n - 1
    BY <1>3, <1>6, FrontOf
  <2> HIDE DEF u
  <2>2. Len(u) # 0
    BY <1>1, <2>1
  <2>3. u # <<>>
    BY <2>2
  <2> QED BY <2>1, <2>3 DEF u
<1>8. NoDot(path) \in Seq(T) /\ NoDot(path) # <<>>
  BY <1>2, <1>3, <1>5, <1>6, <1>7, Zenon
<1> QED BY <1>8 DEF IsPath

\* A pair with another path.
LEMMA Except ==
    ASSUME NEW S, NEW x \in Stacks(S), NEW v
    PROVE  ([x EXCEPT !.path = v].ok <=> x.ok) /\ [x EXCEPT !.path = v].path = v
BY Zenon DEF Stacks

\* Deleting ".." leaves a path.
LEMMA NoDotDotIsPath ==
    ASSUME NEW S, NEW path \in Seq(S), path # <<>>
    PROVE  NoDotDot(path) \in Stacks(S)
<1>1. PICK so : IsShortening(so, S, path)
  BY ShorteningExists
<1>2. NoDotDot(path) = so[Len(path)]
  BY <1>1, NoDotDotIs
<1>3. Len(path) \in 1..Len(path)
  OBVIOUS
<1> QED BY <1>1, <1>2, <1>3 DEF IsShortening

\* And correct_path makes one.
LEMMA CorrectIsPath ==
    ASSUME NEW from \in Directories, NEW path \in Seq(Names), path # <<>>
    PROVE  LET short   == NoDotDot(NoDot(Whole(from, path)))
               correct == correct_path(Text(from), path)
           IN  /\ IsPath(correct.path) /\ Led(correct.path) /\ (correct.ok <=> short.ok)
               /\ short.ok => correct.path = IF short.path = <<"">> THEN <<"", "">> ELSE short.path
<1> DEFINE whole == NoDot(Whole(from, path))
           short == NoDotDot(whole)
           correct == correct_path(Text(from), path)
           e == ""
<1>1. IsPath(whole)
  BY WholeIsPath, NoDotIsPath
<1>2. PICK T : whole \in Seq(T) /\ whole # <<>>
  BY <1>1 DEF IsPath
<1>3. short \in Stacks(T)
  BY <1>2, NoDotDotIsPath
<1>4. correct = IF short.path = <<e>> \/ ~short.ok THEN [short EXCEPT !.path = <<e, e>>] ELSE short
  BY CorrectIs
<1>5. ([short EXCEPT !.path = <<e, e>>].ok <=> short.ok) /\ [short EXCEPT !.path = <<e, e>>].path = <<e, e>>
  BY <1>3, Except
<1>6. short.path \in Seq(T) /\ short.path # <<>>
  BY <1>3 DEF Stacks
<1> HIDE DEF short, correct
<1>7. /\ correct.ok <=> short.ok
      /\ short.ok => correct.path = IF short.path = <<e>> THEN <<e, e>> ELSE short.path
      /\ correct.path = <<e, e>> \/ (correct.path = short.path /\ short.path # <<e>>)
  BY <1>4, <1>5, Zenon
<1>8. CASE correct.path = <<e, e>>
  <2> HIDE DEF e
  <2>1. <<e, e>> \in Seq({e}) /\ <<e, e>> # <<>> /\ Len(<<e, e>>) > 1
    OBVIOUS
  <2>2. IsPath(correct.path) /\ Led(correct.path)
    BY <1>8, <2>1 DEF IsPath, Led
  <2> QED BY <1>7, <2>2 DEF e, correct, short
<1>9. CASE correct.path = short.path /\ short.path # <<e>>
  <2> DEFINE p == short.path
  <2> HIDE DEF p
  <2>1. p \in Seq(T) /\ p # <<>> /\ p # <<e>>
    BY <1>6, <1>9 DEF p
  <2>2. ASSUME p[1] = e, ~(Len(p) > 1) PROVE FALSE
    <3> HIDE DEF e
    <3>1. Len(p) = 1
      <4>1. p \in Seq(T) /\ p # <<>>
        BY <2>1
      <4>2. Len(p) \in Nat /\ Len(p) # 0
        BY <4>1
      <4> DEFINE n == Len(p)
      <4>3. n \in Nat /\ n # 0
        BY <4>2
      <4>4. ~(n > 1)
        BY <2>2
      <4> HIDE DEF n
      <4>5. n = 1
        BY <4>3, <4>4
      <4> QED BY <4>5 DEF n
    <3>2. p = <<e>>
      BY <2>1, <2>2, <3>1
    <3> QED BY <2>1, <3>2
  <2>3. IsPath(p) /\ Led(p)
    BY <2>1, <2>2, Zenon DEF IsPath, Led
  <2>4. IsPath(correct.path) /\ Led(correct.path)
    BY <1>9, <2>3 DEF p
  <2> QED BY <1>7, <2>4 DEF correct, short
<1> QED BY <1>7, <1>8, <1>9

\* The path of the root leads there.
LEMMA RootPath ==
    ASSUME NEW there, Tree(there), NEW from
    PROVE  Walk(there, from, <<"", "">>) = <<>>
<1> DEFINE e == ""  path == <<e, e>>  start == <<>>
<1>1. IsRoot(e)
  BY DEF IsRoot
<1> HIDE DEF e
<1>2. path \in Seq({e}) /\ Len(path) = 2 /\ path[1] = e /\ path[2] = e /\ Len(path) > 1
  OBVIOUS
<1> HIDE DEF path
<1>3. Begin(from, path) = start
  BY <1>1, <1>2, RootIs
<1>4. start \in Places(there)
  <2>1. \A n \in 0..(Len(<<>>) - 1) : FALSE
    OBVIOUS
  <2> QED BY <2>1 DEF Tree, Places, Open
<1> HIDE DEF start
<1>5. PICK f : IsWalk(f, there, start, path)
  BY <1>2, <1>4, WalkExists
<1>6. Walk(there, from, path) = f[2]
  BY ZenonT(40), <1>2, <1>3, <1>5, WalkIs
<1>7. f[0] = start /\ f[1] = Enter(there, f[0], e) /\ f[2] = Enter(there, f[1], e)
  <2>1. f[0] = start /\ \A n \in 1..2 : f[n] = Enter(there, f[n - 1], path[n])
    BY <1>2, <1>5 DEF IsWalk, Goes
  <2>2. 1 \in 1..2 /\ 2 \in 1..2 /\ 1 - 1 = 0 /\ 2 - 1 = 1
    OBVIOUS
  <2> QED BY <1>2, <2>1, <2>2
<1>8. f[2] = start
  BY <1>1, <1>7, RootIs
<1> QED BY <1>6, <1>8 DEF path, e, start

\* So correct_path keeps where a plain path leads, or fails past the root.
LEMMA CorrectIsMeant ==
    ASSUME NEW there, Tree(there), NEW from \in there, Open(from),
           NEW path \in Seq(Names), path # <<>>, IsPlain(path), Walk(there, from, path) # Nowhere
    PROVE  LET correct == correct_path(Text(from), path)
           IN  IF correct.ok THEN Walk(there, from, correct.path) = Walk(there, from, path)
               ELSE LeadsPastRoot(there, from, path)
<1> DEFINE short == NoDotDot(NoDot(Whole(from, path)))
           correct == correct_path(Text(from), path)
           d == Walk(there, from, path)
           e == ""
<1>1. IsMeant(short, there, from, path)
  BY PlainIsMeant
<1>2. /\ correct.ok <=> short.ok
      /\ short.ok => correct.path = IF short.path = <<e>> THEN <<e, e>> ELSE short.path
  <2>1. from \in Directories
    BY DEF Tree
  <2> QED BY <2>1, CorrectIsPath
<1> HIDE DEF short, correct, d
<1>3. ASSUME short.ok PROVE Walk(there, from, correct.path) = d
  <2>1. /\ short.path \in Seq(Names) /\ short.path # <<>> /\ short.path[1] = e
        /\ IF Len(short.path) = 1 THEN d = <<>> ELSE \A a : Walk(there, a, short.path) = d
    BY <1>1, <1>3, Zenon DEF IsMeant, IsRoot, d
  <2>2. CASE short.path = <<e>>
    <3>1. Len(short.path) = 1
      <4> HIDE DEF e
      <4> QED BY <2>2
    <3>2. d = <<>>
      BY <2>1, <3>1, Zenon
    <3>3. correct.path = <<e, e>>
      BY <1>2, <1>3, <2>2, Zenon
    <3> QED BY <3>2, <3>3, RootPath
  <2>3. CASE short.path # <<e>>
    <3> DEFINE p == short.path
    <3>1. p \in Seq(Names) /\ p[1] = e /\ p # <<e>>
      BY <2>1, <2>3
    <3>2. Len(p) # 1
      <4> HIDE DEF p, e
      <4>1. Len(p) = 1 => p = <<p[1]>>
        BY <3>1
      <4> QED BY <3>1, <4>1
    <3>3. correct.path = short.path
      BY <1>2, <1>3, <2>3, Zenon
    <3> QED BY <2>1, <3>2, <3>3, Zenon
  <2> QED BY <2>2, <2>3
<1>4. ASSUME ~short.ok PROVE LeadsPastRoot(there, from, path)
  BY <1>1, <1>4, Zenon DEF IsMeant
<1>5. IF correct.ok THEN Walk(there, from, correct.path) = d ELSE LeadsPastRoot(there, from, path)
  BY <1>2, <1>3, <1>4, Zenon
<1> QED BY <1>5 DEF correct, d

-----------------------------------------------------------------------------
(* The commands.                                                           *)

\* A path from the root leads to the same directory from everywhere, and any
\* path that begins with no name leads from there to there again.
LEMMA FromRoot ==
    ASSUME NEW there, Tree(there), NEW S, NEW path \in Seq(S), IsRoot(path[1]), Len(path) > 1,
           NEW a, NEW b
    PROVE  Walk(there, a, path) = Walk(there, b, path)
<1> DEFINE start == <<>>
<1>1. Begin(a, path) = start /\ Begin(b, path) = start
  BY RootIs
<1>2. start \in Places(there)
  <2>1. \A n \in 0..(Len(<<>>) - 1) : FALSE
    OBVIOUS
  <2> QED BY <2>1 DEF Tree, Places, Open
<1> HIDE DEF start
<1>3. PICK f : IsWalk(f, there, start, path)
  BY <1>2, WalkExists
<1>4. Walk(there, a, path) = f[Len(path)]
  BY <1>1, <1>3, WalkIs
<1>5. Walk(there, b, path) = f[Len(path)]
  BY <1>1, <1>3, WalkIs
<1> QED BY <1>4, <1>5

\* From where it leads.
LEMMA Again ==
    ASSUME NEW there, Tree(there), NEW from \in Places(there),
           NEW S, NEW path \in Seq(S), path # <<>>, IsRoot(path[1])
    PROVE  Walk(there, Walk(there, from, path), path) = Walk(there, from, path)
<1>1. CASE Len(path) > 1
  BY <1>1, FromRoot
<1>2. CASE ~(Len(path) > 1)
  <2>1. Len(path) = 1
    <3> DEFINE n == Len(path)
    <3>1. n \in Nat /\ n # 0
      OBVIOUS
    <3>2. ~(n > 1)
      BY <1>2
    <3> HIDE DEF n
    <3>3. n = 1
      BY <3>1, <3>2
    <3> QED BY <3>3 DEF n
  <2>2. Begin(from, path) = from
    BY <1>2 DEF Begin
  <2>3. PICK f : IsWalk(f, there, from, path)
    BY WalkExists
  <2>4. Walk(there, from, path) = f[1]
    <3>1. Walk(there, from, path) = f[Len(path)]
      BY <2>2, <2>3, WalkIs
    <3> QED BY <2>1, <3>1
  <2>5. f[0] = from /\ f[1] = Enter(there, f[0], path[1])
    <3>1. 1 \in 1..1 /\ 1 - 1 = 0
      OBVIOUS
    <3> QED BY <2>1, <2>3, <3>1 DEF IsWalk, Goes
  <2>6. Walk(there, from, path) = from
    BY <2>4, <2>5, RootIs
  <2> QED BY <2>6
<1> QED BY <1>1, <1>2

\* When a directory is taken away those left are still a tree, for nothing was
\* in it.
LEMMA TreeKept ==
    ASSUME Tree(dirs), NEW d \in dirs, Removable(d)
    PROVE  Tree(dirs \ {d})
<1>1. d # <<>> /\ \A x \in dirs : d = x \/ ~IsPrefix(d, x)
  BY DEF Removable
<1>2. ASSUME NEW x \in (dirs \ {d}) \ {<<>>} PROVE Front(x) \in dirs \ {d}
  <2>1. Front(x) \in dirs /\ x \in Directories
    BY DEF Tree
  <2>2. ASSUME Front(x) = d PROVE IsPrefix(d, x)
    <3> DEFINE S == STRING
    <3>1. x \in Seq(S)
      BY <2>1, OfDirectory
    <3> HIDE DEF S
    <3>2. d \in Seq(S) /\ Len(d) = Len(x) - 1 /\ Len(x) \in Nat \ {0} /\ \A k \in 1..(Len(x) - 1) : d[k] = x[k]
      BY <2>2, <3>1, FrontOf
    <3>3. SubSeq(x, 1, Len(d)) = d
      BY <2>2, <3>2 DEF Front
    <3>4. SubSeq(d, 1, Len(d)) = d
      BY <3>2
    <3> QED BY <3>2, <3>3, <3>4 DEF IsPrefix
  <2> QED BY <1>1, <2>1, <2>2
<1> QED BY <1>1, <1>2 DEF Tree

\* What is remembered of pushd: the directory it was given, or none any more.
IsEntry(there, entry) ==
    /\ IsPath(entry.path) /\ entry.of # Nowhere
    /\ IsRoot(entry.path[1]) => /\ Len(entry.path) > 1
                                /\ Walk(there, <<>>, entry.path) \in {entry.of, Nowhere}

\* It stays so when directories go.
LEMMA EntryKept ==
    ASSUME NEW there, Tree(there), NEW fewer, Tree(fewer), fewer \subseteq there,
           NEW entry, IsEntry(there, entry)
    PROVE  IsEntry(fewer, entry)
<1> DEFINE start == <<>>
<1>1. start \in Places(fewer)
  <2>1. \A n \in 0..(Len(<<>>) - 1) : FALSE
    OBVIOUS
  <2> QED BY <2>1 DEF Tree, Places, Open
<1> HIDE DEF start
<1>2. PICK S : entry.path \in Seq(S)
  BY DEF IsEntry, IsPath
<1>3. Walk(fewer, start, entry.path) \in {Walk(there, start, entry.path), Nowhere}
  BY <1>1, <1>2, WalkFewer
<1>4. ASSUME IsRoot(entry.path[1])
      PROVE  Len(entry.path) > 1 /\ Walk(fewer, start, entry.path) \in {entry.of, Nowhere}
  <2>1. Len(entry.path) > 1 /\ Walk(there, start, entry.path) \in {entry.of, Nowhere}
    BY <1>4 DEF IsEntry, start
  <2> QED BY <1>3, <2>1
<1>5. IsPath(entry.path) /\ entry.of # Nowhere
  BY DEF IsEntry
<1> QED BY <1>4, <1>5, Zenon DEF IsEntry, start

\* Where the shell is, among the directories there are.
Placed == Tree(dirs) /\ cwd \in dirs \ Closed /\ Open(cwd)
Changed(path) ==
    \/ returned' = TRUE /\ dirs' = dirs /\ cwd' = Walk(dirs, cwd, path)
    \/ /\ returned' = FALSE /\ cwd' = cwd
       /\ \/ dirs' = dirs /\ Walk(dirs, cwd, path) \notin dirs \ Closed
          \/ dirs' = dirs \ {Walk(dirs, cwd, path)}

\* What chdir does keeps the shell in a directory there is.
LEMMA ChangesKeeps ==
    ASSUME Placed, NEW command, NEW path, IsPath(path), Changes(command, path)
    PROVE  /\ Placed' /\ dirs' \subseteq dirs /\ typed' = command /\ PWD' = path /\ Changed(path)
<1> DEFINE d == Walk(dirs, cwd, path)
<1>1. Tree(dirs) /\ cwd \in dirs \ Closed /\ Open(cwd) /\ cwd \in Places(dirs)
  BY DEF Placed, Places
<1>2. PICK S : path \in Seq(S)
  BY DEF IsPath
<1>3. d \in Places(dirs)
  BY <1>1, <1>2, WalkEnds
<1>4. Nowhere \notin dirs
  BY <1>1, DirectoriesAssumption DEF Tree
<1>5. PWD' = path
  BY DEF Changes
<1>6. CASE d \in dirs \ Closed /\ cwd' = d /\ UNCHANGED dirs /\ Ran(command, TRUE, 0, <<>>)
  <2>1. Open(d)
    BY <1>3, <1>4, <1>6 DEF Places
  <2>2. dirs' = dirs /\ cwd' = d /\ returned' = TRUE /\ typed' = command
    BY <1>6 DEF Ran, Called, Ended
  <2>3. Placed'
    <3>1. Tree(dirs')
      BY <1>1, <2>2
    <3>2. cwd' \in dirs' \ Closed
      BY <1>6, <2>2
    <3>3. Open(cwd')
      BY <2>1, <2>2
    <3> QED BY <3>1, <3>2, <3>3 DEF Placed
  <2> QED BY <1>5, <2>2, <2>3 DEF Changed
<1>7. CASE /\ \/ d \notin dirs \ Closed /\ UNCHANGED dirs
              \/ d \in dirs /\ Removable(d) /\ dirs' = dirs \ {d}
           /\ UNCHANGED cwd /\ Ran(command, FALSE, RCODE_NFUN_INVALID_USSING, <<>>)
  <2>1. cwd' = cwd /\ returned' = FALSE /\ typed' = command
    BY <1>7 DEF Ran, Called, Ended
  <2>2. CASE d \notin dirs \ Closed /\ dirs' = dirs
    <3>1. Tree(dirs')
      BY <1>1, <2>2
    <3>2. cwd' \in dirs' \ Closed
      BY <1>1, <2>1, <2>2
    <3>3. Open(cwd')
      BY <1>1, <2>1
    <3>4. Placed'
      BY <3>1, <3>2, <3>3 DEF Placed
    <3> QED BY <1>5, <2>1, <2>2, <3>4 DEF Changed
  <2>3. CASE d \in dirs /\ Removable(d) /\ dirs' = dirs \ {d}
    <3>1. Tree(dirs')
      <4>1. Tree(dirs \ {d})
        BY <1>1, <2>3, TreeKept
      <4> QED BY <2>3, <4>1
    <3>2. cwd' \in dirs' \ Closed
      BY <1>1, <2>1, <2>3 DEF Removable
    <3>3. Open(cwd')
      BY <1>1, <2>1
    <3>4. Placed'
      BY <3>1, <3>2, <3>3 DEF Placed
    <3> QED BY <1>5, <2>1, <2>3, <3>4 DEF Changed
  <2> QED BY <1>7, <2>2, <2>3
<1> QED BY <1>6, <1>7 DEF Changes

StackHolds ==
    /\ \E T : gDirStack \in Seq(T)
    /\ \A n \in 1..Len(gDirStack) : IsEntry(dirs, gDirStack[n])

\* The inductive invariant.
PathsInv == Placed /\ StackHolds /\ DirectoryIsMeant /\ BackWhereItWas /\ WritesHold

\* No command but pushd and popd touches what is remembered.
LEMMA StackKept ==
    ASSUME Placed, Placed', dirs' \subseteq dirs, StackHolds, gDirStack' = gDirStack
    PROVE  StackHolds'
<1>1. Tree(dirs) /\ Tree(dirs')
  BY DEF Placed
<1>2. ASSUME NEW n \in 1..Len(gDirStack) PROVE IsEntry(dirs', gDirStack[n])
  BY <1>1, EntryKept DEF StackHolds
<1>3. \E T : gDirStack' \in Seq(T)
  BY DEF StackHolds
<1>4. \A n \in 1..Len(gDirStack') : IsEntry(dirs', gDirStack'[n])
  BY <1>2
<1> QED BY <1>3, <1>4 DEF StackHolds

\* popd pushes nothing, and pushd one more.
LEMMA StackPopped ==
    ASSUME StackHolds, gDirStack # <<>>
    PROVE  /\ \E T : Front(gDirStack) \in Seq(T)
           /\ \A n \in 1..Len(Front(gDirStack)) : IsEntry(dirs, Front(gDirStack)[n])
           /\ IsEntry(dirs, Last(gDirStack))
<1>1. PICK T : gDirStack \in Seq(T)
  BY DEF StackHolds
<1> DEFINE u == Front(gDirStack)
<1>2. /\ u \in Seq(T) /\ Len(u) = Len(gDirStack) - 1 /\ Len(gDirStack) \in Nat \ {0}
      /\ \A k \in 1..(Len(gDirStack) - 1) : u[k] = gDirStack[k]
  BY <1>1, FrontOf
<1> HIDE DEF u
<1>3. \A n \in 1..Len(u) : n \in 1..Len(gDirStack) /\ u[n] = gDirStack[n]
  BY <1>2
<1>4. \A n \in 1..Len(u) : IsEntry(dirs, u[n])
  BY <1>3 DEF StackHolds
<1>5. IsEntry(dirs, Last(gDirStack))
  <2>1. Len(gDirStack) \in 1..Len(gDirStack)
    BY <1>2
  <2> QED BY <2>1 DEF StackHolds, Last
<1> QED BY <1>2, <1>4, <1>5 DEF u

\* What pushd puts there is an entry.
LEMMA StackPushed ==
    ASSUME StackHolds, NEW entry, IsEntry(dirs, entry), dirs' = dirs,
           gDirStack' = Append(gDirStack, entry)
    PROVE  StackHolds'
<1>1. PICK T : gDirStack \in Seq(T)
  BY DEF StackHolds
<1> DEFINE U == T \cup {entry}  u == Append(gDirStack, entry)
<1>2. gDirStack \in Seq(U) /\ entry \in U
  <2>1. T \subseteq U
    OBVIOUS
  <2> HIDE DEF U
  <2>2. gDirStack \in Seq(U)
    BY <1>1, <2>1, Wider
  <2> QED BY <2>2 DEF U
<1> HIDE DEF U
<1>3. /\ u \in Seq(U) /\ Len(u) = Len(gDirStack) + 1 /\ u[Len(gDirStack) + 1] = entry
      /\ \A k \in 1..Len(gDirStack) : u[k] = gDirStack[k]
  BY <1>2, AppendProperties
<1>4. Len(gDirStack) \in Nat
  BY <1>1
<1>5. gDirStack' = u
  OBVIOUS
<1> HIDE DEF u
<1>6. ASSUME NEW n \in 1..Len(u) PROVE IsEntry(dirs, u[n])
  <2>1. n = Len(gDirStack) + 1 \/ n \in 1..Len(gDirStack)
    BY <1>3, <1>4
  <2> QED BY <1>3, <2>1 DEF StackHolds
<1>7. \E S : gDirStack' \in Seq(S)
  BY <1>3, <1>5
<1>8. \A n \in 1..Len(gDirStack') : IsEntry(dirs', gDirStack'[n])
  BY <1>5, <1>6
<1> QED BY <1>7, <1>8 DEF StackHolds

\* When the directory was changed.
LEMMA ChangedBack ==
    ASSUME Placed, Placed', NEW path, IsPath(path), Changed(path), PWD' = path,
           typed'.name = "popd" /\ returned' /\ IsRoot(path[1]) => cwd' = typed'.of
    PROVE  BackWhereItWas'
<1>1. Tree(dirs) /\ cwd \in Places(dirs)
  BY DEF Placed, Places
<1>2. PICK S : path \in Seq(S) /\ path # <<>>
  BY DEF IsPath
<1>3. ASSUME returned', IsRoot(path[1]) PROVE Walk(dirs', cwd', path) = cwd'
  <2>1. dirs' = dirs /\ cwd' = Walk(dirs, cwd, path)
    BY <1>3, Zenon DEF Changed
  <2>2. Walk(dirs, Walk(dirs, cwd, path), path) = Walk(dirs, cwd, path)
    BY <1>1, <1>2, <1>3, Again
  <2> QED BY <2>1, <2>2
<1> QED BY <1>3, Zenon DEF BackWhereItWas, IsRoot

\* And for cd, with a path that leads where the given one does.
LEMMA ChangedMeant ==
    ASSUME Placed, Placed', NEW argument \in Seq(Names), argument # <<>>,
           NEW path, IsPath(path), Changed(path),
           typed'.path = argument, typed'.from = cwd,
           Walk(dirs, cwd, path) # Nowhere,
           IsPlain(argument) /\ Walk(dirs, cwd, argument) # Nowhere =>
              Walk(dirs, cwd, path) = Walk(dirs, cwd, argument)
    PROVE  DirectoryIsMeant'
<1> DEFINE D == Walk(dirs, cwd, path)
           d == Walk(dirs, cwd, argument)
           e == Walk(dirs', cwd, argument)
<1>1. Tree(dirs) /\ cwd \in Places(dirs) /\ Tree(dirs')
  BY DEF Placed, Places
<1>2. PICK S : path \in Seq(S)
  BY DEF IsPath
<1>3. D \in Places(dirs) /\ D # Nowhere
  BY <1>1, <1>2, WalkEnds
<1>4. D \in dirs
  BY <1>3 DEF Places
<1> SUFFICES ASSUME IsPlain(argument), e # Nowhere
             PROVE  IF returned' THEN e = cwd' ELSE e \in Closed
  BY Zenon DEF DirectoryIsMeant
<1>5. CASE returned' = TRUE /\ dirs' = dirs /\ cwd' = D
  <2>1. e = d
    BY <1>5
  <2> QED BY <1>5, <2>1
<1>6. CASE returned' = FALSE /\ dirs' = dirs /\ D \notin dirs \ Closed
  <2>1. e = d
    BY <1>6
  <2> QED BY <1>4, <1>6, <2>1
<1>7. CASE returned' = FALSE /\ cwd' = cwd /\ dirs' = dirs \ {D}
  <2>1. cwd \in Places(dirs')
    BY <1>7 DEF Placed, Places
  <2>2. e \in {d, Nowhere}
    <3>1. dirs' \subseteq dirs
      BY <1>7
    <3> QED BY <1>1, <2>1, <3>1, WalkFewer
  <2>3. e = D
    BY <2>2
  <2>4. e \in Places(dirs')
    BY <1>1, <2>1, WalkEnds
  <2>5. e \in dirs'
    BY <2>4 DEF Places
  <2> QED BY <1>7, <2>3, <2>5
<1> QED BY <1>5, <1>6, <1>7 DEF Changed

\* What a command says nothing of.
LEMMA Others ==
    /\ typed'.name \notin {"cd"} => DirectoryIsMeant'
    /\ typed'.name \notin {"cd", "popd"} \/ returned' = FALSE => BackWhereItWas'
    /\ typed'.name # "write" => WritesHold'
BY DEF DirectoryIsMeant, BackWhereItWas, WritesHold

\* A command that changes no directory leaves the shell in one.
LEMMA PlacedStays ==
    ASSUME Placed, dirs' = dirs, cwd' = cwd
    PROVE  Placed' /\ dirs' \subseteq dirs
<1>1. Tree(dirs') /\ cwd' \in dirs' \ Closed /\ Open(cwd')
  BY DEF Placed
<1> QED BY <1>1 DEF Placed

\* What cd and pushd are given is a path.
LEMMA ArgumentIs ==
    ASSUME NEW argument \in Arguments \cup {HOME}
    PROVE  argument \in Seq(Names) /\ argument # <<>> /\ IsPath(argument)
<1>1. argument \in Seq(STRING) /\ argument # <<>>
  BY PathsAssumption
<1>2. argument \in Seq(Names)
  BY <1>1, NamesIs
<1> QED BY <1>1, <1>2 DEF IsPath

\* The invariant is kept by cd.
LEMMA CdKeeps ==
    ASSUME PathsInv, cmd_cd
    PROVE  PathsInv'
<1>1. Placed /\ StackHolds /\ gDirStack' = gDirStack
  BY DEF PathsInv, cmd_cd
<1>2. cwd \in dirs /\ Open(cwd) /\ Tree(dirs) /\ cwd \in Directories
  BY <1>1 DEF Placed, Tree
<1> DEFINE Cd(argument) == [name |-> "cd", path |-> argument, from |-> cwd]
<1>3. \A argument : /\ Cd(argument).name = "cd" /\ Cd(argument).path = argument
                    /\ Cd(argument).from = cwd
  OBVIOUS
<1> HIDE DEF Cd
<1>4. ASSUME NEW argument \in Arguments \cup {HOME}, NEW path, IsPath(path),
             Changes(Cd(argument), path), Walk(dirs, cwd, path) # Nowhere,
             IsPlain(argument) /\ Walk(dirs, cwd, argument) # Nowhere =>
                Walk(dirs, cwd, path) = Walk(dirs, cwd, argument)
      PROVE  PathsInv'
  <2>1. /\ Placed' /\ dirs' \subseteq dirs /\ typed' = Cd(argument) /\ PWD' = path /\ Changed(path)
    BY <1>1, <1>4, ChangesKeeps
  <2>2. typed'.name = "cd" /\ typed'.path = argument /\ typed'.from = cwd
    BY <1>3, <2>1
  <2>3. argument \in Seq(Names) /\ argument # <<>>
    BY ArgumentIs
  <2>4. StackHolds'
    BY <1>1, <2>1, StackKept
  <2>5. DirectoryIsMeant'
    BY <1>1, <1>4, <2>1, <2>2, <2>3, ChangedMeant
  <2>6. BackWhereItWas'
    <3>1. typed'.name # "popd"
      BY <2>2
    <3> QED BY <1>1, <1>4, <2>1, <3>1, ChangedBack
  <2>7. WritesHold'
    BY <2>2, Others
  <2> QED BY <2>1, <2>4, <2>5, <2>6, <2>7 DEF PathsInv
<1>5. ASSUME NEW argument \in Arguments \cup {HOME}, Stays(Cd(argument)),
             IsPlain(argument) /\ Walk(dirs, cwd, argument) # Nowhere =>
                LeadsPastRoot(dirs, cwd, argument)
      PROVE  PathsInv'
  <2>1. dirs' = dirs /\ cwd' = cwd /\ returned' = FALSE /\ typed' = Cd(argument)
    BY <1>5 DEF Stays, Ran, Called, Ended
  <2>2. typed'.name = "cd" /\ typed'.path = argument /\ typed'.from = cwd
    BY <1>3, <2>1
  <2>3. Placed' /\ dirs' \subseteq dirs
    BY <1>1, <2>1, PlacedStays
  <2>4. StackHolds'
    BY <1>1, <2>3, StackKept
  <2>5. DirectoryIsMeant'
    <3>1. DOMAIN argument = 1..Len(argument)
      <4>1. argument \in Seq(Names)
        BY ArgumentIs
      <4> QED BY <4>1
    <3>2. LeadsPastRoot(dirs, cwd, argument) => PastRoot(typed.from, typed.path)'
      <4>1. ASSUME LeadsPastRoot(dirs, cwd, argument)
            PROVE  \E n \in DOMAIN argument :
                      argument[n] = ".." /\ Walk(dirs, cwd, Append(SubSeq(argument, 1, n - 1), "")) = <<>>
        BY <3>1, <4>1, Zenon DEF LeadsPastRoot, Up
      <4> QED BY <2>1, <2>2, <4>1, Zenon DEF PastRoot
    <3>3. IsPlain(argument) => \/ Walk(dirs', cwd, argument) = Nowhere
                               \/ PastRoot(typed.from, typed.path)'
      BY <1>5, <2>1, <3>2, Zenon
    <3> QED BY <2>1, <2>2, <3>3, Zenon DEF DirectoryIsMeant
  <2>6. BackWhereItWas' /\ WritesHold'
    BY <2>1, <2>2, Others
  <2> QED BY <2>3, <2>4, <2>5, <2>6 DEF PathsInv
<1>6. CASE \E argument \in Arguments :
             IF Directory(correct_path(Text(cwd), argument))
             THEN Changes(Cd(argument), correct_path(Text(cwd), argument).path)
             ELSE Stays(Cd(argument))
  <2>1. PICK argument \in Arguments :
             IF Directory(correct_path(Text(cwd), argument))
             THEN Changes(Cd(argument), correct_path(Text(cwd), argument).path)
             ELSE Stays(Cd(argument))
    BY <1>6
  <2> DEFINE correct == correct_path(Text(cwd), argument)
  <2>2. argument \in Seq(Names) /\ argument # <<>> /\ argument \in Arguments \cup {HOME}
    BY ArgumentIs
  <2>3. IsPath(correct.path)
    BY <1>2, <2>2, CorrectIsPath
  <2>4. ASSUME IsPlain(argument), Walk(dirs, cwd, argument) # Nowhere
        PROVE  IF correct.ok THEN Walk(dirs, cwd, correct.path) = Walk(dirs, cwd, argument)
               ELSE LeadsPastRoot(dirs, cwd, argument)
    BY <1>2, <2>2, <2>4, CorrectIsMeant
  <2> HIDE DEF correct
  <2>5. CASE Directory(correct)
    <3>1. correct.ok /\ Walk(dirs, cwd, correct.path) # Nowhere
      BY <2>5 DEF Directory
    <3>2. Changes(Cd(argument), correct.path)
      BY <2>1, <2>5, Zenon DEF correct
    <3>3. IsPlain(argument) /\ Walk(dirs, cwd, argument) # Nowhere =>
             Walk(dirs, cwd, correct.path) = Walk(dirs, cwd, argument)
      BY <2>4, <3>1, Zenon
    <3> QED BY <1>4, <2>2, <2>3, <3>1, <3>2, <3>3
  <2>6. CASE ~Directory(correct)
    <3>1. Stays(Cd(argument))
      BY <2>1, <2>6, Zenon DEF correct
    <3>2. ASSUME IsPlain(argument), Walk(dirs, cwd, argument) # Nowhere
          PROVE  LeadsPastRoot(dirs, cwd, argument)
      BY <2>4, <2>6, <3>2, Zenon DEF Directory
    <3> QED BY <1>5, <2>2, <3>1, <3>2
  <2> QED BY <2>5, <2>6
<1>7. CASE IF Walk(dirs, cwd, HOME) # Nowhere THEN Changes(Cd(HOME), HOME) ELSE Stays(Cd(HOME))
  <2>1. HOME \in Arguments \cup {HOME} /\ IsPath(HOME)
    BY ArgumentIs
  <2>2. CASE Walk(dirs, cwd, HOME) # Nowhere
    <3>1. Changes(Cd(HOME), HOME)
      BY <1>7, <2>2, Zenon
    <3> QED BY <1>4, <2>1, <2>2, <3>1
  <2>3. CASE Walk(dirs, cwd, HOME) = Nowhere
    <3>1. Stays(Cd(HOME))
      BY <1>7, <2>3, Zenon
    <3> QED BY <1>5, <2>1, <2>3, <3>1
  <2> QED BY <2>2, <2>3
<1> QED BY <1>6, <1>7, Zenon DEF cmd_cd, PathsInv, Cd

\* The invariant is kept by pushd.
LEMMA PushdKeeps ==
    ASSUME PathsInv, cmd_pushd
    PROVE  PathsInv'
<1>1. Placed /\ StackHolds /\ dirs' = dirs /\ cwd' = cwd
  BY DEF PathsInv, cmd_pushd
<1>2. cwd \in dirs /\ Open(cwd) /\ Tree(dirs) /\ cwd \in Directories /\ cwd \in Places(dirs)
  BY <1>1 DEF Placed, Tree, Places
<1>3. PICK argument \in Arguments :
        LET path == correct_path(Text(cwd), argument)
            entry == [path |-> path.path, of |-> Walk(dirs, cwd, path.path)]
        IN  /\ typed' = [name |-> "pushd", path |-> argument]
            /\ gDirStack' = IF Directory(path) THEN Append(gDirStack, entry) ELSE gDirStack
  BY DEF cmd_pushd, Ran, Called, Pushed
<1> DEFINE correct == correct_path(Text(cwd), argument)
           start == <<>>
           entry == [path |-> correct.path, of |-> Walk(dirs, cwd, correct.path)]
<1>4. IsPath(correct.path) /\ Led(correct.path)
  <2>1. argument \in Seq(Names) /\ argument # <<>>
    BY ArgumentIs
  <2> QED BY <1>2, <2>1, CorrectIsPath
<1>5. gDirStack' = IF Directory(correct) THEN Append(gDirStack, entry) ELSE gDirStack
  BY <1>3
<1> HIDE DEF correct, start
<1>6. ASSUME Directory(correct) PROVE IsEntry(dirs, entry)
  <2>1. entry.path = correct.path /\ entry.of = Walk(dirs, cwd, correct.path) /\ entry.of # Nowhere
    BY <1>6 DEF Directory
  <2> HIDE DEF entry
  <2>2. ASSUME IsRoot(entry.path[1])
        PROVE  Len(entry.path) > 1 /\ Walk(dirs, start, entry.path) = entry.of
    <3> DEFINE p == correct.path
    <3>1. p = entry.path
      BY <2>1
    <3> HIDE DEF p
    <3>2. IsRoot(p[1])
      BY <2>2, <3>1
    <3>3. Len(p) > 1
      BY <1>4, <3>2 DEF Led, IsRoot, p
    <3>4. PICK S : p \in Seq(S)
      BY <1>4 DEF IsPath, p
    <3>5. Walk(dirs, start, p) = Walk(dirs, cwd, p)
      BY <1>2, <3>2, <3>3, <3>4, FromRoot
    <3> QED BY <2>1, <3>1, <3>3, <3>5
  <2> QED BY <1>4, <2>1, <2>2, Zenon DEF IsEntry, start
<1>7. Placed' /\ dirs' \subseteq dirs
  BY <1>1, PlacedStays
<1>8. StackHolds'
  <2> HIDE DEF entry
  <2>1. CASE Directory(correct)
    BY <1>1, <1>5, <1>6, <2>1, StackPushed
  <2>2. CASE ~Directory(correct)
    BY <1>1, <1>5, <1>7, <2>2, StackKept
  <2> QED BY <2>1, <2>2
<1>9. typed'.name = "pushd"
  BY <1>3
<1>10. DirectoryIsMeant' /\ BackWhereItWas' /\ WritesHold'
  BY <1>9, Others
<1> QED BY <1>7, <1>8, <1>10 DEF PathsInv

\* The invariant is kept by popd.
LEMMA PopdKeeps ==
    ASSUME PathsInv, cmd_popd
    PROVE  PathsInv'
<1>1. Placed /\ StackHolds
  BY DEF PathsInv
<1>2. cwd \in dirs /\ Tree(dirs) /\ cwd \in Places(dirs)
  BY <1>1 DEF Placed, Places
<1> DEFINE entry == Last(gDirStack)
           Popd == [name |-> "popd", path |-> entry.path, of |-> entry.of]
           start == <<>>
<1>3. CASE gDirStack # <<>> /\ Changes(Popd, entry.path) /\ gDirStack' = Front(gDirStack)
  <2>1. /\ \E T : Front(gDirStack) \in Seq(T)
        /\ \A n \in 1..Len(Front(gDirStack)) : IsEntry(dirs, Front(gDirStack)[n])
        /\ IsEntry(dirs, entry)
    BY <1>1, <1>3, StackPopped
  <2> HIDE DEF entry
  <2>2. Popd.name = "popd" /\ Popd.of = entry.of
    OBVIOUS
  <2> HIDE DEF Popd
  <2>3. IsPath(entry.path)
    BY <2>1 DEF IsEntry
  <2>4. Placed' /\ dirs' \subseteq dirs /\ typed' = Popd /\ PWD' = entry.path /\ Changed(entry.path)
    BY <1>1, <1>3, <2>3, ChangesKeeps
  <2>5. StackHolds'
    <3> DEFINE u == Front(gDirStack)
    <3>1. gDirStack' = u /\ \E T : u \in Seq(T)
      BY <1>3, <2>1
    <3>2. Tree(dirs) /\ Tree(dirs')
      BY <1>1, <2>4 DEF Placed
    <3>3. \A n \in 1..Len(u) : IsEntry(dirs, u[n])
      BY <2>1
    <3> HIDE DEF u
    <3>4. \A n \in 1..Len(u) : IsEntry(dirs', u[n])
      BY <2>4, <3>2, <3>3, EntryKept
    <3>5. \A n \in 1..Len(gDirStack') : IsEntry(dirs', gDirStack'[n])
      BY <3>1, <3>4
    <3>6. \E T : gDirStack' \in Seq(T)
      BY <3>1
    <3> QED BY <3>5, <3>6 DEF StackHolds
  <2>6. ASSUME returned', IsRoot(entry.path[1]) PROVE cwd' = typed'.of
    <3>1. cwd' = Walk(dirs, cwd, entry.path) /\ dirs' = dirs
      BY <2>4, <2>6, Zenon DEF Changed
    <3>2. cwd' # Nowhere
      <4>1. cwd' \in Directories
        BY <2>4 DEF Placed, Tree
      <4> QED BY <4>1, OfDirectory
    <3> DEFINE p == entry.path
    <3>3. PICK S : p \in Seq(S)
      BY <2>3 DEF IsPath
    <3>4. IsRoot(p[1]) /\ Len(p) > 1 /\ Walk(dirs, start, p) \in {entry.of, Nowhere}
      BY <2>1, <2>6 DEF IsEntry
    <3> HIDE DEF p, start
    <3>5. Walk(dirs, start, p) = Walk(dirs, cwd, p)
      BY <1>2, <3>3, <3>4, FromRoot
    <3>6. Walk(dirs, cwd, p) = entry.of
      BY <3>1, <3>2, <3>4, <3>5 DEF p
    <3> QED BY <2>2, <2>4, <3>1, <3>6 DEF p
  <2>7. BackWhereItWas'
    BY <1>1, <2>3, <2>4, <2>6, ChangedBack
  <2>8. DirectoryIsMeant' /\ WritesHold'
    BY <2>2, <2>4, Others
  <2> QED BY <2>4, <2>5, <2>7, <2>8 DEF PathsInv
<1>4. CASE gDirStack = <<>> /\ Stays([name |-> "popd", path |-> <<>>]) /\ UNCHANGED gDirStack
  <2>1. /\ dirs' = dirs /\ cwd' = cwd /\ returned' = FALSE /\ gDirStack' = gDirStack
        /\ typed' = [name |-> "popd", path |-> <<>>]
    BY <1>4 DEF Stays, Ran, Called, Ended
  <2>2. Placed' /\ dirs' \subseteq dirs
    BY <1>1, <2>1, PlacedStays
  <2>3. StackHolds'
    BY <1>1, <2>1, <2>2, StackKept
  <2>4. typed'.name = "popd"
    BY <2>1
  <2>5. DirectoryIsMeant' /\ BackWhereItWas' /\ WritesHold'
    BY <2>1, <2>4, Others
  <2> QED BY <2>2, <2>3, <2>5 DEF PathsInv
<1> QED BY <1>3, <1>4, Zenon DEF cmd_popd

\* The invariant is kept when another program takes a directory away.
LEMMA RemovedKeeps ==
    ASSUME PathsInv, Removed
    PROVE  PathsInv'
<1>1. Placed /\ StackHolds
  BY DEF PathsInv
<1>2. PICK d \in dirs : Removable(d) /\ dirs' = dirs \ {d}
  BY DEF Removed
<1>3. typed'.name = "none" /\ cwd' = cwd /\ gDirStack' = gDirStack
  BY DEF Removed
<1>4. Tree(dirs')
  <2>1. Tree(dirs \ {d})
    BY <1>1, <1>2, TreeKept DEF Placed
  <2> QED BY <1>2, <2>1
<1>5. Placed' /\ dirs' \subseteq dirs
  <2>1. cwd' \in dirs' \ Closed /\ Open(cwd')
    BY <1>1, <1>2, <1>3 DEF Placed, Removable
  <2> QED BY <1>2, <1>4, <2>1 DEF Placed
<1>6. StackHolds'
  BY <1>1, <1>3, <1>5, StackKept
<1>7. DirectoryIsMeant' /\ BackWhereItWas' /\ WritesHold'
  BY <1>3, Others
<1> QED BY <1>5, <1>6, <1>7 DEF PathsInv

\* The invariant is kept by expand_tilda.
LEMMA TildaKeeps ==
    ASSUME PathsInv, cmd_expand_tilda
    PROVE  PathsInv'
<1>1. Placed /\ StackHolds
  BY DEF PathsInv
<1>2. dirs' = dirs /\ cwd' = cwd /\ gDirStack' = gDirStack /\ typed'.name = "expand_tilda"
  <2>1. PICK path \in TildaPaths : typed' = [name |-> "expand_tilda", path |-> path]
    BY DEF cmd_expand_tilda, Ran, Called
  <2> QED BY <2>1 DEF cmd_expand_tilda
<1>3. Placed' /\ dirs' \subseteq dirs
  BY <1>1, <1>2, PlacedStays
<1>4. StackHolds'
  BY <1>1, <1>2, <1>3, StackKept
<1>5. DirectoryIsMeant' /\ BackWhereItWas' /\ WritesHold'
  BY <1>2, Others
<1> QED BY <1>3, <1>4, <1>5 DEF PathsInv

\* What write says and does.
WriteCommand(mode, error, in, err, old, full, wrote) ==
    [name |-> "write", mode |-> mode, error |-> error, in |-> in,
     err |-> err, old |-> old, full |-> full, wrote |-> wrote]

\* What bufsiz_write changes, one variable at a time.
LEMMA WritesSo ==
    ASSUME NEW text, NEW opened, NEW command, NEW out, NEW full, NEW part, NEW ok,
           WritesOut(text, opened, command, out, full, part, ok)
    PROVE  /\ ~full => part = Len(text)
           /\ file' = IF opened.ok THEN opened.file \o SubSeq(text, 1, part) ELSE command.old
           /\ gStderr' = IF ok /\ command.error THEN <<>> ELSE command.err
           /\ typed' = [command EXCEPT !.full = full, !.wrote = text]
           /\ returned' = ok
           /\ nextout' = IF ok THEN out ELSE <<>>
BY SMT DEF WritesOut, Ran, Called, Ended

\* The invariant is kept by write, on a disk that may be full and with signals.
LEMMA WriteKeeps ==
    ASSUME PathsInv, cmd_write
    PROVE  PathsInv'
<1>1. Placed /\ StackHolds
  BY DEF PathsInv
<1>2. dirs' = dirs /\ cwd' = cwd /\ gDirStack' = gDirStack
  BY DEF cmd_write
<1>3. Placed' /\ dirs' \subseteq dirs
  BY <1>1, <1>2, PlacedStays
<1>4. StackHolds'
  BY <1>1, <1>2, <1>3, StackKept
<1> DEFINE Command(mode, error, in, err, old) ==
              [name |-> "write", mode |-> mode, error |-> error, in |-> in,
               err |-> err, old |-> old, full |-> FALSE, wrote |-> <<>>]
           Opened(mode, old, creatable) ==
              IF mode = "-append" THEN [ok |-> old \notin {Missing, Refused}, file |-> old]
              ELSE [ok |-> old # Refused /\ (old = Missing => creatable), file |-> <<>>]
<1>5. PICK in \in Contents, err \in Contents, old \in Contents \cup {Missing, Refused},
           mode \in {"new", "-force", "-append"}, error \in BOOLEAN, creatable \in BOOLEAN :
         IF mode = "new" /\ old # Missing
         THEN /\ Ran(Command(mode, error, in, err, old), FALSE, RCODE_NFUN_INVALID_USSING, <<>>)
              /\ file' = old /\ gStderr' = err
         ELSE bufsiz_write(IF error THEN err ELSE in, Opened(mode, old, creatable),
                           Command(mode, error, in, err, old), IF error THEN in ELSE <<>>)
  BY Zenon DEF cmd_write
<1> DEFINE command == Command(mode, error, in, err, old)
           opened == Opened(mode, old, creatable)
           text == IF error THEN err ELSE in
<1>6. in \in Seq(Int) /\ err \in Seq(Int) /\ text \in Seq(Int)
  BY PathsAssumption
<1>7. CASE mode = "new" /\ old # Missing
  <2>1. typed' = command /\ returned' = FALSE /\ file' = old
    BY <1>5, <1>7 DEF Ran, Called, Ended
  <2>2. typed'.name = "write" /\ typed'.mode = "new" /\ typed'.old = old
    BY <1>7, <2>1
  <2>3. DirectoryIsMeant' /\ BackWhereItWas'
    BY <2>2, Others
  <2>4. WritesHold'
    <3>1. "new" # "-append"
      OBVIOUS
    <3> QED BY <2>1, <2>2, <3>1, Zenon DEF WritesHold
  <2> QED BY <1>3, <1>4, <2>3, <2>4 DEF PathsInv
<1>8. CASE ~(mode = "new" /\ old # Missing)
  <2>1. bufsiz_write(text, opened, command, IF error THEN in ELSE <<>>)
    BY <1>5, <1>8, Zenon
  <2>2. command.old = old /\ command.error = error /\ command.err = err /\ command.in = in
    OBVIOUS
  <2> HIDE DEF text, opened, command
  <2> DEFINE ok(interrupted) == text = <<>> \/ (opened.ok /\ ~interrupted)
  <2>2a. PICK full \in BOOLEAN, interrupted \in BOOLEAN, part \in 0..Len(text) :
           WritesOut(text, opened, command, IF error THEN in ELSE <<>>, full, part,
                   text = <<>> \/ (opened.ok /\ ~interrupted))
    BY <2>1, Zenon DEF bufsiz_write
  <2>2b. WritesOut(text, opened, command, IF error THEN in ELSE <<>>, full, part, ok(interrupted))
    BY <2>2a, Zenon
  <2>3. /\ ~full => part = Len(text)
        /\ file' = IF opened.ok THEN opened.file \o SubSeq(text, 1, part) ELSE old
        /\ gStderr' = IF ok(interrupted) /\ error THEN <<>> ELSE err
        /\ typed' = [command EXCEPT !.full = full, !.wrote = text]
        /\ returned' = ok(interrupted)
        /\ nextout' = IF ok(interrupted) THEN (IF error THEN in ELSE <<>>) ELSE <<>>
    <3> DEFINE out == IF error THEN in ELSE <<>>
               good == ok(interrupted)
    <3>1. WritesOut(text, opened, command, out, full, part, good)
      BY <2>2b, Zenon
    <3> HIDE DEF out, good
    <3>2. /\ ~full => part = Len(text)
          /\ file' = IF opened.ok THEN opened.file \o SubSeq(text, 1, part) ELSE command.old
          /\ gStderr' = IF good /\ command.error THEN <<>> ELSE command.err
          /\ typed' = [command EXCEPT !.full = full, !.wrote = text]
          /\ returned' = good
          /\ nextout' = IF good THEN out ELSE <<>>
      BY <3>1, WritesSo
    <3>3. /\ ~full => part = Len(text)
          /\ file' = IF opened.ok THEN opened.file \o SubSeq(text, 1, part) ELSE old
          /\ gStderr' = IF good /\ error THEN <<>> ELSE err
          /\ typed' = [command EXCEPT !.full = full, !.wrote = text]
          /\ returned' = good
          /\ nextout' = IF good THEN out ELSE <<>>
      BY <2>2, <3>2, Zenon
    <3> QED BY <3>3, Zenon DEF out, good
  <2>4. typed' = WriteCommand(mode, error, in, err, old, full, text)
    BY <2>3 DEF command, WriteCommand
  <2>5. /\ typed'.name = "write" /\ typed'.mode = mode /\ typed'.old = old /\ typed'.in = in
        /\ typed'.wrote = text
    BY <2>4 DEF WriteCommand
  <2>6. (typed'.error <=> error) /\ (typed'.full <=> full)
    BY <2>4, Zenon DEF WriteCommand
  <2>7. DirectoryIsMeant' /\ BackWhereItWas'
    BY <2>5, Others
  <2>8. mode = "-append" => (opened.ok <=> old \notin {Missing, Refused}) /\ opened.file = old
    BY Zenon DEF opened
  <2>9. mode # "-append" => (opened.ok => old # Refused) /\ opened.file = <<>>
                            /\ (~opened.ok => old \in {Missing, Refused})
    BY Zenon DEF opened
  <2>10. mode = "-append" => IsPrefix(old, file')
    <3> SUFFICES ASSUME mode = "-append" PROVE IsPrefix(old, file')
      OBVIOUS
    <3>1. CASE opened.ok
      <4> DEFINE v == SubSeq(text, 1, part)
      <4>1. file' = old \o v
        BY <2>3, <2>8, <3>1, Zenon
      <4>2. old \in Seq(Int)
        BY <2>8, <3>1, PathsAssumption
      <4>3. v \in Seq(Int)
        BY <1>6, FirstPart DEF text
      <4> HIDE DEF v
      <4> DEFINE w == old \o v
      <4>4. /\ w \in Seq(Int) /\ Len(w) = Len(old) + Len(v)
            /\ \A n \in 1..(Len(old) + Len(v)) : w[n] = IF n <= Len(old) THEN old[n] ELSE v[n - Len(old)]
        BY <4>2, <4>3, ConcatProperties
      <4>5. Len(old) \in Nat /\ Len(v) \in Nat
        BY <4>2, <4>3
      <4> HIDE DEF w
      <4>6. Len(old) \in 0..Len(w) /\ Len(old) <= Len(w) /\ Len(old) \in 0..Len(old)
        BY <4>4, <4>5
      <4> DEFINE a == SubSeq(w, 1, Len(old))  b == SubSeq(old, 1, Len(old))
      <4>7. a \in Seq(Int) /\ Len(a) = Len(old) /\ \A k \in 1..Len(old) : a[k] = w[k]
        BY <4>4, <4>6, FirstPart
      <4>8. b \in Seq(Int) /\ Len(b) = Len(old) /\ \A k \in 1..Len(old) : b[k] = old[k]
        BY <4>2, <4>6, FirstPart
      <4> HIDE DEF a, b
      <4>9. \A k \in 1..Len(old) : k \in 1..(Len(old) + Len(v)) /\ k <= Len(old)
        BY <4>5
      <4>10. \A k \in 1..Len(old) : a[k] = b[k]
        BY <4>4, <4>7, <4>8, <4>9
      <4>11. a = b
        BY <4>7, <4>8, <4>10, SeqEqual
      <4>12. IsPrefix(old, w)
        BY <4>6, <4>11 DEF IsPrefix, a, b
      <4> QED BY <4>1, <4>12 DEF w
    <3>2. CASE ~opened.ok
      <4>1. file' = old
        BY <2>3, <3>2, Zenon
      <4>2. Len(old) <= Len(old)
        <5>1. old \in {Missing, Refused}
          BY <2>8, <3>2, Zenon
        <5>2. Len(Missing) = 1 /\ Len(Refused) = 1
          BY DEF Missing, Refused
        <5> QED BY <5>1, <5>2
      <4> QED BY <4>1, <4>2 DEF IsPrefix
    <3> QED BY <3>1, <3>2
  <2>11. ASSUME returned', ~full
         PROVE  \/ file' = (IF mode = "-append" THEN old ELSE <<>>) \o text
                \/ text = <<>> /\ old \in {Missing, Refused} /\ file' = old
    <3>1. SubSeq(text, 1, Len(text)) = text
      <4>1. text \in Seq(Int)
        BY <1>6 DEF text
      <4> QED BY <4>1
    <3>2. ok(interrupted) /\ part = Len(text)
      BY <2>3, <2>11, Zenon
    <3>3. CASE opened.ok
      <4>1. file' = opened.file \o text
        BY <2>3, <3>1, <3>2, <3>3, Zenon
      <4>2. opened.file = IF mode = "-append" THEN old ELSE <<>>
        BY <2>8, <2>9, Zenon
      <4> QED BY <4>1, <4>2
    <3>4. CASE ~opened.ok
      <4>1. text = <<>> /\ file' = old
        BY <2>3, <3>2, <3>4, Zenon
      <4>2. old \in {Missing, Refused}
        BY <2>8, <2>9, <3>4, Zenon
      <4> QED BY <4>1, <4>2
    <3> QED BY <3>3, <3>4
  <2>12. ASSUME returned', error PROVE nextout' = in /\ gStderr' = <<>>
    BY <2>3, <2>12, Zenon
  <2>13. WritesHold'
    <3>1. mode = "new" /\ old # Missing => file' = old
      BY <1>8
    <3>2. /\ typed'.mode = "new" /\ typed'.old # Missing => file' = typed'.old
          /\ typed'.mode = "-append" => IsPrefix(typed'.old, file')
      BY <2>5, <2>10, <3>1, Zenon
    <3>3. returned' /\ ~typed'.full =>
             \/ file' = (IF typed'.mode = "-append" THEN typed'.old ELSE <<>>) \o typed'.wrote
             \/ typed'.wrote = <<>> /\ typed'.old \in {Missing, Refused} /\ file' = typed'.old
      BY <2>5, <2>6, <2>11, Zenon
    <3>4. returned' /\ typed'.error => nextout' = typed'.in /\ gStderr' = <<>>
      BY <2>5, <2>6, <2>12, Zenon
    <3> QED BY <3>2, <3>3, <3>4, Zenon DEF WritesHold, Missing, Refused
  <2> QED BY <1>3, <1>4, <2>7, <2>13 DEF PathsInv
<1> QED BY <1>7, <1>8, Zenon

\* The invariant holds at every moment, whatever directories, links, paths and
\* texts there are, and however many commands are given.
THEOREM PathsInvariance == PathsSpec => []PathsInv
<1>1. PathsInit => PathsInv
  <2> SUFFICES ASSUME PathsInit PROVE PathsInv
    OBVIOUS
  <2>1. Placed
    <3>1. cwd \in dirs \ Closed /\ Open(cwd)
      BY StartsAssumption DEF PathsInit
    <3>2. Tree(dirs)
      <4>1. dirs = Directories
        BY DEF PathsInit
      <4>2. <<>> \in Directories /\ \A d \in Directories \ {<<>>} : Front(d) \in Directories
        BY DirectoriesAssumption, Zenon
      <4> QED BY <4>1, <4>2 DEF Tree
    <3> QED BY <3>1, <3>2 DEF Placed
  <2>2. StackHolds
    <3>1. gDirStack = <<>> /\ Len(<<>>) = 0 /\ <<>> \in Seq(Int)
      BY DEF PathsInit
    <3>2. \A n \in 1..0 : FALSE
      OBVIOUS
    <3> QED BY <3>1, <3>2 DEF StackHolds
  <2>3. typed.name = "none"
    BY DEF PathsInit, NoneCalled
  <2>4. DirectoryIsMeant /\ BackWhereItWas /\ WritesHold
    BY <2>3 DEF DirectoryIsMeant, BackWhereItWas, WritesHold
  <2> QED BY <2>1, <2>2, <2>4 DEF PathsInv
<1>2. PathsInv /\ [PathsNext]_pathvars => PathsInv'
  <2>1. ASSUME PathsInv, PathsNext PROVE PathsInv'
    BY <2>1, CdKeeps, PushdKeeps, PopdKeeps, WriteKeeps, TildaKeeps, RemovedKeeps DEF PathsNext
  <2>2. ASSUME PathsInv, UNCHANGED pathvars PROVE PathsInv'
    <3>1. /\ dirs' = dirs /\ file' = file /\ cwd' = cwd /\ PWD' = PWD /\ gDirStack' = gDirStack
          /\ gStderr' = gStderr /\ typed' = typed /\ nextout' = nextout /\ returned' = returned
      BY <2>2 DEF pathvars
    <3>2. Placed' = Placed
      BY <3>1 DEF Placed
    <3>3. StackHolds'
      BY <2>2, <3>1, <3>2, StackKept DEF PathsInv
    <3>4. DirectoryIsMeant'
      BY <2>2, <3>1, Zenon DEF PathsInv, DirectoryIsMeant, PastRoot
    <3>5. BackWhereItWas'
      BY <2>2, <3>1, Zenon DEF PathsInv, BackWhereItWas
    <3>6. WritesHold'
      BY <2>2, <3>1, Zenon DEF PathsInv, WritesHold
    <3> QED BY <2>2, <3>2, <3>3, <3>4, <3>5, <3>6 DEF PathsInv
  <2> QED BY <2>1, <2>2
<1> QED BY <1>1, <1>2, PTL DEF PathsSpec

\* cd gets where the path it is given is meant to lead, PWD names the
\* directory the shell is in and popd comes back to the one pushd was given,
\* and write loses nothing.
THEOREM PathsAlwaysHold == PathsSpec => []PathsHold
<1>1. PathsInv => PathsHold
  <2> SUFFICES ASSUME PathsInv PROVE PathsHold
    OBVIOUS
  <2>1. DOMAIN gDirStack = 1..Len(gDirStack)
    <3>1. PICK T : gDirStack \in Seq(T)
      BY DEF PathsInv, StackHolds
    <3> QED BY <3>1
  <2>2. PathsTypeOK
    BY <2>1 DEF PathsInv, Placed, StackHolds, IsEntry, PathsTypeOK
  <2> QED BY <2>2 DEF PathsInv, PathsHold
<1> QED BY <1>1, PathsInvariance, PTL
=============================================================================
