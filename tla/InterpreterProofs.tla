-------------------------- MODULE InterpreterProofs --------------------------
(***************************************************************************)
(* Theorems about Interpreter, for every nesting limit, stack size and set *)
(* of callers.  The inductive invariant adds to the properties of the      *)
(* module that the outermost activation, and only that one, was called by  *)
(* the command loop, and that the run info each activation keeps for its   *)
(* caller to put back is the right one for the activations below it.       *)
(***************************************************************************)
EXTENDS Interpreter, TLAPS, FiniteSetTheorems, SequenceTheorems

SavedIsCaller ==
    /\ \A i \in 1..Len(ctl) : IsCallerInfo(ctl, i - 1, ctl[i].saved)
    /\ phase = "ret" => IsCallerInfo(ctl, Len(ctl), ret.saved)

BottomIsTop == \A i \in 1..Len(ctl) : ctl[i].site = "top" <=> i = 1

IInv == TypeOK /\ Balanced /\ InfoIsCaller /\ SavedIsCaller /\ BottomIsTop

-----------------------------------------------------------------------------
(* Counting activations by their call site.                                *)

\* The activations of a finite control stack are a finite set.
LEMMA IndicesFinite ==
    ASSUME NEW c \in Seq(Activations), NEW S
    PROVE  /\ IsFiniteSet(IndicesIn(c, S))
           /\ CountIn(c, S) \in Nat
           /\ CountIn(c, S) <= Len(c)
  <1>1. IndicesIn(c, S) \subseteq 1..Len(c)
    BY DEF IndicesIn
  <1>0. Len(c) \in Nat /\ 1 \in Int /\ Len(c) \in Int
    OBVIOUS
  <1>2. IsFiniteSet(1..Len(c)) /\ Cardinality(1..Len(c)) = Len(c)
    <2> DEFINE n == Len(c)
    <2>1. n \in Nat
      BY <1>0
    <2> HIDE DEF n
    <2>2. IsFiniteSet(1..n) /\ Cardinality(1..n) = IF 1 > n THEN 0 ELSE n - 1 + 1
      BY <2>1, FS_Interval
    <2>3. (IF 1 > n THEN 0 ELSE n - 1 + 1) = n
      BY <2>1
    <2>4. IsFiniteSet(1..n) /\ Cardinality(1..n) = n
      BY <2>2, <2>3
    <2> QED
      BY <2>4 DEF n
  <1>3. /\ IsFiniteSet(IndicesIn(c, S))
        /\ Cardinality(IndicesIn(c, S)) <= Cardinality(1..Len(c))
    BY <1>1, <1>2, FS_Subset
  <1>4. Cardinality(IndicesIn(c, S)) \in Nat
    BY <1>3, FS_CardinalityType
  <1> QED
    BY <1>2, <1>3, <1>4 DEF CountIn

\* One call adds one activation of its site.
LEMMA CountAppend ==
    ASSUME NEW c \in Seq(Activations), NEW a \in Activations, NEW S
    PROVE  CountIn(Append(c, a), S) = CountIn(c, S) + One(a.site \in S)
  <1> DEFINE d == Append(c, a)
  <1>1. Len(d) = Len(c) + 1 /\ d[Len(c) + 1] = a /\ \A i \in 1..Len(c) : d[i] = c[i]
    OBVIOUS
  <1>2. Len(c) \in Nat /\ (Len(c) + 1) \notin IndicesIn(c, S)
    BY DEF IndicesIn
  <1>3. CASE a.site \in S
    <2>1. IndicesIn(d, S) = IndicesIn(c, S) \cup {Len(c) + 1}
      BY <1>1, <1>2, <1>3 DEF IndicesIn
    <2> QED
      BY <2>1, <1>2, <1>3, IndicesFinite, FS_AddElement DEF CountIn, One
  <1>4. CASE a.site \notin S
    <2>1. IndicesIn(d, S) = IndicesIn(c, S)
      BY <1>1, <1>2, <1>4 DEF IndicesIn
    <2> QED
      BY <2>1, <1>4, IndicesFinite DEF CountIn, One
  <1> QED
    BY <1>3, <1>4

\* One return takes one activation of its site away.
LEMMA CountFront ==
    ASSUME NEW c \in Seq(Activations), c # <<>>, NEW S
    PROVE  CountIn(SubSeq(c, 1, Len(c) - 1), S)
             = CountIn(c, S) - One(c[Len(c)].site \in S)
  <1> DEFINE d == SubSeq(c, 1, Len(c) - 1)
  <1>1. Len(c) \in Nat \ {0} /\ c[Len(c)] \in Activations
    OBVIOUS
  <1>2. d \in Seq(Activations)
    BY <1>1
  <1>3. c = Append(d, c[Len(c)])
    BY <1>1
  <1>4. CountIn(c, S) = CountIn(d, S) + One(c[Len(c)].site \in S)
    <2> DEFINE a == c[Len(c)]
    <2>1. d \in Seq(Activations) /\ a \in Activations /\ c = Append(d, a)
      BY <1>1, <1>2, <1>3
    <2> HIDE DEF d, a
    <2>2. CountIn(Append(d, a), S) = CountIn(d, S) + One(a.site \in S)
      BY <2>1, CountAppend
    <2> QED
      BY <2>1, <2>2 DEF a
  <1>5. CountIn(d, S) \in Nat /\ One(c[Len(c)].site \in S) \in Nat
    BY <1>2, IndicesFinite DEF One
  <1> QED
    BY <1>4, <1>5

\* Two control stacks with the same call sites, level by level.
SameSites(c, d) == /\ Len(d) = Len(c)
                   /\ \A i \in 1..Len(c) : d[i].site = c[i].site /\ d[i].saved = c[i].saved

\* Changing codes and positions changes no count and no caller.
LEMMA SameSitesSame ==
    ASSUME NEW c \in Seq(Activations), NEW d \in Seq(Activations), SameSites(c, d)
    PROVE  /\ \A S : CountIn(d, S) = CountIn(c, S)
           /\ \A n \in 0..Len(c) : \A v : IsCallerInfo(d, n, v) <=> IsCallerInfo(c, n, v)
  <1>1. \A S : IndicesIn(d, S) = IndicesIn(c, S)
    BY DEF SameSites, IndicesIn
  <1>2. ASSUME NEW n \in 0..Len(c)
        PROVE  {i \in 1..n : d[i].site \in InfoSites} = {i \in 1..n : c[i].site \in InfoSites}
    BY DEF SameSites
  <1> QED
    BY <1>1, <1>2 DEF CountIn, IsCallerInfo

-----------------------------------------------------------------------------
(* The shapes a step can have, and what each does to the invariant.        *)

\* The invariant holds at first.
LEMMA InitInv == Init => IInv
  <1> SUFFICES ASSUME Init PROVE IInv
    OBVIOUS
  <1> USE DEF Init
  <1>1. \A S : CountIn(<<>>, S) = 0
    <2>1. \A S : IndicesIn(<<>>, S) = {}
      BY DEF IndicesIn
    <2> QED
      BY <2>1, FS_EmptySet DEF CountIn
  <1>2. TypeOK
    <2>1. ret \in Results
      BY DEF Results, NoResult, AllSites, Codes
    <2>2. ctl \in Seq(Activations) /\ nest \in 0..(MaxNest - 1)
      BY NestAssumption
    <2> QED
      BY <2>1, <2>2 DEF TypeOK, Phases
  <1>3. Balanced
    BY <1>1 DEF Balanced, BalancedNest, BalancedStack, BalancedFrames, Pending, One
  <1>4. InfoIsCaller /\ SavedIsCaller /\ BottomIsTop
    BY DEF InfoIsCaller, SavedIsCaller, BottomIsTop, IsCallerInfo, Pending, One
  <1> QED
    BY <1>2, <1>3, <1>4 DEF IInv

\* The kind of every record a caller can be asked about.
LEMMA TopType ==
    ASSUME TypeOK, ctl # <<>>
    PROVE  /\ Len(ctl) \in Nat \ {0} /\ Top \in Activations
           /\ Top.site \in AllSites /\ Top.rc \in Codes
           /\ Top.init \in Codes \cup {"uninit"} /\ Top.saved \in Nat
  <1>1. ctl \in Seq(Activations) /\ Len(ctl) \in Nat \ {0}
    BY DEF TypeOK
  <1>2. Top \in Activations
    BY <1>1 DEF Top
  <1> QED
    BY <1>1, <1>2 DEF Activations

\* A caller that is not waiting for a run() of its own, and whose control
\* stack c differs from ctl in codes only, calls run().
LEMMA CallInv ==
    ASSUME IInv, NEW c \in Seq(Activations), SameSites(ctl, c),
           NEW s, s = "top" <=> c = <<>>,
           \A S \in {StackSites, FrameSites, InfoSites} : Pending(S) = 0,
           NEW init \in Codes \cup {"uninit"}, Call(c, s, init)
    PROVE  IInv'
  <1> DEFINE a == [site |-> s, at |-> "stmt", rc |-> "0", init |-> init, saved |-> info]
  <1> USE NestAssumption, SitesAssumption
  <1>1. /\ s \in AllSites /\ info \in Nat /\ Len(c) \in Nat /\ Len(c) = Len(ctl)
        /\ nest \in 0..(MaxNest - 1) /\ nest = Len(c) /\ MaxNest \in Nat
    BY DEF Call, IInv, TypeOK, SameSites, Balanced, BalancedNest
  <1>2. a \in Activations
    BY <1>1 DEF Activations, Codes
  <1>3. /\ \A S : CountIn(c, S) = CountIn(ctl, S)
        /\ \A n \in 0..Len(c) : \A v : IsCallerInfo(c, n, v) <=> IsCallerInfo(ctl, n, v)
    BY <1>1, SameSitesSame DEF IInv, TypeOK
  <1>4. /\ IsCallerInfo(c, Len(c), info)
        /\ stk = 1 + Len(c) + CountIn(c, StackSites)
        /\ frames = CountIn(c, FrameSites) /\ running = 2 * Len(c)
    <2>1. Pending(StackSites) = 0 /\ Pending(FrameSites) = 0 /\ Pending(InfoSites) = 0
      OBVIOUS
    <2>2. IsCallerInfo(ctl, Len(ctl), info)
      BY <2>1 DEF IInv, InfoIsCaller
    <2>3. CountIn(ctl, StackSites) \in Nat /\ CountIn(ctl, FrameSites) \in Nat
      BY IndicesFinite DEF IInv, TypeOK
    <2> QED
      BY <1>1, <1>3, <2>1, <2>2, <2>3
      DEF IInv, Balanced, BalancedNest, BalancedStack, BalancedFrames
  <1>5. /\ \A i \in 1..Len(c) : IsCallerInfo(c, i - 1, c[i].saved)
        /\ \A i \in 1..Len(c) : c[i].site = "top" <=> i = 1
    <2>1. \A i \in 1..Len(c) : c[i].site = ctl[i].site /\ c[i].saved = ctl[i].saved
      BY <1>1 DEF SameSites
    <2>2. \A i \in 1..Len(c) : IsCallerInfo(c, i - 1, c[i].saved)
      <3> TAKE i \in 1..Len(c)
      <3>1. i - 1 \in 0..Len(c) /\ IsCallerInfo(ctl, i - 1, ctl[i].saved)
        BY <1>1 DEF IInv, SavedIsCaller
      <3> QED
        BY <2>1, <3>1, <1>3
    <2> QED
      BY <2>1, <2>2, <1>1 DEF IInv, BottomIsTop
  <1>6. CountIn(c, StackSites) \in Nat /\ CountIn(c, FrameSites) \in Nat
    BY IndicesFinite
  <1>7. CASE AtLimit
    <2>1. /\ ctl' = c /\ phase' = "ret" /\ nest' = nest /\ running' = running
          /\ stk' = stk + One(s \in StackSites) /\ frames' = frames + One(s \in FrameSites)
          /\ info' = (IF s \in InfoSites THEN Len(c) ELSE info) /\ inPipe' = inPipe
          /\ \E rc \in Codes : ret' = [site |-> s, ok |-> FALSE, rc |-> rc, saved |-> info]
      BY <1>7 DEF Call, ReadOf
    <2>2. ret' \in Results /\ ret'.site = s /\ ret'.saved = info
      BY <2>1, <1>1 DEF Results
    <2>3. c # <<>>
      BY <1>1, <1>7 DEF AtLimit
    <2>4. TypeOK'
      <3>1. stk' \in Nat /\ frames' \in Nat /\ running' \in Nat /\ info' \in Nat
        <4>1. One(s \in StackSites) \in Nat /\ One(s \in FrameSites) \in Nat
          BY DEF One
        <4>2. stk \in Nat /\ frames \in Nat /\ running \in Nat /\ info \in Nat
          BY DEF IInv, TypeOK
        <4>3. stk' \in Nat /\ frames' \in Nat
          BY <2>1, <4>1, <4>2
        <4>4. running' \in Nat /\ info' \in Nat
          BY <2>1, <4>2, <1>1
        <4> QED
          BY <4>3, <4>4
      <3>2. nest' \in 0..(MaxNest - 1) /\ inPipe' \in BOOLEAN /\ ctl' \in Seq(Activations)
        BY <2>1, <1>1 DEF IInv, TypeOK
      <3>3. ctl' = <<>> <=> (phase' \in {"idle", "exited"} \/ (phase' = "ret" /\ ret'.site = "top"))
        BY <2>1, <2>2, <2>3
      <3> QED
        BY <2>1, <2>2, <3>1, <3>2, <3>3 DEF TypeOK, Phases
    <2>5. Balanced'
      BY <2>1, <2>2, <1>1, <1>4, <1>6
      DEF Balanced, BalancedNest, BalancedStack, BalancedFrames, Pending, One
    <2>6. InfoIsCaller'
      <3>1. Pending(InfoSites)' = One(s \in InfoSites)
        BY <2>1, <2>2 DEF Pending, One
      <3> QED
        BY <3>1, <2>1, <1>1, <1>4 DEF InfoIsCaller, One
    <2>7. SavedIsCaller' /\ BottomIsTop'
      BY <2>1, <2>2, <1>4, <1>5 DEF SavedIsCaller, BottomIsTop
    <2> QED
      BY <2>4, <2>5, <2>6, <2>7 DEF IInv
  <1>8. CASE ~AtLimit
    <2>0. ctl' = Append(c, a)
      BY <1>8 DEF Call
    <2>1. /\ phase' = "body" /\ nest' = nest + 1
          /\ running' = running + 2 /\ ret' = NoResult
          /\ stk' = stk + 1 + One(s \in StackSites) /\ frames' = frames + One(s \in FrameSites)
          /\ info' = (IF s \in InfoSites THEN Len(c) ELSE info) /\ inPipe' = inPipe
      BY <1>8 DEF Call
    <2>2. /\ Len(ctl') = Len(c) + 1 /\ ctl'[Len(c) + 1] = a /\ ctl' \in Seq(Activations)
          /\ \A i \in 1..Len(c) : ctl'[i] = c[i]
      BY <2>0, <1>2
    <2>3. \A S : CountIn(ctl', S) = CountIn(c, S) + One(s \in S)
      BY <2>0, <1>2, CountAppend
    <2>4. TypeOK'
      <3>1. NoResult \in Results /\ ctl' # <<>>
        BY <2>2, <1>1 DEF NoResult, Results, AllSites, Codes
      <3>2. /\ nest' \in 0..(MaxNest - 1) /\ running' \in Nat
            /\ stk' \in Nat /\ frames' \in Nat /\ info' \in Nat /\ inPipe' \in BOOLEAN
        BY <2>1, <1>1, <1>8 DEF TypeOK, IInv, One, AtLimit
      <3> QED
        BY <2>1, <2>2, <3>1, <3>2 DEF TypeOK, Phases
    <2>9. \A S : Pending(S)' = 0
      BY <2>1 DEF Pending, One
    <2>5. Balanced'
      <3>1. BalancedNest'
        BY <2>1, <2>2, <1>1, <1>4 DEF BalancedNest
      <3>2. BalancedStack'
        <4> DEFINE k == CountIn(c, StackSites)
                   q == One(s \in StackSites)
        <4>1. CountIn(ctl', StackSites) = k + q /\ Pending(StackSites)' = 0
          BY <2>3, <2>9
        <4>2. q \in Nat /\ k \in Nat /\ Len(c) \in Nat
          BY <1>1, <1>6 DEF One
        <4>3. stk = 1 + Len(c) + k /\ stk' = stk + 1 + q /\ Len(ctl') = Len(c) + 1
          BY <1>4, <2>1, <2>2
        <4> HIDE DEF k, q
        <4>4. stk' = 1 + Len(ctl') + CountIn(ctl', StackSites) + Pending(StackSites)'
          BY <4>1, <4>2, <4>3
        <4> QED
          BY <4>4 DEF BalancedStack
      <3>3. BalancedFrames'
        <4> DEFINE k == CountIn(c, FrameSites)
                   q == One(s \in FrameSites)
        <4>1. CountIn(ctl', FrameSites) = k + q /\ Pending(FrameSites)' = 0
          BY <2>3, <2>9
        <4>2. q \in Nat /\ k \in Nat
          BY <1>6 DEF One
        <4>3. frames = k /\ frames' = frames + q
          BY <1>4, <2>1
        <4> HIDE DEF k, q
        <4>4. frames' = CountIn(ctl', FrameSites) + Pending(FrameSites)'
          BY <4>1, <4>2, <4>3
        <4> QED
          BY <4>4 DEF BalancedFrames
      <3> QED
        BY <3>1, <3>2, <3>3 DEF Balanced
    <2>6. \A n \in 0..Len(c) : \A v : IsCallerInfo(ctl', n, v) <=> IsCallerInfo(c, n, v)
      <3>1. \A n \in 0..Len(c) : {i \in 1..n : ctl'[i].site \in InfoSites}
                                  = {i \in 1..n : c[i].site \in InfoSites}
        BY <2>2
      <3> QED
        BY <3>1 DEF IsCallerInfo
    <2>7. SavedIsCaller' /\ BottomIsTop'
      <3>1. a.saved = info /\ a.site = s /\ (s = "top" <=> Len(c) = 0)
        BY <1>1
      <3>2. \A i \in 1..(Len(c) + 1) : IsCallerInfo(ctl', i - 1, ctl'[i].saved)
        <4> TAKE i \in 1..(Len(c) + 1)
        <4>1. CASE i = Len(c) + 1
          BY <2>2, <2>6, <3>1, <4>1, <1>1, <1>4
        <4>2. CASE i # Len(c) + 1
          <5>1. i \in 1..Len(c) /\ i - 1 \in 0..Len(c)
            BY <4>2, <1>1
          <5>2. ctl'[i] = c[i] /\ IsCallerInfo(c, i - 1, c[i].saved)
            BY <5>1, <2>2, <1>5
          <5> QED
            BY <5>1, <5>2, <2>6
        <4> QED
          BY <4>1, <4>2
      <3>3. \A i \in 1..(Len(c) + 1) : ctl'[i].site = "top" <=> i = 1
        BY <2>2, <3>1, <1>1, <1>5
      <3> QED
        BY <2>1, <2>2, <3>2, <3>3 DEF SavedIsCaller, BottomIsTop
    <2>8. InfoIsCaller'
      <3> DEFINE E(n) == {i \in 1..n : ctl'[i].site \in InfoSites}
      <3>1. CASE s \in InfoSites
        <4>1. Len(c) + 1 \in E(Len(c) + 1) /\ \A i \in E(Len(c) + 1) : i <= Len(c) + 1
          BY <2>2, <3>1, <1>1
        <4> QED
          BY <4>1, <2>1, <2>2, <3>1, <1>1 DEF InfoIsCaller, IsCallerInfo, Pending, One
      <3>2. CASE s \notin InfoSites
        <4>1. E(Len(c) + 1) = E(Len(c))
          BY <2>2, <3>2, <1>1
        <4>2. IsCallerInfo(ctl', Len(c), info)
          BY <2>6, <1>1, <1>4
        <4> QED
          BY <4>1, <4>2, <2>1, <2>2, <3>2 DEF InfoIsCaller, IsCallerInfo, Pending, One
      <3> QED
        BY <3>1, <3>2
    <2> QED
      BY <2>4, <2>5, <2>7, <2>8 DEF IInv
  <1> QED
    BY <1>7, <1>8

\* run() returns from its top activation to the caller below.
LEMMA LeaveInv ==
    ASSUME IInv, phase \in {"body", "fail"}, ctl # <<>>,
           NEW ok \in BOOLEAN, NEW rc \in Codes, Leave(ok, rc)
    PROVE  IInv'
  <1> DEFINE n == Len(ctl)
  <1>1. /\ ctl \in Seq(Activations) /\ n \in Nat \ {0} /\ Top = ctl[n]
        /\ Top.site \in AllSites /\ Top.saved \in Nat /\ nest = n
        /\ nest \in 0..(MaxNest - 1) /\ MaxNest \in Nat
    BY TopType, NestAssumption DEF IInv, TypeOK, Top, Balanced, BalancedNest
  <1>2. /\ phase' = "ret" /\ nest' = nest - 1 /\ running' = running - 2 /\ stk' = stk - 1
        /\ frames' = frames /\ info' = info /\ inPipe' \in BOOLEAN
        /\ ret' = [site |-> Top.site, ok |-> ok, rc |-> rc, saved |-> Top.saved]
    BY DEF Leave, HeldInPipe, IInv, TypeOK
  <1>3. ctl' = SubSeq(ctl, 1, n - 1)
    BY DEF Leave
  <1>4. /\ ctl' \in Seq(Activations) /\ Len(ctl') = n - 1
        /\ \A i \in 1..(n - 1) : ctl'[i] = ctl[i]
    BY <1>1, <1>3
  <1>5. \A S : CountIn(ctl', S) = CountIn(ctl, S) - One(Top.site \in S)
    BY <1>1, <1>3, CountFront
  <1>6. \A S : Pending(S) = 0 /\ Pending(S)' = One(Top.site \in S)
    BY <1>2 DEF Pending, One
  <1>7. CountIn(ctl, StackSites) \in Nat /\ CountIn(ctl, FrameSites) \in Nat
    BY <1>1, IndicesFinite
  <1>8. /\ running = 2 * n /\ stk = 1 + n + CountIn(ctl, StackSites)
        /\ frames = CountIn(ctl, FrameSites)
    BY <1>6, <1>1, <1>7 DEF IInv, Balanced, BalancedNest, BalancedStack, BalancedFrames
  <1>9. ret' \in Results /\ ret'.site = Top.site /\ ret'.saved = Top.saved
    BY <1>1, <1>2 DEF Results
  <1>10. ctl' = <<>> <=> ret'.site = "top"
    BY <1>1, <1>4, <1>9 DEF IInv, BottomIsTop
  <1>11. TypeOK'
    <2>1. nest' \in 0..(MaxNest - 1) /\ running' \in Nat /\ stk' \in Nat
      BY <1>1, <1>2, <1>7, <1>8
    <2> QED
      BY <2>1, <1>2, <1>4, <1>9, <1>10 DEF TypeOK, Phases, IInv
  <1>12. Balanced'
    <2>1. BalancedNest'
      BY <1>1, <1>2, <1>4, <1>8 DEF BalancedNest
    <2>2. BalancedStack' /\ BalancedFrames'
      <3>1. /\ CountIn(ctl', StackSites) = CountIn(ctl, StackSites) - Pending(StackSites)'
            /\ CountIn(ctl', FrameSites) = CountIn(ctl, FrameSites) - Pending(FrameSites)'
            /\ Pending(StackSites)' \in Nat /\ Pending(FrameSites)' \in Nat
        BY <1>5, <1>6 DEF One
      <3>2. /\ stk' = stk - 1 /\ stk = 1 + n + CountIn(ctl, StackSites) /\ Len(ctl') = n - 1
            /\ frames' = frames /\ frames = CountIn(ctl, FrameSites) /\ n \in Nat
        BY <1>1, <1>2, <1>4, <1>8
      <3> HIDE DEF n
      <3>3. stk' = 1 + Len(ctl') + CountIn(ctl', StackSites) + Pending(StackSites)'
        BY <3>1, <3>2, <1>7
      <3>4. frames' = CountIn(ctl', FrameSites) + Pending(FrameSites)'
        BY <3>1, <3>2, <1>7
      <3> QED
        BY <3>3, <3>4 DEF BalancedStack, BalancedFrames
    <2> QED
      BY <2>1, <2>2 DEF Balanced
  <1>13. \A m \in 0..(n - 1) : \A v : IsCallerInfo(ctl', m, v) <=> IsCallerInfo(ctl, m, v)
    <2>1. \A m \in 0..(n - 1) : {i \in 1..m : ctl'[i].site \in InfoSites}
                                = {i \in 1..m : ctl[i].site \in InfoSites}
      BY <1>1, <1>4
    <2> QED
      BY <2>1 DEF IsCallerInfo
  <1>14. IsCallerInfo(ctl, n - 1, Top.saved)
    BY <1>1 DEF IInv, SavedIsCaller
  <1>15. SavedIsCaller' /\ BottomIsTop'
    <2>1. \A i \in 1..(n - 1) : IsCallerInfo(ctl', i - 1, ctl'[i].saved)
      <3> TAKE i \in 1..(n - 1)
      <3>1. i - 1 \in 0..(n - 1) /\ ctl'[i] = ctl[i] /\ i \in 1..n
        BY <1>1, <1>4
      <3>2. IsCallerInfo(ctl, i - 1, ctl[i].saved)
        BY <3>1 DEF IInv, SavedIsCaller
      <3> QED
        BY <3>1, <3>2, <1>13
    <2>2. IsCallerInfo(ctl', n - 1, ret'.saved)
      BY <1>1, <1>9, <1>13, <1>14
    <2>3. SavedIsCaller'
      BY <2>1, <2>2, <1>1, <1>4 DEF SavedIsCaller
    <2>4. BottomIsTop'
      BY <1>1, <1>4 DEF BottomIsTop, IInv
    <2> QED
      BY <2>3, <2>4
  <1>16. InfoIsCaller'
    <2>1. IsCallerInfo(ctl, n, info)
      BY <1>6 DEF IInv, InfoIsCaller
    <2>2. CASE Top.site \in InfoSites
      <3>1. info = n - 1
        <4>1. n \in {i \in 1..n : ctl[i].site \in InfoSites}
          BY <2>2, <1>1
        <4>2. info + 1 \in 1..n /\ n <= info + 1
          BY <2>1, <4>1 DEF IsCallerInfo
        <4> QED
          BY <4>2, <1>1 DEF IInv, TypeOK
      <3> QED
        BY <3>1, <2>2, <1>2, <1>4, <1>6 DEF InfoIsCaller, One
    <2>3. CASE Top.site \notin InfoSites
      <3>1. {i \in 1..n : ctl[i].site \in InfoSites} = {i \in 1..(n - 1) : ctl[i].site \in InfoSites}
        BY <2>3, <1>1
      <3>2. IsCallerInfo(ctl, n - 1, info)
        BY <3>1, <2>1 DEF IsCallerInfo
      <3>4. IsCallerInfo(ctl', n - 1, info)
        BY <3>2, <1>1, <1>13
      <3> QED
        BY <3>4, <2>3, <1>2, <1>4, <1>6 DEF InfoIsCaller, One
    <2> QED
      BY <2>2, <2>3
  <1> QED
    BY <1>11, <1>12, <1>15, <1>16 DEF IInv

\* The caller that is running, or has just got a result and took its own
\* frames back, goes on with the same control stack up to codes.
LEMMA StayInv ==
    ASSUME IInv, ctl # <<>>, ctl' \in Seq(Activations), SameSites(ctl, ctl'),
           phase' \in {"body", "fail"}, ret' \in Results, inPipe' \in BOOLEAN,
           nest' = nest, running' = running,
           stk' = stk - Pending(StackSites), frames' = frames - Pending(FrameSites),
           info' = IF Pending(InfoSites) = 1 THEN ret.saved ELSE info
    PROVE  IInv'
  <1>1. /\ ctl \in Seq(Activations) /\ Len(ctl) \in Nat /\ Len(ctl') = Len(ctl)
        /\ ret.saved \in Nat /\ nest \in Nat /\ running \in Nat /\ info \in Nat
    BY DEF IInv, TypeOK, SameSites, Results
  <1>2. /\ \A S : CountIn(ctl', S) = CountIn(ctl, S)
        /\ \A n \in 0..Len(ctl) : \A v : IsCallerInfo(ctl', n, v) <=> IsCallerInfo(ctl, n, v)
    BY <1>1, SameSitesSame
  <1>3. \A S : Pending(S)' = 0 /\ Pending(S) \in {0, 1}
    BY DEF Pending, One
  <1>4. CountIn(ctl, StackSites) \in Nat /\ CountIn(ctl, FrameSites) \in Nat
    BY <1>1, IndicesFinite
  <1>5. Balanced'
    <2>1. /\ CountIn(ctl', StackSites) = CountIn(ctl, StackSites) /\ Pending(StackSites)' = 0
          /\ CountIn(ctl', FrameSites) = CountIn(ctl, FrameSites) /\ Pending(FrameSites)' = 0
          /\ Pending(StackSites) \in {0, 1} /\ Pending(FrameSites) \in {0, 1}
      BY <1>2, <1>3
    <2>2. /\ nest = Len(ctl) /\ running = 2 * Len(ctl)
          /\ stk = 1 + Len(ctl) + CountIn(ctl, StackSites) + Pending(StackSites)
          /\ frames = CountIn(ctl, FrameSites) + Pending(FrameSites)
      BY DEF IInv, Balanced, BalancedNest, BalancedStack, BalancedFrames
    <2>3. BalancedNest'
      BY <2>2, <1>1 DEF BalancedNest
    <2>4. BalancedStack'
      BY <2>1, <2>2, <1>1, <1>4 DEF BalancedStack
    <2>5. BalancedFrames'
      BY <2>1, <2>2, <1>4 DEF BalancedFrames
    <2> QED
      BY <2>3, <2>4, <2>5 DEF Balanced
  <1>6. TypeOK'
    <2>1. ctl' # <<>>
      BY <1>1
    <2>2. stk' \in Nat /\ frames' \in Nat /\ info' \in Nat
      <3>1. /\ Pending(StackSites)' = 0 /\ Pending(FrameSites)' = 0
            /\ CountIn(ctl', StackSites) \in Nat /\ CountIn(ctl', FrameSites) \in Nat
        BY <1>2, <1>3, <1>4
      <3> QED
        BY <3>1, <1>1, <1>5 DEF Balanced, BalancedStack, BalancedFrames
    <2> QED
      BY <2>1, <2>2, <1>1 DEF TypeOK, Phases, IInv
  <1>7. InfoIsCaller'
    <2>1. IsCallerInfo(ctl, Len(ctl), info')
      <3>1. CASE Pending(InfoSites) = 1
        BY <3>1 DEF IInv, SavedIsCaller, Pending, One
      <3>2. CASE Pending(InfoSites) # 1
        BY <3>2 DEF IInv, InfoIsCaller
      <3> QED
        BY <3>1, <3>2
    <2> QED
      BY <2>1, <1>1, <1>2, <1>3 DEF InfoIsCaller
  <1>8. SavedIsCaller'
    <2>1. \A i \in 1..Len(ctl') : IsCallerInfo(ctl', i - 1, ctl'[i].saved)
      <3> TAKE i \in 1..Len(ctl')
      <3>1. i - 1 \in 0..Len(ctl) /\ ctl'[i].saved = ctl[i].saved /\ i \in 1..Len(ctl)
        BY <1>1 DEF SameSites
      <3>2. IsCallerInfo(ctl, i - 1, ctl[i].saved)
        BY <3>1 DEF IInv, SavedIsCaller
      <3> QED
        BY <3>1, <3>2, <1>2
    <2> QED
      BY <2>1 DEF SavedIsCaller
  <1>9. BottomIsTop'
    BY <1>1 DEF BottomIsTop, IInv, SameSites
  <1> QED
    BY <1>5, <1>6, <1>7, <1>8, <1>9 DEF IInv

-----------------------------------------------------------------------------
(* Every step is of one of those shapes.                                   *)

\* Storing a code in the top activation changes no call site.
LEMMA WithTopSame ==
    ASSUME TypeOK, ctl # <<>>, NEW a \in Activations,
           a.site = Top.site, a.saved = Top.saved
    PROVE  /\ WithTop(a) \in Seq(Activations) /\ WithTop(a) # <<>>
           /\ SameSites(ctl, WithTop(a)) /\ WithTop(a)[Len(ctl)] = a
  <1>1. ctl \in Seq(Activations) /\ Len(ctl) \in Nat \ {0}
    BY DEF TypeOK
  <1>2. /\ WithTop(a) \in Seq(Activations) /\ Len(WithTop(a)) = Len(ctl)
        /\ WithTop(a)[Len(ctl)] = a
        /\ \A i \in 1..Len(ctl) : i # Len(ctl) => WithTop(a)[i] = ctl[i]
    BY <1>1 DEF WithTop
  <1> QED
    BY <1>1, <1>2 DEF SameSites, Top

\* No result is one.
LEMMA NoResultType == NoResult \in Results
  BY DEF NoResult, Results, AllSites, Codes

\* A code set in the activation that runs.
LEMMA CodeSame ==
    ASSUME TypeOK, ctl # <<>>, NEW rc \in Codes
    PROVE  /\ Code(rc) \in Seq(Activations) /\ Code(rc) # <<>> /\ SameSites(ctl, Code(rc))
           /\ Code(rc)[Len(Code(rc))].rc = rc
  <1> DEFINE a == [Top EXCEPT !.rc = rc]
  <1>1. Top \in Activations
    BY TopType
  <1>2. a \in Activations /\ a.site = Top.site /\ a.saved = Top.saved /\ a.rc = rc
    BY <1>1 DEF Activations
  <1>3. Code(rc) = WithTop(a)
    BY DEF Code
  <1> HIDE DEF a
  <1>4. /\ WithTop(a) \in Seq(Activations) /\ WithTop(a) # <<>>
        /\ SameSites(ctl, WithTop(a)) /\ WithTop(a)[Len(ctl)] = a
    BY <1>2, WithTopSame
  <1> QED
    BY <1>2, <1>3, <1>4 DEF SameSites

\* A command that ends without calling run().
LEMMA QuietInv ==
    ASSUME IInv, ctl # <<>>, NEW rc \in Codes, Proceed(rc) \/ Fail(rc),
           \A S \in {StackSites, FrameSites, InfoSites} : Pending(S) = 0,
           UNCHANGED <<nest, running, stk, frames, info>>, inPipe' \in BOOLEAN
    PROVE  IInv'
  <1>1. ctl' = Code(rc) /\ phase' \in {"body", "fail"} /\ ret' \in Results
    BY NoResultType DEF Proceed, Fail
  <1>2. ctl' \in Seq(Activations) /\ SameSites(ctl, ctl')
    BY <1>1, CodeSame DEF IInv
  <1>3. stk \in Nat /\ frames \in Nat
    BY DEF IInv, TypeOK
  <1>4. /\ stk' = stk - Pending(StackSites) /\ frames' = frames - Pending(FrameSites)
        /\ info' = IF Pending(InfoSites) = 1 THEN ret.saved ELSE info
    BY <1>3
  <1> QED
    BY <1>1, <1>2, <1>4, StayInv

\* A caller takes its frames back and goes on.
LEMMA ReplyInv ==
    ASSUME IInv, phase = "ret", ret.site # "top", NEW rc \in Codes,
           Proceed(rc) \/ Fail(rc), DropFrames
    PROVE  IInv'
  <1>0. ctl # <<>>
    BY DEF IInv, TypeOK
  <1>1. ctl' = Code(rc) /\ phase' \in {"body", "fail"} /\ ret' \in Results
    BY NoResultType DEF Proceed, Fail
  <1>2. ctl' \in Seq(Activations) /\ SameSites(ctl, ctl')
    BY <1>0, <1>1, CodeSame DEF IInv
  <1>3. /\ stk' = stk - Pending(StackSites) /\ frames' = frames - Pending(FrameSites)
        /\ info' = IF Pending(InfoSites) = 1 THEN ret.saved ELSE info
        /\ nest' = nest /\ running' = running /\ inPipe' \in BOOLEAN
    BY DEF DropFrames, Pending, One, IInv, TypeOK
  <1> QED
    BY <1>0, <1>1, <1>2, <1>3, StayInv

\* A caller that opened no frames keeps the counters as they are.
LEMMA KeepInv ==
    ASSUME IInv, phase = "ret",
           ret.site \notin StackSites \cup FrameSites \cup InfoSites,
           NEW rc \in Codes, Proceed(rc) \/ Fail(rc), KeepCounters
    PROVE  IInv'
  <1>1. ctl # <<>>
    BY DEF IInv, TypeOK, FrameSites
  <1>2. \A S \in {StackSites, FrameSites, InfoSites} : Pending(S) = 0
    BY DEF Pending, One
  <1> QED
    BY <1>1, <1>2, QuietInv DEF KeepCounters, IInv, TypeOK

\* A running activation calls run(), its code set first or not.
LEMMA CommandCallInv ==
    ASSUME IInv, ctl # <<>>, NEW c, c = ctl \/ \E rc \in Codes : c = Code(rc),
           \A S \in {StackSites, FrameSites, InfoSites} : Pending(S) = 0,
           NEW s, s # "top", NEW init \in Codes \cup {"uninit"}, Call(c, s, init)
    PROVE  IInv'
  <1>1. c \in Seq(Activations) /\ SameSites(ctl, c) /\ c # <<>>
    <2>1. CASE c = ctl
      BY <2>1 DEF IInv, TypeOK, SameSites
    <2>2. CASE \E rc \in Codes : c = Code(rc)
      BY <2>2, CodeSame DEF IInv
    <2> QED
      BY <2>1, <2>2
  <1> QED
    BY <1>1, CallInv

\* The command loop gets its run() back.
LEMMA TopReturnInv == IInv /\ RetTop => IInv'
  <1> SUFFICES ASSUME IInv, RetTop PROVE IInv'
    OBVIOUS
  <1>1. /\ phase = "ret" /\ ret.site = "top" /\ ctl = <<>> /\ ctl' = ctl
        /\ phase' \in {"idle", "exited"} /\ ret' = NoResult /\ info' = info
        /\ nest' = nest /\ running' = running /\ inPipe' = inPipe
        /\ stk' = stk - 1 /\ frames' = frames - 1
    BY DEF RetTop, Returned, DropFrames, IInv, TypeOK, FrameSites, StackSites, InfoSites, One
  <1>2. CountIn(ctl, StackSites) \in Nat /\ CountIn(ctl, FrameSites) \in Nat
    BY IndicesFinite DEF IInv, TypeOK
  <1>3. /\ Pending(StackSites) = 1 /\ Pending(FrameSites) = 1 /\ Pending(InfoSites) = 0
        /\ \A S : Pending(S)' = 0
    BY <1>1 DEF Pending, One, StackSites, FrameSites, InfoSites
  <1>4. stk = 1 + Len(ctl) + CountIn(ctl, StackSites) + 1 /\ frames = CountIn(ctl, FrameSites) + 1
    BY <1>3 DEF IInv, Balanced, BalancedStack, BalancedFrames
  <1>5. /\ CountIn(ctl', StackSites) = CountIn(ctl, StackSites)
        /\ CountIn(ctl', FrameSites) = CountIn(ctl, FrameSites) /\ Len(ctl') = 0 /\ Len(ctl) = 0
    BY <1>1
  <1>6. Balanced'
    <2>1. BalancedNest'
      BY <1>1 DEF IInv, Balanced, BalancedNest
    <2>2. BalancedStack' /\ BalancedFrames'
      BY <1>1, <1>2, <1>3, <1>4, <1>5 DEF BalancedStack, BalancedFrames
    <2> QED
      BY <2>1, <2>2 DEF Balanced
  <1>7. TypeOK'
    <2>1. NoResult \in Results
      BY NoResultType
    <2>2. stk' \in Nat /\ frames' \in Nat
      BY <1>1, <1>2, <1>4, <1>5
    <2> QED
      BY <2>1, <2>2, <1>1 DEF IInv, TypeOK, Phases
  <1>8. InfoIsCaller' /\ SavedIsCaller' /\ BottomIsTop'
    BY <1>1, <1>3 DEF IInv, InfoIsCaller, SavedIsCaller, BottomIsTop, IsCallerInfo
  <1> QED
    BY <1>6, <1>7, <1>8 DEF IInv

-----------------------------------------------------------------------------
(* The invariant is inductive.                                             *)

\* A step of the running activation: phase is body or fail.
LEMMA BodyStepInv ==
    ASSUME IInv, phase \in {"body", "fail"},
           \/ BeginStatement \/ EndBlock \/ EndStatement \/ EndInterrupted
           \/ EndUserSignal \/ StatementFails \/ NativeSucceeds \/ NativeFails
           \/ cmd_break \/ cmd_return \/ cmd_exit \/ ExternalExits \/ CommandRefused
           \/ CallObject \/ CallNative \/ CallNativeUnset
    PROVE  IInv'
  <1>1. TypeOK /\ ctl # <<>> /\ Top \in Activations /\ Top.rc \in Codes
    BY TopType DEF IInv, TypeOK
  <1>2. \A S : Pending(S) = 0
    BY DEF Pending, One
  <1>3. /\ {"0", "1", "130", "FALSE", "BREAK", "EXIT", "SIGINT", "INVALID"} \subseteq Codes
        /\ Returns \subseteq Codes
    BY DEF Codes
  <1>4. ASSUME NEW rc \in Codes, NEW at \in {"stmt", "cmd"},
               ctl' = WithTop([Top EXCEPT !.at = at, !.rc = rc]),
               KeepCounters, UNCHANGED <<phase, ret>>
        PROVE  IInv'
    <2> DEFINE a == [Top EXCEPT !.at = at, !.rc = rc]
    <2>1. a \in Activations /\ a.site = Top.site /\ a.saved = Top.saved
      BY <1>1 DEF Activations
    <2> HIDE DEF a
    <2>2. WithTop(a) \in Seq(Activations) /\ SameSites(ctl, WithTop(a))
      BY <1>1, <2>1, WithTopSame
    <2>3. ctl' \in Seq(Activations) /\ SameSites(ctl, ctl')
      BY <1>4, <2>2 DEF a
    <2>4. /\ stk' = stk - Pending(StackSites) /\ frames' = frames - Pending(FrameSites)
          /\ info' = IF Pending(InfoSites) = 1 THEN ret.saved ELSE info
      BY <1>1, <1>2, <1>4 DEF KeepCounters, TypeOK
    <2> QED
      BY <1>1, <1>4, <2>3, <2>4, StayInv DEF KeepCounters, TypeOK
  <1>5. CASE BeginStatement
    BY <1>3, <1>4, <1>5 DEF BeginStatement
  <1>6. CASE EndBlock
    BY <1>1, <1>6, LeaveInv DEF EndBlock
  <1>7. CASE EndStatement
    BY <1>1, <1>3, <1>4, <1>7 DEF EndStatement
  <1>8. CASE EndInterrupted
    BY <1>1, <1>3, <1>8, LeaveInv DEF EndInterrupted
  <1>9. CASE EndUserSignal
    <2>1. ReadOf(Top.init) \subseteq Codes
      BY <1>1, TopType DEF ReadOf
    <2> QED
      BY <1>1, <1>9, <2>1, LeaveInv DEF EndUserSignal
  <1>10. CASE StatementFails
    BY <1>1, <1>10, LeaveInv DEF StatementFails
  <1>11. CASE NativeSucceeds
    <2>1. PICK rc \in {"0", "1", "FALSE"} : Proceed(rc)
      BY <1>11 DEF NativeSucceeds
    <2> QED
      BY <1>1, <1>2, <1>3, <1>11, <2>1, QuietInv DEF NativeSucceeds, TypeOK
  <1>12. CASE NativeFails
    <2>1. PICK rc \in {"0", "INVALID", "SIGINT"} : Fail(rc)
      BY <1>12 DEF NativeFails
    <2> QED
      BY <1>1, <1>2, <1>3, <1>12, <2>1, QuietInv DEF NativeFails, TypeOK
  <1>13. CASE cmd_break \/ cmd_return \/ cmd_exit \/ ExternalExits \/ CommandRefused
    <2>1. PICK rc \in Codes : Proceed(rc) \/ Fail(rc)
      BY <1>1, <1>3, <1>13
      DEF cmd_break, cmd_return, cmd_exit, ExternalExits, CommandRefused
    <2>2. KeepCounters
      BY <1>13 DEF cmd_break, cmd_return, cmd_exit, ExternalExits, CommandRefused
    <2> QED
      BY <1>1, <1>2, <2>1, <2>2, QuietInv DEF KeepCounters, TypeOK
  <1>14. CASE CallObject
    <2>1. PICK s \in {"fun", "alias", "block", "expand"}, init \in Codes \cup {"uninit"} :
             Call(ctl, s, init)
      BY <1>3, <1>14 DEF CallObject
    <2> QED
      BY <1>1, <1>2, <2>1, CommandCallInv
  <1>15. CASE CallNative
    <2>1. PICK s \in {"ifCond", "whileCond", "loop", "load"}, init \in Codes \cup {"uninit"} :
             Call(Code("0"), s, init)
      BY <1>3, <1>15 DEF CallNative
    <2>2. \E rc \in Codes : Code("0") = Code(rc)
      BY <1>3
    <2> QED
      BY <1>1, <1>2, <2>1, <2>2, CommandCallInv
  <1>16. CASE CallNativeUnset
    <2>1. PICK s \in {"sub", "time", "loop", "tryBody", "evalStr", "ablock"},
               init \in Codes \cup {"uninit"} : Call(Code("INVALID"), s, init)
      BY <1>3, <1>16 DEF CallNativeUnset
    <2>2. \E rc \in Codes : Code("INVALID") = Code(rc)
      BY <1>3
    <2> QED
      BY <1>1, <1>2, <2>1, <2>2, CommandCallInv
  <1> QED
    BY <1>5, <1>6, <1>7, <1>8, <1>9, <1>10, <1>11, <1>12, <1>13, <1>14, <1>15, <1>16

\* A caller handles the result of its run().
LEMMA ReturnStepInv == IInv /\ RetAny => IInv'
  <1> SUFFICES ASSUME IInv, RetAny PROVE IInv'
    OBVIOUS
  <1>1. phase = "ret" /\ (ret.site # "top" => ctl # <<>>) /\ TypeOK
    BY DEF RetAny, RetTop, RetFun, RetAlias, RetBlock, RetSub, RetTime, RetEvalStr, RetAblock, RetLoad, RetIfCond,
       RetWhileCond, RetWhileBody, RetLoop, RetTry, Returned, IInv, TypeOK
  <1>2. ret.rc \in Codes /\ (ret.site # "top" => Top.rc \in Codes)
    BY <1>1, TopType DEF TypeOK, Results
  <1>3. /\ {"0", "1", "130", "FALSE", "BREAK", "EXIT", "SIGINT", "INVALID"} \subseteq Codes
        /\ Returns \subseteq Codes
    BY DEF Codes
  <1>4. ret.site \in {"ifCond", "whileCond", "whileBody", "loop", "tryBody"} =>
            /\ ret.site \notin StackSites \cup FrameSites \cup InfoSites
            /\ \A S \in {StackSites, FrameSites, InfoSites} : Pending(S) = 0
    BY DEF StackSites, FrameSites, InfoSites, Pending, One
  <1>5. CASE RetTop
    BY <1>5, TopReturnInv
  <1>6. CASE RetFun
    <2>1. PICK rc \in Codes : Proceed(rc) \/ Fail(rc)
      BY <1>2, <1>3, <1>6 DEF RetFun
    <2> QED
      BY <1>6, <2>1, ReplyInv DEF RetFun, Returned
  <1>7. CASE RetAlias
    <2>1. PICK rc \in Codes : Proceed(rc) \/ Fail(rc)
      BY <1>2, <1>7 DEF RetAlias, Returned
    <2> QED
      BY <1>7, <2>1, ReplyInv DEF RetAlias, Returned
  <1>8. CASE RetBlock \/ RetSub \/ RetTime \/ RetEvalStr \/ RetAblock \/ RetLoad
    <2>1. ret.site # "top" /\ DropFrames
      BY <1>8 DEF RetBlock, RetSub, RetTime, RetEvalStr, RetAblock, RetLoad, Returned
    <2>2. PICK rc \in Codes : Proceed(rc) \/ Fail(rc)
      BY <1>2, <1>3, <1>8, <2>1 DEF RetBlock, RetSub, RetTime, RetEvalStr, RetAblock, RetLoad
    <2> QED
      BY <1>1, <2>1, <2>2, ReplyInv
  <1>9. CASE RetIfCond
    <2>0. ret.site = "ifCond"
      BY <1>9 DEF RetIfCond, Returned
    <2>1. CASE \E rc \in Codes : (Proceed(rc) \/ Fail(rc)) /\ KeepCounters
      BY <1>1, <1>4, <2>0, <2>1, KeepInv
    <2>2. CASE \E s \in {"ifCond", "sub"} : Call(ctl, s, "0")
      BY <1>1, <1>3, <1>4, <2>0, <2>2, CommandCallInv
    <2> QED
      BY <1>2, <1>9, <2>0, <2>1, <2>2 DEF RetIfCond
  <1>10. CASE RetWhileCond
    <2>0. ret.site = "whileCond"
      BY <1>10 DEF RetWhileCond, Returned
    <2>1. CASE \E rc \in Codes : (Proceed(rc) \/ Fail(rc)) /\ KeepCounters
      BY <1>1, <1>4, <2>0, <2>1, KeepInv
    <2>2. CASE Call(ctl, "whileBody", "0")
      BY <1>1, <1>3, <1>4, <2>0, <2>2, CommandCallInv
    <2> QED
      BY <1>2, <1>10, <2>0, <2>1, <2>2 DEF RetWhileCond
  <1>11. CASE RetWhileBody
    <2>0. ret.site = "whileBody"
      BY <1>11 DEF RetWhileBody, Returned
    <2>1. CASE \E rc \in Codes : (Proceed(rc) \/ Fail(rc)) /\ KeepCounters
      BY <1>1, <1>4, <2>0, <2>1, KeepInv
    <2>2. CASE Call(Code(ret.rc), "whileCond", "uninit")
      BY <1>1, <1>2, <1>4, <2>0, <2>2, CommandCallInv
    <2> QED
      BY <1>2, <1>11, <2>0, <2>1, <2>2 DEF RetWhileBody
  <1>12. CASE RetLoop
    <2>0. ret.site = "loop"
      BY <1>12 DEF RetLoop, Returned
    <2>1. CASE \E rc \in Codes : (Proceed(rc) \/ Fail(rc)) /\ KeepCounters
      BY <1>1, <1>4, <2>0, <2>1, KeepInv
    <2>2. CASE Call(Code(ret.rc), "loop", "0")
      BY <1>1, <1>2, <1>3, <1>4, <2>0, <2>2, CommandCallInv
    <2> QED
      BY <1>2, <1>3, <1>12, <2>1, <2>2 DEF RetLoop
  <1>13. CASE RetTry
    <2>0. ret.site = "tryBody"
      BY <1>13 DEF RetTry, Returned
    <2>1. CASE \E rc \in Codes : (Proceed(rc) \/ Fail(rc)) /\ KeepCounters
      BY <1>1, <1>4, <2>0, <2>1, KeepInv
    <2>2. CASE Call(ctl, "tryHandler", ret.rc)
      BY <1>1, <1>2, <1>4, <2>0, <2>2, CommandCallInv
    <2> QED
      BY <1>2, <1>3, <1>13, <2>1, <2>2 DEF RetTry
  <1> QED
    BY <1>5, <1>6, <1>7, <1>8, <1>9, <1>10, <1>11, <1>12, <1>13 DEF RetAny

\* So every step keeps it.
LEMMA StepInv == IInv /\ [Next]_vars => IInv'
  <1> SUFFICES ASSUME IInv, [Next]_vars PROVE IInv'
    OBVIOUS
  <1>1. CASE UNCHANGED vars
    BY <1>1 DEF vars, IInv, TypeOK, Balanced, BalancedNest, BalancedStack, BalancedFrames,
       InfoIsCaller, SavedIsCaller, BottomIsTop, Pending, CountIn, IndicesIn, IsCallerInfo
  <1>2. CASE ReadCommand
    <2>1. /\ ctl \in Seq(Activations) /\ ctl = <<>> /\ SameSites(ctl, ctl)
          /\ \A S \in {StackSites, FrameSites, InfoSites} : Pending(S) = 0
      BY <1>2 DEF ReadCommand, IInv, TypeOK, SameSites, Pending, One
    <2>2. Call(ctl, "top", "0") /\ "0" \in Codes
      BY <1>2 DEF ReadCommand, Codes
    <2> QED
      BY <2>1, <2>2, CallInv
  <1>3. CASE \/ BeginStatement \/ EndBlock \/ EndStatement \/ EndInterrupted
             \/ EndUserSignal \/ StatementFails \/ NativeSucceeds \/ NativeFails
             \/ cmd_break \/ cmd_return \/ cmd_exit \/ ExternalExits \/ CommandRefused
             \/ CallObject \/ CallNative \/ CallNativeUnset
    <2>1. phase \in {"body", "fail"}
      BY <1>3 DEF BeginStatement, EndBlock, EndStatement, EndInterrupted, EndUserSignal,
         StatementFails, NativeSucceeds, NativeFails, cmd_break, cmd_return, cmd_exit,
         ExternalExits, CommandRefused, CallObject, CallNative, CallNativeUnset, AtCommand
    <2> QED
      BY <1>3, <2>1, BodyStepInv
  <1>4. CASE RetAny
    BY <1>4, ReturnStepInv
  <1>5. CASE Exited
    BY <1>1, <1>5 DEF Exited
  <1> QED
    BY <1>1, <1>2, <1>3, <1>4, <1>5 DEF Next

-----------------------------------------------------------------------------
(* Theorems.                                                               *)

\* The invariant holds at every moment, for any number of nested calls.
THEOREM Invariance == Spec => []IInv
  <1>1. Init => IInv
    BY InitInv
  <1>2. IInv /\ [Next]_vars => IInv'
    BY StepInv
  <1> QED
    BY <1>1, <1>2, PTL DEF Spec

\* Every variable keeps its kind, and the control stack is empty exactly at
\* the prompt, after exit, and while the command loop takes its result.
THEOREM TypeCorrect == Spec => []TypeOK
  <1>1. IInv => TypeOK
    BY DEF IInv
  <1> QED
    BY <1>1, Invariance, PTL

\* run() and its callers give back every level, frame and object they took,
\* on every path out, for any nesting limit and any set of callers.
THEOREM BalancedAlways == Spec => []Balanced
  <1>1. IInv => Balanced
    BY DEF IInv
  <1> QED
    BY <1>1, Invariance, PTL

\* gRunInfoOfRunningObject is the caller of the innermost function or alias.
THEOREM InfoIsCallerAlways == Spec => []InfoIsCaller
  <1>1. IInv => InfoIsCaller
    BY DEF IInv
  <1> QED
    BY <1>1, Invariance, PTL

\* gStackFrame is never overrun whenever MAX_STACK exceeds twice the nesting
\* limit: an activation takes at most two frames, and the caller stopped at
\* the limit one more.
THEOREM StackNeverOverrun == Spec => []StackInBounds
  <1>1. IInv => StackInBounds
    <2> SUFFICES ASSUME IInv PROVE StackInBounds
      OBVIOUS
    <2> DEFINE k == CountIn(ctl, StackSites)
    <2>1. k \in Nat /\ k <= Len(ctl) /\ Len(ctl) \in Nat
      BY IndicesFinite DEF IInv, TypeOK
    <2>2. Len(ctl) = nest /\ nest <= MaxNest - 1
      BY DEF IInv, TypeOK, Balanced, BalancedNest
    <2>3. stk = 1 + Len(ctl) + k + Pending(StackSites) /\ Pending(StackSites) \in {0, 1}
      BY DEF IInv, Balanced, BalancedStack, Pending, One
    <2>4. MaxNest \in Nat /\ MaxStack \in Nat /\ 2 * MaxNest < MaxStack
      BY NestAssumption, StackAssumption
    <2> HIDE DEF k
    <2>5. stk <= 2 * MaxNest
      BY <2>1, <2>2, <2>3, <2>4
    <2> QED
      BY <2>5, <2>4, <2>1, <2>3 DEF StackInBounds
  <1> QED
    BY <1>1, Invariance, PTL

\* The objects of a pipe are dropped when the outermost run() returns.
THEOREM PipeObjectsDroppedAlways == Spec => []PipeObjectsDropped
  <1>1. Init => PipeObjectsDropped
    BY DEF Init, PipeObjectsDropped
  <1>2. IInv /\ IInv' /\ PipeObjectsDropped /\ [Next]_vars => PipeObjectsDropped'
    <2> SUFFICES ASSUME IInv, IInv', PipeObjectsDropped, [Next]_vars
                 PROVE  PipeObjectsDropped'
      OBVIOUS
    <2>1. nest \in Nat /\ nest' \in Nat /\ nest = Len(ctl) /\ nest' = Len(ctl')
      BY NestAssumption DEF IInv, TypeOK, Balanced, BalancedNest
    <2>2. ASSUME inPipe' = inPipe, nest' = nest \/ nest' = nest + 1 PROVE PipeObjectsDropped'
      BY <2>1, <2>2 DEF PipeObjectsDropped
    <2>3. ASSUME NEW ok, NEW rc, Leave(ok, rc) PROVE PipeObjectsDropped'
      <3>1. nest' = nest - 1 /\ (inPipe' => nest - 1 # 0)
        BY <2>3, Zenon DEF Leave, HeldInPipe
      <3> QED
        BY <3>1, <2>1 DEF PipeObjectsDropped
    <2>4. ASSUME NEW c, NEW s, NEW init, Call(c, s, init) PROVE PipeObjectsDropped'
      BY <2>2, <2>4 DEF Call
    <2>5. CASE NativeSucceeds \/ NativeFails
      <3>1. nest' = nest /\ ctl # <<>> /\ ctl \in Seq(Activations)
        BY <2>5 DEF NativeSucceeds, NativeFails, AtCommand, IInv, TypeOK
      <3> QED
        BY <3>1, <2>1 DEF PipeObjectsDropped
    <2>6. CASE EndBlock \/ EndInterrupted \/ EndUserSignal \/ StatementFails
      BY <2>6, <2>3 DEF EndBlock, EndInterrupted, EndUserSignal, StatementFails
    <2>7. CASE ReadCommand \/ CallObject \/ CallNative \/ CallNativeUnset
      BY <2>7, <2>4 DEF ReadCommand, CallObject, CallNative, CallNativeUnset
    <2>8. CASE \/ BeginStatement \/ EndStatement \/ cmd_break \/ cmd_return \/ cmd_exit
               \/ ExternalExits \/ CommandRefused \/ Exited \/ UNCHANGED vars
      BY <2>8, <2>2 DEF BeginStatement, EndStatement, cmd_break, cmd_return, cmd_exit,
         ExternalExits, CommandRefused, Exited, KeepCounters, vars
    <2>9. CASE RetTop \/ RetFun \/ RetAlias \/ RetBlock \/ RetSub \/ RetTime \/ RetEvalStr \/ RetAblock \/ RetLoad
      BY <2>9, <2>2 DEF RetTop, RetFun, RetAlias, RetBlock, RetSub, RetTime, RetEvalStr, RetAblock, RetLoad, DropFrames
    <2>10. CASE RetIfCond
      BY <2>10, <2>2, <2>4 DEF RetIfCond, KeepCounters
    <2>11. CASE RetWhileCond \/ RetWhileBody
      BY <2>11, <2>2, <2>4 DEF RetWhileCond, RetWhileBody, KeepCounters
    <2>12. CASE RetLoop \/ RetTry
      BY <2>12, <2>2, <2>4 DEF RetLoop, RetTry, KeepCounters
    <2> QED
      BY <2>5, <2>6, <2>7, <2>8, <2>9, <2>10, <2>11, <2>12 DEF Next, RetAny
  <1> QED
    BY <1>1, <1>2, Invariance, PTL DEF Spec

\* A break, return or exit on its way out reaches a caller meant to stop it
\* with its code unchanged.
THEOREM JumpsAlwaysLand == Spec => JumpsLand
  <1> DEFINE JumpCodes == {"BREAK", "EXIT"} \cup Returns
             Kept(c) == InFlight(c) /\ ~(phase = "ret" /\ ret.site \in CatchersOf(c))
                           => InFlight(c)'
  <1>1. TypeOK /\ [Next]_vars => [\A c \in JumpCodes : Kept(c)]_vars
    <2> SUFFICES ASSUME TypeOK, Next, NEW c \in JumpCodes, InFlight(c),
                        ~(phase = "ret" /\ ret.site \in CatchersOf(c))
                 PROVE  InFlight(c)'
      OBVIOUS
    <2>1. c \in Codes /\ c \in Rethrown /\ c \notin {"0", "1"}
      BY DEF Codes, Rethrown, Returns
    <2>2. CASE phase = "fail"
      <3>1. Leave(FALSE, c)
        BY <2>2 DEF InFlight, Next, ReadCommand, BeginStatement, EndBlock, EndStatement,
           EndInterrupted, EndUserSignal, StatementFails, NativeSucceeds, NativeFails,
           cmd_break, cmd_return, cmd_exit, ExternalExits, CommandRefused, CallObject,
           CallNative, CallNativeUnset, AtCommand, RetAny, RetTop, RetFun, RetAlias, RetBlock,
           RetSub, RetTime, RetEvalStr, RetAblock, RetLoad, RetIfCond, RetWhileCond, RetWhileBody, RetLoop, RetTry,
           Returned, Exited
      <3> QED
        BY <3>1 DEF Leave, InFlight
    <2>3. CASE phase # "fail"
      <3>1. /\ phase = "ret" /\ ret.site \notin CatchersOf(c) /\ ~ret.ok /\ ret.rc = c
            /\ ret.site \notin {"top", "alias"}
        BY <2>3 DEF InFlight, CatchersOf
      <3>2. RetAny
        BY <3>1 DEF Next, ReadCommand, BeginStatement, EndBlock, EndStatement,
           EndInterrupted, EndUserSignal, StatementFails, NativeSucceeds, NativeFails,
           cmd_break, cmd_return, cmd_exit, ExternalExits, CommandRefused, CallObject,
           CallNative, CallNativeUnset, AtCommand, Exited
      <3>3. Fail(c)
        <4>1. /\ c = "BREAK" => ret.site \notin {"whileBody", "loop"}
              /\ c = "EXIT" => ret.site # "load"
              /\ c \in Returns => ret.site # "fun"
          BY <3>1 DEF CatchersOf, Returns
        <4>2. CASE RetTop \/ RetFun \/ RetAlias
          BY <3>1, <4>1, <4>2 DEF RetTop, RetFun, RetAlias, Returned
        <4>3. CASE RetBlock \/ RetSub \/ RetTime \/ RetEvalStr \/ RetAblock \/ RetLoad
          BY <3>1, <4>1, <4>3 DEF RetBlock, RetSub, RetTime, RetEvalStr, RetAblock, RetLoad, Returned
        <4>4. CASE RetIfCond \/ RetWhileCond
          BY <3>1, <4>4 DEF RetIfCond, RetWhileCond
        <4>5. CASE RetWhileBody \/ RetLoop
          BY <3>1, <4>1, <4>5 DEF RetWhileBody, RetLoop, Returned
        <4>6. CASE RetTry
          BY <3>1, <2>1, <4>6 DEF RetTry
        <4> QED
          BY <3>2, <4>2, <4>3, <4>4, <4>5, <4>6 DEF RetAny
      <3>4. ctl # <<>>
        BY <3>1 DEF TypeOK
      <3>5. phase' = "fail" /\ Top'.rc = c
        BY <3>3, <3>4, <2>1, CodeSame DEF Fail, Top
      <3> QED
        BY <3>5 DEF InFlight
    <2> QED
      BY <2>2, <2>3
  <1> QED
    BY <1>1, TypeCorrect, PTL DEF Spec, JumpsLand
=============================================================================
