-------------------------- MODULE CollectorProofs --------------------------
(***************************************************************************)
(* For any size of the pool, any bounds and any names: the free list is    *)
(* exact (FreeListExact), no function or stack frame in use is swept and   *)
(* recursion restores the local variables (FramesKept), and names refer to *)
(* objects in use (NamesLive).                                             *)
(*                                                                         *)
(* IInv adds what the three rest on: that the vectors of gXyzshObject are  *)
(* in step with the activations (Shape), that they hold objects in use     *)
(* (RootsLive), who a function's local variables belong to (LocalsOwned,   *)
(* SavedLocals), and what has been marked (MarkedClosed).                  *)
(***************************************************************************)
EXTENDS Collector, SequenceTheorems, TLAPS

\* The vectors of gXyzshObject follow the activations of run().
Shape ==
    /\ pc = "ready" <=> acts = <<>>
    /\ Len(gRunningObjects) = 2 * Len(acts)
    /\ Len(gStackFrames) = IF acts = <<>> THEN 0 ELSE Last(acts).depth
    /\ \A i \in 1..Len(acts) :
          /\ gRunningObjects[2 * i - 1] = acts[i].running
          /\ acts[i].depth >= 1
          /\ i > 1 => acts[i].depth = acts[i - 1].depth + (IF Framed(acts[i]) THEN 1 ELSE 0)
          /\ acts[i].what = "load" <=> i = 1
          /\ i = 1 => acts[i].depth = 1
    /\ \A i, j \in 1..Len(acts) : i < j =>
          /\ acts[i].depth <= acts[j].depth
          /\ Framed(acts[j]) => acts[i].depth < acts[j].depth

\* What a sweep starts from is in use, and is what it should be.
RootsLive ==
    /\ heap[Root].kind = "object"
    /\ \A i \in 1..Len(gStackFrames) : heap[gStackFrames[i]].kind = "object"
    /\ \A i \in 1..Len(gRunningObjects) :
          gRunningObjects[i] # Null => heap[gRunningObjects[i]].kind # "free"
    /\ \A i \in 1..Len(acts) : acts[i].running # Null => IsFun(heap[acts[i].running])
    /\ \A i \in 1..Len(acts) : acts[i].what = "fun" => acts[i].running # Null

\* Only a function that is being run has local variables: a frame it pushed.
LocalsOwned ==
    \A s \in Slot : heap[s].kind # "free" /\ heap[s].ref["locals"] # Null =>
        \E j \in 1..Len(acts) : /\ acts[j].what = "fun"
                                /\ acts[j].running = s
                                /\ heap[s].ref["locals"] = gStackFrames[acts[j].depth]

\* What a call keeps to restore is the frame of the same function's call
\* before it, if there is one.
SavedLocals ==
    \A i \in 1..Len(acts) : acts[i].what = "fun" =>
        /\ acts[i].locals # Null =>
              \E j \in 1..i - 1 : /\ acts[j].what = "fun"
                                  /\ acts[j].running = acts[i].running
                                  /\ acts[i].locals = gStackFrames[acts[j].depth]
        /\ \A j \in 1..i - 1 :
              (/\ acts[j].what = "fun" /\ acts[j].running = acts[i].running
               /\ \A k \in j+1..i-1 : acts[k].what = "fun" => acts[k].running # acts[i].running)
              => acts[i].locals = gStackFrames[acts[j].depth]

\* Marks cover the roots, and the children of all that is marked but grey.
MarkedClosed ==
    pc \in {"mark", "sweep"} =>
        /\ Roots(gObjectsInPipe) \subseteq marked
        /\ \A s \in marked \ grey : Pointers(heap[s]) \subseteq marked
        /\ pc = "sweep" => grey = {}

IInv == /\ TypeOK /\ FreeListExact /\ Shape /\ RootsLive /\ LocalsOwned
        /\ SavedLocals /\ FramesKept /\ NamesLive /\ MarkedClosed

-----------------------------------------------------------------------------
(* The free list.                                                          *)

\* A list followed by fresh slots numbered from m + 1.
LEMMA ConcatFresh ==
    ASSUME NEW m \in Nat, NEW f \in Seq(1..m), NEW d \in Seq(1..2 * m),
           Len(d) = m, \A i \in 1..m : d[i] = m + i
    PROVE  /\ f \o d \in Seq(1..2 * m)
           /\ Len(f \o d) = Len(f) + m
           /\ \A i \in 1..Len(f) : (f \o d)[i] = f[i]
           /\ \A i \in Len(f) + 1..Len(f) + m : (f \o d)[i] = m + (i - Len(f))
<1>1. f \in Seq(1..2 * m) /\ Len(f) \in Nat
  <2> DEFINE T == 1..m
             U == 1..2 * m
  <2>1. f \in Seq(T) /\ \A t \in T : t \in U
    OBVIOUS
  <2> HIDE DEF T, U
  <2>2. Len(f) \in Nat /\ \A i \in 1..Len(f) : f[i] \in U
    BY <2>1
  <2>3. f \in Seq(U)
    BY <2>1, <2>2
  <2> QED
    BY <2>2, <2>3 DEF U
<1>2. /\ f \o d \in Seq(1..2 * m)
      /\ Len(f \o d) = Len(f) + Len(d)
      /\ \A i \in 1..Len(f) + Len(d) :
            (f \o d)[i] = IF i <= Len(f) THEN f[i] ELSE d[i - Len(f)]
  BY <1>1, ConcatProperties
<1>3. ASSUME NEW i \in Len(f) + 1..Len(f) + m
      PROVE  (f \o d)[i] = m + (i - Len(f))
  <2>1. i - Len(f) \in 1..m /\ i \in 1..Len(f) + Len(d) /\ ~(i <= Len(f))
    BY <1>1
  <2>2. d[i - Len(f)] = m + (i - Len(f))
    BY <2>1
  <2> QED
    BY <2>1, <2>2, <1>2
<1>4. \A i \in 1..Len(f) : (f \o d)[i] = f[i]
  BY <1>1, <1>2
<1> QED
  BY <1>2, <1>3, <1>4

\* The slots gc_get_free_object() hands out are free slots of the pool, and
\* the rest of the list is exactly the other free slots.
LEMMA ObtainLemma ==
    ASSUME TypeOK, FreeListExact, NEW k \in {1, 2}, Obtain(k)
    PROVE  /\ pool' \in InitPool..MaxPool /\ pool <= pool'
           /\ \A i \in 1..k : Supply(k)[i] \in 1..pool'
                              /\ heap[Supply(k)[i]].kind = "free"
           /\ \A i, j \in 1..k : Supply(k)[i] = Supply(k)[j] => i = j
           /\ free' \in Seq(1..pool')
           /\ \A i, j \in 1..Len(free') : free'[i] = free'[j] => i = j
           /\ Items(free') = {s \in 1..pool' : heap[s].kind = "free"}
                                 \ {Supply(k)[i] : i \in 1..k}
<1> DEFINE q == Supply(k)
           p == pool'
<1>1. pool \in InitPool..MaxPool /\ pool \in Nat /\ 2 <= pool /\ free \in Seq(1..pool)
      /\ pool <= MaxPool
  BY PoolAssumption DEF TypeOK
<1>2. p \in InitPool..MaxPool /\ pool <= p /\ p \in Nat
  BY <1>1, PoolAssumption DEF Obtain
<1>3. /\ q \in Seq(1..p) /\ Len(q) >= k
      /\ \A i, j \in 1..Len(q) : q[i] = q[j] => i = j
      /\ \A i \in 1..Len(q) : q[i] \in 1..p /\ heap[q[i]].kind = "free"
      /\ \A s \in 1..p : heap[s].kind = "free" => \E i \in 1..Len(q) : q[i] = s
  <2>1. CASE Len(free) >= k
    <3>1. q = free /\ p = pool
      BY <2>1, <1>1 DEF Supply, Obtain
    <3>2. \A i \in 1..Len(free) : free[i] \in 1..pool /\ free[i] \in Items(free)
      BY <1>1 DEF Items
    <3> QED
      BY <3>1, <3>2, <2>1, <1>1 DEF FreeListExact, Items
  <2>2. CASE Len(free) < k
    <3>1. q = free \o NewSlots /\ p = 2 * pool /\ 2 * pool <= MaxPool
      BY <2>2, <1>1 DEF Supply, Obtain
    <3>2. NewSlots \in Seq(1..p) /\ Len(NewSlots) = pool
          /\ \A i \in 1..pool : NewSlots[i] = pool + i
      <4>1. \A i \in 1..pool : pool + i \in 1..p
        BY <3>1, <1>1
      <4> QED
        BY <4>1, <1>1 DEF NewSlots
    <3>3. /\ q \in Seq(1..p) /\ Len(q) = Len(free) + pool /\ Len(free) \in Nat
          /\ \A i \in 1..Len(free) : q[i] = free[i]
          /\ \A i \in Len(free) + 1..Len(free) + pool : q[i] = pool + (i - Len(free))
      <4>1. /\ pool \in Nat /\ free \in Seq(1..pool) /\ NewSlots \in Seq(1..2 * pool)
            /\ Len(NewSlots) = pool /\ \A i \in 1..pool : NewSlots[i] = pool + i
        BY <3>1, <3>2, <1>1
      <4>2. /\ free \o NewSlots \in Seq(1..2 * pool)
            /\ Len(free \o NewSlots) = Len(free) + pool
            /\ \A i \in 1..Len(free) : (free \o NewSlots)[i] = free[i]
            /\ \A i \in Len(free) + 1..Len(free) + pool :
                  (free \o NewSlots)[i] = pool + (i - Len(free))
        BY <4>1, ConcatFresh
      <4> DEFINE w == free \o NewSlots
      <4>3. q = w /\ p = 2 * pool
        BY <3>1
      <4>4. Len(free) \in Nat
        BY <4>1
      <4>5. /\ w \in Seq(1..2 * pool) /\ Len(w) = Len(free) + pool
            /\ \A i \in 1..Len(free) : w[i] = free[i]
            /\ \A i \in Len(free) + 1..Len(free) + pool : w[i] = pool + (i - Len(free))
        BY <4>2
      <4> HIDE DEF q, p, w
      <4> QED
        BY <4>3, <4>4, <4>5
    <3> HIDE DEF q, p
    <3>4. \A i \in 1..Len(free) : free[i] \in 1..pool /\ heap[free[i]].kind = "free"
      BY <1>1 DEF FreeListExact, Items
    <3>5. Len(q) >= k
      BY <3>3, <1>1
    <3>6. \A i \in 1..Len(q) : \/ i \in 1..Len(free) /\ q[i] = free[i] /\ q[i] <= pool
                               \/ i \in Len(free) + 1..Len(free) + pool /\ q[i] > pool
                                  /\ q[i] = pool + (i - Len(free))
      BY <3>3, <3>4, <1>1
    <3>7. \A i, j \in 1..Len(q) : q[i] = q[j] => i = j
      <4> SUFFICES ASSUME NEW i \in 1..Len(q), NEW j \in 1..Len(q), q[i] = q[j]
                   PROVE  i = j
        OBVIOUS
      <4>1. CASE i <= Len(free)
        <5>1. i \in 1..Len(free) /\ j \in 1..Len(free) /\ free[i] = free[j]
          BY <4>1, <3>3, <3>6, <1>1
        <5> QED
          BY <5>1 DEF FreeListExact
      <4>2. CASE i > Len(free)
        BY <4>2, <3>3, <3>6, <1>1
      <4> QED
        BY <4>1, <4>2, <3>3
    <3>8. \A i \in 1..Len(q) : q[i] \in 1..p /\ heap[q[i]].kind = "free"
      <4> SUFFICES ASSUME NEW i \in 1..Len(q)
                   PROVE  q[i] \in 1..p /\ heap[q[i]].kind = "free"
        OBVIOUS
      <4>1. CASE i <= Len(free)
        <5>1. i \in 1..Len(free) /\ q[i] = free[i]
          BY <4>1, <3>3
        <5>2. 1..pool \subseteq 1..p
          BY <3>1, <1>1
        <5> QED
          BY <5>1, <5>2, <3>4
      <4>2. CASE i > Len(free)
        <5>1. i \in Len(free) + 1..Len(free) + pool /\ q[i] = pool + (i - Len(free))
          BY <4>2, <3>3, <3>6, <1>1
        <5>2. q[i] \in Nat /\ q[i] > pool /\ q[i] <= 2 * pool
          BY <5>1, <3>3, <1>1
        <5>3. q[i] \in 1..p /\ q[i] \in Slot /\ q[i] > pool
          <6>1. p = 2 * pool /\ 2 * pool <= MaxPool /\ pool \in Nat /\ MaxPool \in Nat
            BY <3>1, <1>1, PoolAssumption
          <6> QED
            BY <5>2, <6>1 DEF Slot
        <5> QED
          BY <5>3 DEF FreeListExact
      <4> QED
        BY <4>1, <4>2, <3>3
    <3>9. ASSUME NEW s \in 1..p, heap[s].kind = "free"
          PROVE  \E i \in 1..Len(q) : q[i] = s
      <4>1. CASE s <= pool
        <5>1. s \in Items(free)
          BY <4>1, <3>9, <1>1, <1>2 DEF FreeListExact
        <5>2. PICK i \in 1..Len(free) : free[i] = s
          BY <5>1 DEF Items
        <5> QED
          BY <5>2, <3>3, <1>1
      <4>2. CASE s > pool
        <5>1. Len(free) + (s - pool) \in 1..Len(q) /\ q[Len(free) + (s - pool)] = s
          <6>1. p = 2 * pool /\ pool \in Nat /\ s \in Nat /\ s <= p
            BY <3>1, <1>1, <1>2
          <6>2. /\ Len(free) + (s - pool) \in Len(free) + 1..Len(free) + pool
                /\ (Len(free) + (s - pool)) - Len(free) = s - pool
                /\ pool + (s - pool) = s
            BY <6>1, <4>2, <3>3
          <6> QED
            BY <6>2, <3>3
        <5> QED
          BY <5>1
      <4> QED
        BY <4>1, <4>2, <1>1, <1>2
    <3> QED
      BY <3>3, <3>5, <3>7, <3>8, <3>9
  <2> QED
    BY <2>1, <2>2, <1>1
<1>4. free' = SubSeq(q, k + 1, Len(q))
  BY DEF Obtain
<1> HIDE DEF q, p
<1>5. /\ free' \in Seq(1..p) /\ Len(free') = Len(q) - k
      /\ \A i \in 1..Len(free') : free'[i] = q[i + k]
  BY <1>4, <1>3
<1>6. \A i, j \in 1..Len(free') : free'[i] = free'[j] => i = j
  BY <1>5, <1>3
<1>7. Items(free') = {s \in 1..p : heap[s].kind = "free"} \ {q[i] : i \in 1..k}
  <2>1. ASSUME NEW s \in Items(free')
        PROVE  s \in 1..p /\ heap[s].kind = "free" /\ s \notin {q[i] : i \in 1..k}
    <3>1. PICK i \in 1..Len(free') : free'[i] = s
      BY <2>1 DEF Items
    <3>2. i + k \in 1..Len(q) /\ s = q[i + k]
      BY <3>1, <1>5, <1>3
    <3> QED
      BY <3>2, <1>3
  <2>2. ASSUME NEW s \in 1..p, heap[s].kind = "free", s \notin {q[i] : i \in 1..k}
        PROVE  s \in Items(free')
    <3>1. PICK i \in 1..Len(q) : q[i] = s
      BY <2>2, <1>3
    <3>2. i > k
      BY <3>1, <2>2, <1>3
    <3>3. i - k \in 1..Len(free') /\ free'[i - k] = s
      BY <3>1, <3>2, <1>5, <1>3
    <3> QED
      BY <3>3 DEF Items
  <2> QED
    BY <2>1, <2>2
<1>8. /\ \A i \in 1..k : q[i] \in 1..p /\ heap[q[i]].kind = "free"
      /\ \A i, j \in 1..k : q[i] = q[j] => i = j
  BY <1>3
<1> QED
  BY <1>2, <1>5, <1>6, <1>7, <1>8 DEF q, p

\* A step that takes k objects and frees none leaves the list exact.
LEMMA FreeListStep ==
    ASSUME TypeOK, FreeListExact, NEW k \in {1, 2}, Obtain(k),
           \A s \in Slot : heap'[s].kind = "free" <=>
               heap[s].kind = "free" /\ s \notin {Supply(k)[i] : i \in 1..k}
    PROVE  /\ FreeListExact'
           /\ pool' \in InitPool..MaxPool
           /\ free' \in Seq(1..pool')
<1>1. /\ pool' \in InitPool..MaxPool /\ pool <= pool'
      /\ \A i \in 1..k : Supply(k)[i] \in 1..pool'
      /\ free' \in Seq(1..pool')
      /\ \A i, j \in 1..Len(free') : free'[i] = free'[j] => i = j
      /\ Items(free') = {s \in 1..pool' : heap[s].kind = "free"}
                            \ {Supply(k)[i] : i \in 1..k}
  BY ObtainLemma
<1>2. pool \in Nat /\ pool' \in Nat /\ pool' <= MaxPool /\ MaxPool \in Nat
  BY <1>1, PoolAssumption DEF TypeOK
<1>3. 1..pool' \subseteq Slot
  BY <1>2 DEF Slot
<1>4. Items(free') = {s \in 1..pool' : heap'[s].kind = "free"}
  BY <1>1, <1>3
<1>5. ASSUME NEW s \in Slot, s > pool'
      PROVE  heap'[s].kind = "free"
  <2>1. s > pool
    BY <1>1, <1>2, <1>5 DEF Slot
  <2>2. s \notin {Supply(k)[i] : i \in 1..k}
    BY <1>1, <1>2, <1>5 DEF Slot
  <2>3. heap[s].kind = "free"
    BY <2>1 DEF FreeListExact
  <2> QED
    BY <2>2, <2>3
<1>6. Items(free)' = Items(free')
  BY DEF Items
<1> QED
  BY <1>1, <1>4, <1>5, <1>6 DEF FreeListExact

\* Records and pointers of the heap have their types.
LEMMA CellType ==
    /\ Nil \in [Field -> Slot \cup {Null}]
    /\ \A ref \in [Field -> Slot \cup {Null}], s \in Slot \cup {Null}, f \in Field :
          With(ref, f, s) \in [Field -> Slot \cup {Null}]
    /\ \A kind \in Kind, ref \in [Field -> Slot \cup {Null}] : Cell(kind, ref) \in Object
BY DEF Nil, With, Cell, Object

\* Naming an object changes one pointer of one object, and no kind.
NamedIn(h, put, s) ==
    /\ put \in [Slot -> Object]
    /\ \A t \in Slot : /\ put[t].kind = h[t].kind
                       /\ \A f \in Field : put[t].ref[f] = h[t].ref[f] \/ put[t].ref[f] = s
                       /\ put[t].ref["locals"] = h[t].ref["locals"]
                       /\ put[t].ref["parent"] = h[t].ref["parent"]

\* A slot put under a name is one of those named in the heap.
LEMMA PutLemma ==
    ASSUME NEW h \in [Slot -> Object], NEW o, NEW name \in Name, NEW s \in Slot \cup {Null}
    PROVE  NamedIn(h, Put(h, o, name, s), s)
<1> DEFINE put == Put(h, o, name, s)
<1>1. name \in Field /\ name \notin {"block", "parent", "locals", "args"}
      /\ {"block", "parent", "locals", "args"} \subseteq Field
  BY NameAssumption DEF Field
<1>2. \A t \in Slot : t # o => put[t] = h[t]
  BY DEF Put
<1>3. ASSUME o \in Slot
      PROVE  /\ put[o] = [kind |-> h[o].kind, ref |-> [h[o].ref EXCEPT ![name] = s]]
             /\ put[o] \in Object
  <2>1. h[o] \in Object
    BY <1>3
  <2>2. put[o] = [h[o] EXCEPT !.ref = [h[o].ref EXCEPT ![name] = s]]
    BY <1>3 DEF Put
  <2>3. put[o] = [kind |-> h[o].kind, ref |-> [h[o].ref EXCEPT ![name] = s]]
    BY <2>1, <2>2 DEF Object
  <2>4. [h[o].ref EXCEPT ![name] = s] \in [Field -> Slot \cup {Null}]
    BY <2>1, <1>1 DEF Object
  <2> QED
    BY <2>1, <2>3, <2>4 DEF Object
<1>4. put \in [Slot -> Object]
  <2>1. put = [t \in Slot |-> put[t]]
    BY DEF Put
  <2>2. \A t \in Slot : put[t] \in Object
    BY <1>2, <1>3
  <2> QED
    BY <2>1, <2>2
<1>5. ASSUME NEW t \in Slot
      PROVE  /\ put[t].kind = h[t].kind
             /\ \A f \in Field : put[t].ref[f] = h[t].ref[f] \/ put[t].ref[f] = s
             /\ \A f \in Field \ {name} : put[t].ref[f] = h[t].ref[f]
  <2>1. CASE t = o
    <3>1. h[o].ref \in [Field -> Slot \cup {Null}]
      BY <2>1 DEF Object
    <3> QED
      BY <2>1, <1>3, <3>1, <1>1
  <2>2. CASE t # o
    BY <2>2, <1>2
  <2> QED
    BY <2>1, <2>2
<1> QED
  BY <1>1, <1>4, <1>5 DEF NamedIn

-----------------------------------------------------------------------------
(* Steps that change what objects hold, and no activation.                 *)

\* An object in use keeps its kind and its local variables; a new one has none.
HeapGrows ==
    /\ heap' \in [Slot -> Object]
    /\ \A s \in Slot : heap[s].kind # "free" =>
          heap'[s].kind = heap[s].kind /\ heap'[s].ref["locals"] = heap[s].ref["locals"]
    /\ \A s \in Slot : heap[s].kind = "free" /\ heap'[s].kind # "free" =>
          heap'[s].ref["locals"] = Null

\* Every activation has a frame in gStackFrames.
LEMMA ActivationFacts ==
    ASSUME TypeOK, Shape
    PROVE  /\ Len(acts) \in Nat /\ Len(gStackFrames) \in Nat
           /\ \A i \in 1..Len(acts) :
                 /\ acts[i] \in Activation
                 /\ acts[i].running \in Slot \cup {Null}
                 /\ acts[i].current \in Slot
                 /\ acts[i].depth \in 1..Len(gStackFrames)
                 /\ gStackFrames[acts[i].depth] \in Slot
<1>1. acts \in Seq(Activation) /\ gStackFrames \in Seq(Slot)
  BY DEF TypeOK
<1>2. Len(acts) \in Nat /\ Len(gStackFrames) \in Nat
  BY <1>1
<1>3. ASSUME NEW i \in 1..Len(acts)
      PROVE  /\ acts[i] \in Activation
             /\ acts[i].running \in Slot \cup {Null}
             /\ acts[i].current \in Slot
             /\ acts[i].depth \in 1..Len(gStackFrames)
             /\ gStackFrames[acts[i].depth] \in Slot
  <2>1. acts[i] \in Activation /\ acts[Len(acts)] \in Activation /\ Len(acts) >= 1
    BY <1>1, <1>2
  <2>2. /\ acts[i].running \in Slot \cup {Null} /\ acts[i].current \in Slot
        /\ acts[i].depth \in Nat /\ acts[Len(acts)].depth \in Nat
    BY <2>1 DEF Activation
  <2>3. Len(gStackFrames) = acts[Len(acts)].depth
    BY <2>1, <1>1 DEF Shape, Last
  <2>4. acts[i].depth >= 1 /\ acts[i].depth <= acts[Len(acts)].depth
    <3>1. CASE i = Len(acts)
      BY <3>1, <2>2 DEF Shape
    <3>2. CASE i < Len(acts)
      BY <3>2, <2>1, <1>2 DEF Shape
    <3> QED
      BY <3>1, <3>2, <1>2
  <2>5. acts[i].depth \in 1..Len(gStackFrames)
    BY <2>2, <2>3, <2>4
  <2> QED
    BY <2>1, <2>2, <2>5, <1>1
<1> QED
  BY <1>2, <1>3

\* A heap that only grows keeps what is said of it.
LEMMA HeapStep ==
    ASSUME IInv, HeapGrows, UNCHANGED runVars, pc = "body", pc' = "body"
    PROVE  Shape' /\ RootsLive' /\ LocalsOwned' /\ SavedLocals' /\ FramesKept' /\ MarkedClosed'
<1> USE DEF IInv
<1>1. acts' = acts /\ gStackFrames' = gStackFrames /\ gRunningObjects' = gRunningObjects
  BY DEF runVars
<1>2. /\ gStackFrames \in Seq(Slot) /\ gRunningObjects \in Seq(Slot \cup {Null})
      /\ acts \in Seq(Activation)
  BY DEF TypeOK
<1>3. Shape'
  BY <1>1 DEF Shape, Last, Framed
<1>4. RootsLive'
  <2>1. Root \in Slot
    BY PoolAssumption DEF Root, Slot, TypeOK
  <2>2. \A i \in 1..Len(gStackFrames) : gStackFrames[i] \in Slot
    BY <1>2
  <2>3. \A i \in 1..Len(gRunningObjects) : gRunningObjects[i] # Null => gRunningObjects[i] \in Slot
    BY <1>2
  <2>4. \A i \in 1..Len(acts) : acts[i].running # Null => acts[i].running \in Slot
    BY ActivationFacts
  <2>5. \A i \in 1..Len(acts) : acts[i].running # Null => IsFun(heap'[acts[i].running])
    BY <2>4 DEF RootsLive, HeapGrows, IsFun
  <2> QED
    BY <1>1, <2>1, <2>2, <2>3, <2>5 DEF RootsLive, HeapGrows
<1>5. LocalsOwned'
  BY <1>1 DEF LocalsOwned, HeapGrows
<1>6. SavedLocals'
  BY <1>1 DEF SavedLocals
<1>7. FramesKept'
  <2> SUFFICES ASSUME NEW i \in 1..Len(acts)
               PROVE  /\ heap'[gStackFrames[acts[i].depth]].kind = "object"
                      /\ acts[i].what = "fun" =>
                           /\ IsFun(heap'[acts[i].running])
                           /\ (\A j \in i+1..Len(acts) :
                                  acts[j].what = "fun" => acts[j].running # acts[i].running)
                              => heap'[acts[i].running].ref["locals"]
                                   = gStackFrames[acts[i].depth]
    BY <1>1 DEF FramesKept
  <2>2. gStackFrames[acts[i].depth] \in Slot /\ acts[i].running \in Slot \cup {Null}
        /\ acts[i].depth \in 1..Len(gStackFrames)
    BY ActivationFacts
  <2>3. acts[i].what = "fun" => acts[i].running \in Slot /\ IsFun(heap[acts[i].running])
    BY <2>2 DEF RootsLive
  <2> QED
    BY <2>2, <2>3 DEF FramesKept, HeapGrows, IsFun
<1>8. MarkedClosed'
  BY DEF MarkedClosed
<1> QED
  BY <1>3, <1>4, <1>5, <1>6, <1>7, <1>8

\* What any statement of the program keeps, given what it does to the heap.
PointersLive == \A s \in Slot : heap'[s].kind # "free" =>
                    \A f \in Field \ {"args"} :
                        heap'[s].ref[f] # Null => Fits(heap'[s], f, heap'[heap'[s].ref[f]])

\* And so does the command that made it grow.
LEMMA CommandStep ==
    ASSUME IInv, HeapGrows, PointersLive, UNCHANGED <<runVars, gcVars>>,
           pc = "body", pc' = "body", left' \in 0..MaxStatements,
           gObjectsInPipe' \in Seq(Slot), FreeListExact',
           pool' \in InitPool..MaxPool, free' \in Seq(1..pool')
    PROVE  IInv'
<1>1. Shape' /\ RootsLive' /\ LocalsOwned' /\ SavedLocals' /\ FramesKept' /\ MarkedClosed'
  BY HeapStep
<1>2. TypeOK'
  BY DEF IInv, TypeOK, HeapGrows, runVars, gcVars
<1>3. NamesLive'
  BY DEF NamesLive, PointersLive
<1> QED
  BY <1>1, <1>2, <1>3 DEF IInv

\* The heap made is the heap with objects in the free slots new.
Adds(made, new) ==
    /\ made \in [Slot -> Object]
    /\ new \in SUBSET Slot
    /\ \A t \in Slot \ new : made[t] = heap[t]
    /\ \A t \in new : /\ heap[t].kind = "free" /\ made[t].kind # "free"
                       /\ made[t].ref["locals"] = Null
                       /\ \A f \in Field \ {"args"} :
                             made[t].ref[f] # Null => Fits(made[t], f, made[made[t].ref[f]])

\* A name is put, if at all, for an object in use, or for none.
Names(made) ==
    \/ heap' = made
    \/ \E o : \E name \in Name, s \in Slot \cup {Null} :
          (s # Null => made[s].kind # "free") /\ heap' = Put(made, o, name, s)

\* New objects, and a name for one of them or for another object in use.
LEMMA PutStep ==
    ASSUME IInv, pc = "body", NEW made, NEW new, Adds(made, new), Names(made)
    PROVE  /\ HeapGrows /\ PointersLive
           /\ \A t \in Slot : heap'[t].kind = "free" <=> heap[t].kind = "free" /\ t \notin new
<1>1. PICK s \in Slot \cup {Null} : (s # Null => made[s].kind # "free") /\ NamedIn(made, heap', s)
  <2>1. made \in [Slot -> Object]
    BY DEF Adds
  <2>2. CASE heap' = made
    BY <2>1, <2>2 DEF NamedIn
  <2>3. ASSUME NEW o, NEW name \in Name, NEW s \in Slot \cup {Null},
               s # Null => made[s].kind # "free", heap' = Put(made, o, name, s)
        PROVE  (s # Null => made[s].kind # "free") /\ NamedIn(made, heap', s)
    <3>1. NamedIn(made, Put(made, o, name, s), s)
      BY <2>1, PutLemma
    <3> QED
      BY <2>3, <3>1
  <2> QED
    BY <2>2, <2>3 DEF Names
<1>2. heap \in [Slot -> Object] /\ NamesLive
  BY DEF IInv, TypeOK
<1>3. HeapGrows
  BY <1>1 DEF HeapGrows, Adds, NamedIn
<1>4. PointersLive
  <2> SUFFICES ASSUME NEW t \in Slot, heap'[t].kind # "free", NEW f \in Field \ {"args"},
                      heap'[t].ref[f] # Null
               PROVE  Fits(heap'[t], f, heap'[heap'[t].ref[f]])
    BY DEF PointersLive
  <2>1. CASE heap'[t].ref[f] = s /\ f # "parent"
    BY <2>1, <1>1 DEF Adds, NamedIn, Fits
  <2>2. CASE heap'[t].ref[f] = made[t].ref[f]
    <3>1. made[t].ref[f] \in Slot
      BY <2>2 DEF Object, Adds
    <3>2. CASE t \in new
      <4>1. Fits(made[t], f, made[made[t].ref[f]])
        BY <3>1, <3>2, <2>2 DEF Adds
      <4> QED
        BY <4>1, <3>1, <2>2, <1>1 DEF NamedIn, Fits, IsFun
    <3>3. CASE t \notin new
      <4>1. made[t] = heap[t] /\ heap[t].kind # "free"
        BY <3>3, <1>1 DEF Adds, NamedIn
      <4>2. Fits(heap[t], f, heap[heap[t].ref[f]])
        BY <4>1, <2>2, <1>2 DEF NamesLive
      <4>3. heap[t].ref[f] \in Slot /\ heap'[t].ref[f] = heap[t].ref[f]
        BY <4>1, <3>1, <2>2
      <4>4. \A u \in Slot : heap[u].kind # "free" => heap'[u].kind = heap[u].kind
        BY <1>1 DEF Adds, NamedIn
      <4> QED
        BY <4>1, <4>2, <4>3, <4>4 DEF Fits, IsFun
    <3> QED
      BY <3>2, <3>3
  <2> QED
    BY <2>1, <2>2, <1>1 DEF NamedIn
<1>5. \A t \in Slot : heap'[t].kind = "free" <=> heap[t].kind = "free" /\ t \notin new
  BY <1>1 DEF Adds, NamedIn
<1> QED
  BY <1>3, <1>4, <1>5

\* What every statement finds.
LEMMA StatementLeft ==
    ASSUME TypeOK, Statement
    PROVE  left' \in 0..MaxStatements /\ pc = "body" /\ heap[Current].kind = "object"
BY BoundAssumption DEF TypeOK, Statement, MayRun

\* A statement that names an object, or unnames one, without making any.
LEMMA PlainStatement ==
    ASSUME IInv, Statement, UNCHANGED <<pool, free, runVars, gcVars, pc>>,
           gObjectsInPipe' \in Seq(Slot),
           Names(heap)
    PROVE  IInv'
<1>1. TypeOK /\ FreeListExact
  BY DEF IInv
<1>2. left' \in 0..MaxStatements /\ pc = "body" /\ pc' = "body"
  BY <1>1, StatementLeft
<1>3. Adds(heap, {})
  BY <1>1 DEF Adds, TypeOK
<1>4. /\ HeapGrows /\ PointersLive
      /\ \A t \in Slot : heap'[t].kind = "free" <=> heap[t].kind = "free" /\ t \notin {}
  BY <1>2, <1>3, PutStep
<1>5. pool' \in InitPool..MaxPool /\ free' \in Seq(1..pool') /\ pool' = pool /\ free' = free
  BY <1>1 DEF TypeOK
<1>6. FreeListExact'
  <2>1. 1..pool \subseteq Slot
    BY <1>1, PoolAssumption DEF TypeOK, Slot
  <2> QED
    BY <1>1, <1>4, <1>5, <2>1 DEF FreeListExact, Items
<1> QED
  BY <1>2, <1>4, <1>5, <1>6, CommandStep

\* A statement that makes objects and may name one.
Taken(k) == {Supply(k)[i] : i \in 1..k}

\* The slots obtained were free, and two of them are two.
LEMMA TakenFree ==
    ASSUME TypeOK, FreeListExact, NEW k \in {1, 2}, Obtain(k)
    PROVE  /\ pool' \in InitPool..MaxPool
           /\ Taken(k) \in SUBSET Slot
           /\ \A t \in Taken(k) : heap[t].kind = "free"
           /\ \A i \in 1..k : Supply(k)[i] \in Slot /\ heap[Supply(k)[i]].kind = "free"
           /\ k = 2 => Supply(k)[1] # Supply(k)[2]
<1>1. /\ pool' \in InitPool..MaxPool
      /\ \A i \in 1..k : Supply(k)[i] \in 1..pool' /\ heap[Supply(k)[i]].kind = "free"
      /\ \A i, j \in 1..k : Supply(k)[i] = Supply(k)[j] => i = j
  BY ObtainLemma
<1>2. 1..pool' \subseteq Slot
  BY <1>1, PoolAssumption DEF Slot
<1>3. k = 2 => Supply(k)[1] # Supply(k)[2]
  <2>1. ASSUME k = 2 PROVE Supply(k)[1] # Supply(k)[2]
    <3>1. 1 \in 1..k /\ 2 \in 1..k /\ 1 # 2
      BY <2>1
    <3> QED
      BY <3>1, <1>1
  <2> QED
    BY <2>1
<1>4. \A t \in Taken(k) : t \in Slot /\ heap[t].kind = "free"
  <2> SUFFICES ASSUME NEW i \in 1..k
               PROVE  Supply(k)[i] \in Slot /\ heap[Supply(k)[i]].kind = "free"
    BY DEF Taken
  <2> QED
    BY <1>1, <1>2
<1> QED
  BY <1>1, <1>2, <1>3, <1>4

\* A statement that makes objects.
LEMMA MakingStatement ==
    ASSUME IInv, Statement, NEW k \in {1, 2}, Obtain(k), UNCHANGED <<runVars, gcVars, pc>>,
           gObjectsInPipe' \in Seq(Slot),
           NEW made, Adds(made, Taken(k)), Names(made)
    PROVE  IInv'
<1>1. TypeOK /\ FreeListExact
  BY DEF IInv
<1>2. left' \in 0..MaxStatements /\ pc = "body" /\ pc' = "body"
  BY <1>1, StatementLeft
<1>3. /\ HeapGrows /\ PointersLive
      /\ \A t \in Slot : heap'[t].kind = "free" <=> heap[t].kind = "free" /\ t \notin Taken(k)
  BY <1>2, PutStep
<1>4. FreeListExact' /\ pool' \in InitPool..MaxPool /\ free' \in Seq(1..pool')
  BY <1>1, <1>3, FreeListStep DEF Taken
<1> QED
  BY <1>2, <1>3, <1>4, CommandStep

\* The heap with one new object of no pointers.
LEMMA AddsOne ==
    ASSUME TypeOK, FreeListExact, Obtain(1), NEW kind \in Kind \ {"free"}
    PROVE  /\ Adds([heap EXCEPT ![Supply(1)[1]] = Cell(kind, Nil)], Taken(1))
           /\ Supply(1)[1] \in Slot
           /\ [heap EXCEPT ![Supply(1)[1]] = Cell(kind, Nil)][Supply(1)[1]].kind = kind
<1> DEFINE new  == Supply(1)[1]
           made == [heap EXCEPT ![new] = Cell(kind, Nil)]
<1>1. new \in Slot /\ heap[new].kind = "free"
  BY TakenFree
<1>2. Taken(1) = {new}
  BY DEF Taken
<1> HIDE DEF new
<1>3. /\ made \in [Slot -> Object]
      /\ made[new].kind = kind /\ made[new].ref = Nil
      /\ \A t \in Slot \ {new} : made[t] = heap[t]
  BY <1>1, CellType DEF TypeOK, Cell
<1>4. "locals" \in Field /\ \A f \in Field : Nil[f] = Null
  BY DEF Field, Nil
<1>5. Adds(made, {new})
  <2> HIDE DEF made
  <2> QED
    BY <1>1, <1>3, <1>4 DEF Adds
<1> QED
  BY <1>1, <1>2, <1>3, <1>5 DEF new

\* A name given to a value.
LEMMA VarStep ==
    ASSUME IInv, NEW name \in Name, NEW o, Var(name, o)
    PROVE  IInv'
<1> DEFINE new  == Supply(1)[1]
           made == [heap EXCEPT ![new] = Cell("string", Nil)]
<1>1. TypeOK /\ FreeListExact /\ Obtain(1) /\ Statement
      /\ UNCHANGED <<runVars, gcVars, pc>> /\ gObjectsInPipe' \in Seq(Slot)
  BY DEF IInv, Var, TypeOK
<1>2. Adds(made, Taken(1)) /\ new \in Slot /\ made[new].kind = "string"
  BY <1>1, AddsOne DEF Kind
<1>3. heap' = Put(made, o, name, new)
  BY DEF Var
<1> HIDE DEF made, new
<1>4. Names(made)
  BY <1>2, <1>3 DEF Names
<1> QED
  BY <1>1, <1>2, <1>4, MakingStatement

\* A name given to a new object.
LEMMA VarNewStep ==
    ASSUME IInv, VarNew
    PROVE  IInv'
<1> DEFINE new  == Supply(1)[1]
           made == [heap EXCEPT ![new] = Cell("string", Nil)]
<1>1. TypeOK /\ FreeListExact /\ Obtain(1) /\ Statement
      /\ UNCHANGED <<runVars, gcVars, pc>>
  BY DEF IInv, VarNew
<1>2. Adds(made, Taken(1)) /\ new \in Slot /\ made[new].kind = "string"
  BY <1>1, AddsOne DEF Kind
<1>3. heap' = made /\ gObjectsInPipe' = Append(gObjectsInPipe, new)
  BY DEF VarNew
<1> HIDE DEF made, new
<1>4. gObjectsInPipe' \in Seq(Slot)
  BY <1>1, <1>2, <1>3 DEF TypeOK
<1>5. Names(made)
  BY <1>3 DEF Names
<1> QED
  BY <1>1, <1>2, <1>4, <1>5, MakingStatement

\* A reference to an object of another.
LEMMA RefOutStep ==
    ASSUME IInv, NEW name, RefOut(name)
    PROVE  IInv'
<1>1. Statement /\ UNCHANGED <<pool, free, runVars, gcVars, pc>> /\ heap' = heap
  BY DEF RefOut, memVars
<1>2. gObjectsInPipe' \in Seq(Slot)
  <2>1. gObjectsInPipe \in Seq(Slot) /\ Access(name) \in Slot
    BY DEF IInv, TypeOK, RefOut
  <2>2. gObjectsInPipe' = Append(gObjectsInPipe, Access(name))
    BY DEF RefOut
  <2> QED
    BY <2>1, <2>2
<1> QED
  BY <1>1, <1>2, PlainStatement DEF Names

\* A reference from an object of another.
LEMMA RefInStep ==
    ASSUME IInv, NEW s \in Slot, NEW name \in Name, NEW o, RefIn(s, name, o)
    PROVE  IInv'
<1>1. /\ Statement /\ UNCHANGED <<pool, free, runVars, gcVars, pc>>
      /\ heap' = Put(heap, o, name, s) /\ heap[s].kind # "free"
      /\ gObjectsInPipe' \in Seq(Slot)
  BY DEF RefIn, Valid, IInv, TypeOK
<1>2. Names(heap)
  BY <1>1 DEF Names
<1> QED
  BY <1>1, <1>2, PlainStatement

\* A name taken away.
LEMMA EraseStep ==
    ASSUME IInv, NEW name \in Name, Erase(name)
    PROVE  IInv'
<1>1. /\ Statement /\ UNCHANGED <<pool, free, runVars, gcVars, pc>>
      /\ heap' = Put(heap, Current, name, Null)
      /\ gObjectsInPipe' \in Seq(Slot)
  BY DEF Erase, IInv, TypeOK
<1>2. Names(heap)
  BY <1>1 DEF Names
<1> QED
  BY <1>1, <1>2, PlainStatement

\* def: the function refers to its block and, with -inherit, to the function
\* that had its name.
LEMMA DefStep ==
    ASSUME IInv, NEW name \in Name, NEW o, NEW kind \in {"fun", "copyfun"},
           NEW inherit \in BOOLEAN, Def(name, o, kind, inherit)
    PROVE  IInv'
<1> DEFINE fun   == Supply(2)[1]
           block == Supply(2)[2]
           under == IF inherit THEN heap[o].ref[name] ELSE Null
           made  == [heap EXCEPT
                       ![fun]   = Cell(kind, With(With(Nil, "block", block), "parent", under)),
                       ![block] = Cell("block", Nil)]
<1>1. /\ TypeOK /\ FreeListExact /\ NamesLive /\ Obtain(2) /\ Statement /\ pc = "body"
      /\ UNCHANGED <<runVars, gcVars, pc>> /\ gObjectsInPipe' \in Seq(Slot)
  BY DEF IInv, Def, TypeOK, Statement, MayRun
<1>2. heap' = Put(made, o, name, fun)
  BY DEF Def
<1>3. /\ fun \in Slot /\ block \in Slot /\ fun # block
      /\ heap[fun].kind = "free" /\ heap[block].kind = "free"
      /\ Taken(2) = {fun, block}
  <2>1. Taken(2) = {Supply(2)[1], Supply(2)[2]}
    BY DEF Taken
  <2> QED
    BY <1>1, <2>1, TakenFree
<1>4. under \in Slot \cup {Null} /\ (under # Null => IsFun(heap[under]))
  BY DEF Def
<1> HIDE DEF fun, block, under
<1>5. {"block", "parent", "locals", "args"} \subseteq Field /\ \A f \in Field : Nil[f] = Null
  BY DEF Field, Nil
<1> DEFINE refs == With(With(Nil, "block", block), "parent", under)
<1>7. /\ refs \in [Field -> Slot \cup {Null}]
      /\ refs["block"] = block /\ refs["parent"] = under
      /\ \A f \in Field \ {"block", "parent"} : refs[f] = Null
  <2>1. Nil \in [Field -> Slot \cup {Null}]
    BY CellType
  <2>2. refs = [[Nil EXCEPT !["block"] = block] EXCEPT !["parent"] = under]
    BY DEF With
  <2> HIDE DEF refs
  <2> QED
    BY <2>1, <2>2, <1>3, <1>4, <1>5
<1> HIDE DEF refs
<1>8. /\ made \in [Slot -> Object]
      /\ made[fun] = [kind |-> kind, ref |-> refs]
      /\ made[block] = [kind |-> "block", ref |-> Nil]
      /\ \A t \in Slot \ {fun, block} : made[t] = heap[t]
  <2>1. Cell(kind, refs) \in Object /\ Cell("block", Nil) \in Object
    BY <1>7, CellType DEF Kind
  <2>2. made = [heap EXCEPT ![fun] = Cell(kind, refs), ![block] = Cell("block", Nil)]
    BY DEF refs
  <2>3. heap \in [Slot -> Object]
    BY <1>1 DEF TypeOK
  <2>4. Cell(kind, refs) = [kind |-> kind, ref |-> refs]
        /\ Cell("block", Nil) = [kind |-> "block", ref |-> Nil]
    BY DEF Cell
  <2> HIDE DEF made
  <2> QED
    BY <2>1, <2>2, <2>3, <2>4, <1>3
<1> HIDE DEF made
<1>9. made[under].kind = heap[under].kind \/ under = Null
  <2>1. under # Null => under \notin {fun, block}
    BY <1>3, <1>4 DEF IsFun
  <2> QED
    BY <2>1, <1>4, <1>8
<1>10. Adds(made, {fun, block})
  <2>1. ASSUME NEW f \in Field \ {"args"}, refs[f] # Null
        PROVE  Fits(made[fun], f, made[refs[f]])
    BY <2>1, <1>4, <1>7, <1>8, <1>9 DEF Fits, IsFun
  <2>2. refs["locals"] = Null /\ Nil["locals"] = Null /\ kind # "free"
    BY <1>5, <1>7
  <2> QED
    BY <2>1, <2>2, <1>3, <1>5, <1>8 DEF Adds
<1>11. Names(made)
  <2>1. made[fun].kind # "free" /\ fun \in Slot \cup {Null}
    BY <1>3, <1>8
  <2> QED
    BY <2>1, <1>2 DEF Names
<1> QED
  BY <1>1, <1>3, <1>10, <1>11, MakingStatement

-----------------------------------------------------------------------------
(* Steps of the collector, which change no activation.                     *)

\* Nothing but where the collector stands changes.
LEMMA QuietStep ==
    ASSUME IInv, UNCHANGED <<memVars, gStackFrames, gRunningObjects, acts>>,
           pc # "ready", pc' # "ready"
    PROVE  Shape' /\ RootsLive' /\ LocalsOwned' /\ SavedLocals' /\ FramesKept' /\ FreeListExact'
<1>1. /\ acts' = acts /\ gStackFrames' = gStackFrames /\ gRunningObjects' = gRunningObjects
      /\ heap' = heap /\ free' = free /\ pool' = pool
  BY DEF memVars
<1>2. Shape'
  BY <1>1 DEF IInv, Shape, Last, Framed
<1>3. RootsLive' /\ LocalsOwned' /\ SavedLocals' /\ FramesKept'
  BY <1>1 DEF IInv, RootsLive, LocalsOwned, SavedLocals, FramesKept
<1>4. FreeListExact'
  BY <1>1 DEF IInv, FreeListExact, Items
<1> QED
  BY <1>2, <1>3, <1>4

\* What marking begins with are slots.
LEMMA RootsAreSlots ==
    ASSUME TypeOK, NEW pipe \in Seq(Slot)
    PROVE  Roots(pipe) \in SUBSET Slot
<1>1. Root \in Slot
  BY PoolAssumption DEF Root, Slot, TypeOK
<1>2. Items(gStackFrames) \subseteq Slot /\ Items(pipe) \subseteq Slot
      /\ Items(gRunningObjects) \subseteq Slot \cup {Null}
  BY DEF Items, TypeOK
<1> QED
  BY <1>1, <1>2 DEF Roots

\* The start of a sweep.
LEMMA StartMarkStep ==
    ASSUME IInv, UNCHANGED <<memVars, gStackFrames, gRunningObjects, acts>>, pc = "body",
           n' \in 0..SweepPeriod - 1, left' \in 0..MaxStatements,
           gObjectsInPipe' \in Seq(Slot),
           NEW then \in {"body", "pop"}, StartMark(gObjectsInPipe', then)
    PROVE  IInv'
<1>1. TypeOK /\ NamesLive /\ pc' = "mark"
  BY DEF IInv, StartMark
<1>2. Shape' /\ RootsLive' /\ LocalsOwned' /\ SavedLocals' /\ FramesKept' /\ FreeListExact'
  BY <1>1, QuietStep
<1>3. marked' = Roots(gObjectsInPipe') /\ grey' = marked' /\ marked' \in SUBSET Slot
  BY <1>1, RootsAreSlots DEF StartMark
<1>4. TypeOK'
  BY <1>1, <1>3 DEF TypeOK, memVars, StartMark
<1>5. NamesLive'
  BY <1>1 DEF NamesLive, memVars
<1>6. MarkedClosed'
  <2>1. Roots(gObjectsInPipe)' = Roots(gObjectsInPipe')
    BY DEF Roots, Items
  <2> QED
    BY <1>1, <1>3, <2>1 DEF MarkedClosed
<1> QED
  BY <1>2, <1>4, <1>5, <1>6 DEF IInv

\* sweep begins.
LEMMA SweepCommandStep ==
    ASSUME IInv, SweepCommand
    PROVE  IInv'
<1>1. TypeOK /\ Statement
  BY DEF IInv, SweepCommand
<1>2. /\ UNCHANGED <<memVars, gStackFrames, gRunningObjects, acts>> /\ pc = "body"
      /\ n' \in 0..SweepPeriod - 1 /\ left' \in 0..MaxStatements
      /\ gObjectsInPipe' \in Seq(Slot) /\ StartMark(gObjectsInPipe', "body")
  BY <1>1, StatementLeft DEF SweepCommand, runVars, TypeOK
<1> QED
  BY <1>2, StartMarkStep

\* A run ends.
LEMMA RunEndsStep ==
    ASSUME IInv, RunEnds
    PROVE  IInv'
<1>1. TypeOK /\ NamesLive /\ pc = "body"
  BY DEF IInv, RunEnds
<1>2. UNCHANGED <<memVars, gStackFrames, gRunningObjects, acts>> /\ left' \in 0..MaxStatements
  BY <1>1 DEF RunEnds, TypeOK
<1>3. n' \in 0..SweepPeriod - 1
  BY <1>1, PeriodAssumption DEF RunEnds, TypeOK
<1>4. gObjectsInPipe' \in Seq(Slot)
  BY <1>1 DEF RunEnds, TypeOK
<1>5. CASE n = 0
  <2>1. StartMark(gObjectsInPipe', "pop")
    BY <1>5 DEF RunEnds
  <2> QED
    BY <1>1, <1>2, <1>3, <1>4, <2>1, StartMarkStep
<1>6. CASE n # 0
  <2>1. pc' = "pop" /\ UNCHANGED gcVars
    BY <1>6 DEF RunEnds
  <2>2. Shape' /\ RootsLive' /\ LocalsOwned' /\ SavedLocals' /\ FramesKept' /\ FreeListExact'
    BY <1>1, <1>2, <2>1, QuietStep
  <2>3. TypeOK'
    BY <1>1, <1>2, <1>3, <1>4, <2>1 DEF TypeOK, memVars, gcVars
  <2>4. NamesLive' /\ MarkedClosed'
    BY <1>1, <1>2, <2>1 DEF NamesLive, MarkedClosed, memVars
  <2> QED
    BY <2>2, <2>3, <2>4 DEF IInv
<1> QED
  BY <1>5, <1>6

\* A statement on an object that was swept changes nothing else.
LEMMA CrashStep ==
    ASSUME IInv, Crash
    PROVE  IInv'
<1>1. TypeOK /\ NamesLive /\ pc = "body" /\ pc' = "dead"
      /\ UNCHANGED <<memVars, gStackFrames, gRunningObjects, acts>>
  BY DEF IInv, Crash, runVars
<1>2. Shape' /\ RootsLive' /\ LocalsOwned' /\ SavedLocals' /\ FramesKept' /\ FreeListExact'
  BY <1>1, QuietStep
<1>3. TypeOK'
  BY <1>1 DEF TypeOK, Crash, memVars, gcVars, runVars
<1>4. NamesLive' /\ MarkedClosed'
  BY <1>1 DEF NamesLive, MarkedClosed, memVars
<1> QED
  BY <1>2, <1>3, <1>4 DEF IInv

\* What a slot refers to is slots.
LEMMA PointersAreSlots ==
    ASSUME TypeOK, NEW s \in Slot
    PROVE  Pointers(heap[s]) \in SUBSET Slot
BY DEF Pointers, TypeOK, Object

\* Marking.
LEMMA MarkStep ==
    ASSUME IInv, Mark
    PROVE  IInv'
<1> DEFINE children == UNION {Pointers(heap[s]) : s \in grey}
<1>1. TypeOK /\ NamesLive /\ MarkedClosed /\ pc = "mark"
      /\ UNCHANGED <<memVars, gStackFrames, gRunningObjects, acts, gObjectsInPipe, resume, left, n>>
  BY DEF IInv, Mark, runVars
<1>2. /\ marked' = marked \cup children
      /\ grey' = children \ marked
      /\ pc' = IF children \subseteq marked THEN "sweep" ELSE "mark"
  BY DEF Mark
<1>3. Shape' /\ RootsLive' /\ LocalsOwned' /\ SavedLocals' /\ FramesKept' /\ FreeListExact'
  BY <1>1, <1>2, QuietStep
<1>4. children \in SUBSET Slot
  <2>1. grey \subseteq Slot
    BY <1>1 DEF TypeOK
  <2> QED
    BY <1>1, <2>1, PointersAreSlots
<1>5. \A s \in grey : Pointers(heap[s]) \subseteq children
  OBVIOUS
<1> HIDE DEF children
<1>6. TypeOK'
  BY <1>1, <1>2, <1>4 DEF TypeOK, memVars
<1>7. NamesLive'
  BY <1>1 DEF NamesLive, memVars
<1>8. MarkedClosed'
  <2>1. Roots(gObjectsInPipe)' = Roots(gObjectsInPipe)
    BY <1>1 DEF Roots, Items
  <2>2. Roots(gObjectsInPipe) \subseteq marked
        /\ \A s \in marked \ grey : Pointers(heap[s]) \subseteq marked
    BY <1>1 DEF MarkedClosed
  <2>3. ASSUME NEW s \in marked' \ grey'
        PROVE  Pointers(heap'[s]) \subseteq marked'
    <3>1. s \in marked /\ heap'[s] = heap[s]
      BY <1>1, <1>2 DEF memVars
    <3>2. CASE s \in grey
      BY <3>1, <3>2, <1>2, <1>5
    <3>3. CASE s \notin grey
      BY <3>1, <3>3, <1>2, <2>2
    <3> QED
      BY <3>2, <3>3
  <2>4. pc' = "sweep" => grey' = {}
    BY <1>2
  <2>5. \A s \in marked' \ grey' : Pointers(heap[s])' \subseteq marked'
    BY <2>3 DEF Pointers
  <2> QED
    BY <1>2, <2>1, <2>2, <2>4, <2>5 DEF MarkedClosed
<1> QED
  BY <1>3, <1>6, <1>7, <1>8 DEF IInv

\* When the sweep ends, what is in use was marked: names are live again.
LEMMA SweepEndsStep ==
    ASSUME IInv, SweepEnds
    PROVE  IInv'
<1>1. TypeOK /\ FreeListExact /\ NamesLive /\ pc = "sweep" /\ pc' \in {"body", "pop"}
      /\ UNCHANGED <<memVars, gStackFrames, gRunningObjects, acts>> /\ marked' = {}
  BY DEF IInv, SweepEnds, runVars, TypeOK
<1>2. Shape' /\ RootsLive' /\ LocalsOwned' /\ SavedLocals' /\ FramesKept' /\ FreeListExact'
  BY <1>1, QuietStep
<1>3. grey = {}
  BY <1>1 DEF IInv, MarkedClosed
<1>4. TypeOK'
  BY <1>1, <1>3 DEF TypeOK, memVars, runVars, SweepEnds
<1>5. NamesLive'
  <2>1. \A s \in Slot : heap[s].kind # "free" => s \in marked
    <3> SUFFICES ASSUME NEW s \in Slot, heap[s].kind # "free", s \notin marked PROVE FALSE
      OBVIOUS
    <3>1. ~(s > pool)
      BY <1>1 DEF FreeListExact
    <3>2. s \in 1..pool
      BY <3>1, <1>1, PoolAssumption DEF Slot, TypeOK
    <3> QED
      BY <3>2 DEF SweepEnds, Garbage
  <2> QED
    BY <2>1, <1>1 DEF NamesLive, memVars
<1>6. MarkedClosed'
  BY <1>1 DEF MarkedClosed
<1> QED
  BY <1>2, <1>4, <1>5, <1>6 DEF IInv

\* A slot put back at the head of the list.
LEMMA PushFree ==
    ASSUME NEW S, NEW f \in Seq(S), NEW s \in S
    PROVE  /\ <<s>> \o f \in Seq(S) /\ Len(<<s>> \o f) = Len(f) + 1
           /\ (<<s>> \o f)[1] = s
           /\ \A i \in 1..Len(f) : (<<s>> \o f)[i + 1] = f[i]
<1>1. <<s>> \in Seq(S) /\ Len(<<s>>) = 1 /\ <<s>>[1] = s /\ Len(f) \in Nat
  OBVIOUS
<1>2. /\ <<s>> \o f \in Seq(S)
      /\ Len(<<s>> \o f) = 1 + Len(f)
      /\ \A i \in 1..1 + Len(f) :
            (<<s>> \o f)[i] = IF i <= 1 THEN <<s>>[i] ELSE f[i - 1]
  BY <1>1, ConcatProperties
<1>3. 1 \in 1..1 + Len(f)
  BY <1>1
<1>4. ASSUME NEW i \in 1..Len(f) PROVE (<<s>> \o f)[i + 1] = f[i]
  <2>1. i + 1 \in 1..1 + Len(f) /\ ~(i + 1 <= 1) /\ (i + 1) - 1 = i
    BY <1>1
  <2> QED
    BY <2>1, <1>2
<1> QED
  BY <1>1, <1>2, <1>3, <1>4

\* sweep() clears one slot that is not marked, so no root, and nothing that a
\* marked object refers to.
LEMMA SweepStep ==
    ASSUME IInv, Sweep
    PROVE  IInv'
<1>1. /\ TypeOK /\ FreeListExact /\ Shape /\ RootsLive /\ LocalsOwned /\ SavedLocals
      /\ FramesKept /\ NamesLive /\ MarkedClosed /\ pc = "sweep"
      /\ UNCHANGED <<left, pool, gcVars, pc, runVars, gObjectsInPipe>>
  BY DEF IInv, Sweep
<1>2. PICK s \in Garbage : heap' = [heap EXCEPT ![s] = Free] /\ free' = <<s>> \o free
  BY DEF Sweep, Pushed
<1>3. /\ s \in 1..pool /\ s \in Slot /\ heap[s].kind # "free" /\ s \notin marked
      /\ pool \in Nat
  BY <1>1, PoolAssumption DEF Garbage, TypeOK, Slot
<1>4. /\ heap' \in [Slot -> Object] /\ heap'[s].kind = "free"
      /\ \A t \in Slot : t # s => heap'[t] = heap[t]
  <2>1. Free \in Object /\ Free.kind = "free"
    BY CellType DEF Free, Cell, Kind, Object
  <2> QED
    BY <1>1, <1>2, <1>3, <2>1 DEF TypeOK
<1>5. /\ gStackFrames' = gStackFrames /\ gRunningObjects' = gRunningObjects /\ acts' = acts
      /\ gObjectsInPipe' = gObjectsInPipe /\ pc' = pc /\ marked' = marked /\ grey' = grey
      /\ pool' = pool
  BY <1>1 DEF runVars, gcVars
<1>6. /\ Roots(gObjectsInPipe) \subseteq marked /\ grey = {}
      /\ \A t \in marked : Pointers(heap[t]) \subseteq marked
  BY <1>1 DEF MarkedClosed
<1>7. /\ Root # s
      /\ \A i \in 1..Len(gStackFrames) : gStackFrames[i] # s
      /\ \A i \in 1..Len(gRunningObjects) : gRunningObjects[i] # s
  <2>1. s \notin Roots(gObjectsInPipe) /\ s # Null
    BY <1>3, <1>6 DEF Slot, Null
  <2> QED
    BY <2>1 DEF Roots, Items
<1>8. \A i \in 1..Len(acts) : acts[i].running # s
  <2> SUFFICES ASSUME NEW i \in 1..Len(acts) PROVE acts[i].running # s
    OBVIOUS
  <2>1. 2 * i - 1 \in 1..Len(gRunningObjects) /\ gRunningObjects[2 * i - 1] = acts[i].running
    BY <1>1, ActivationFacts DEF Shape
  <2> QED
    BY <2>1, <1>7
<1>9. FreeListExact' /\ free' \in Seq(1..pool')
  <2>1. /\ free' \in Seq(1..pool) /\ Len(free') = Len(free) + 1 /\ free'[1] = s
        /\ \A i \in 1..Len(free) : free'[i + 1] = free[i]
        /\ Len(free) \in Nat /\ free \in Seq(1..pool)
    BY <1>1, <1>2, <1>3, PushFree DEF TypeOK
  <2>2. s \notin Items(free)
    BY <1>1, <1>3 DEF FreeListExact
  <2>3. \A i \in 1..Len(free') : i = 1 \/ (i - 1 \in 1..Len(free) /\ free'[i] = free[i - 1])
    <3> SUFFICES ASSUME NEW i \in 1..Len(free'), i # 1
                 PROVE  i - 1 \in 1..Len(free) /\ free'[i] = free[i - 1]
      OBVIOUS
    <3>1. i - 1 \in 1..Len(free) /\ (i - 1) + 1 = i
      BY <2>1
    <3> QED
      BY <3>1, <2>1
  <2>4. ASSUME NEW i \in 1..Len(free'), NEW j \in 1..Len(free'), free'[i] = free'[j]
        PROVE  i = j
    <3>1. \A k \in 1..Len(free) : free[k] # s
      BY <2>2 DEF Items
    <3>2. CASE i = 1
      BY <3>1, <3>2, <2>1, <2>3, <2>4
    <3>3. CASE j = 1
      BY <3>1, <3>3, <2>1, <2>3, <2>4
    <3>4. CASE i # 1 /\ j # 1
      <4>1. i - 1 \in 1..Len(free) /\ j - 1 \in 1..Len(free) /\ free[i - 1] = free[j - 1]
        BY <3>4, <2>3, <2>4
      <4>2. i - 1 = j - 1
        BY <4>1, <1>1 DEF FreeListExact
      <4> QED
        BY <4>2, <2>1
    <3> QED
      BY <3>2, <3>3, <3>4
  <2>5. Items(free') = Items(free) \cup {s}
    <3>1. ASSUME NEW t \in Items(free') PROVE t \in Items(free) \cup {s}
      <4>1. PICK i \in 1..Len(free') : free'[i] = t
        BY DEF Items
      <4>2. CASE i = 1
        BY <4>1, <4>2, <2>1
      <4>3. CASE i # 1
        <5>1. i - 1 \in 1..Len(free) /\ free[i - 1] = t
          BY <4>1, <4>3, <2>3
        <5> QED
          BY <5>1 DEF Items
      <4> QED
        BY <4>2, <4>3
    <3>2. ASSUME NEW t \in Items(free) PROVE t \in Items(free')
      <4>1. PICK i \in 1..Len(free) : free[i] = t
        BY DEF Items
      <4>2. i + 1 \in 1..Len(free') /\ free'[i + 1] = t
        BY <4>1, <2>1
      <4> QED
        BY <4>2 DEF Items
    <3>3. s \in Items(free')
      <4>1. 1 \in 1..Len(free')
        BY <2>1
      <4> QED
        BY <4>1, <2>1 DEF Items
    <3> QED
      BY <3>1, <3>2, <3>3
  <2>6. 1..pool \subseteq Slot
    BY <1>1, PoolAssumption DEF TypeOK, Slot
  <2>7. Items(free)' = Items(free')
    BY DEF Items
  <2>8. Items(free') = {t \in 1..pool : heap'[t].kind = "free"}
    BY <1>1, <1>3, <1>4, <2>5, <2>6 DEF FreeListExact
  <2>9. \A t \in Slot : t > pool => heap'[t].kind = "free"
    BY <1>1, <1>4 DEF FreeListExact
  <2> QED
    BY <1>5, <2>1, <2>4, <2>7, <2>8, <2>9 DEF FreeListExact
<1>10. TypeOK'
  BY <1>1, <1>4, <1>9 DEF TypeOK, runVars, gcVars
<1>11. Shape'
  BY <1>1, <1>5 DEF Shape, Last, Framed
<1>12. Root \in Slot
  BY <1>1, PoolAssumption DEF Root, Slot, TypeOK
<1>13. RootsLive'
  <2>1. /\ \A i \in 1..Len(gStackFrames) : gStackFrames[i] \in Slot
        /\ \A i \in 1..Len(gRunningObjects) :
              gRunningObjects[i] # Null => gRunningObjects[i] \in Slot
    BY <1>1 DEF TypeOK
  <2>2. \A i \in 1..Len(acts) : acts[i].running # Null => acts[i].running \in Slot
    BY <1>1, ActivationFacts
  <2> QED
    BY <1>1, <1>4, <1>5, <1>7, <1>8, <1>12, <2>1, <2>2 DEF RootsLive, IsFun
<1>14. LocalsOwned'
  BY <1>1, <1>4, <1>5 DEF LocalsOwned
<1>15. SavedLocals'
  BY <1>1, <1>5 DEF SavedLocals
<1>16. FramesKept'
  <2>1. \A i \in 1..Len(acts) : /\ gStackFrames[acts[i].depth] \in Slot
                                /\ gStackFrames[acts[i].depth] # s
                                /\ acts[i].running \in Slot \cup {Null}
    BY <1>1, <1>7, ActivationFacts
  <2>2. \A i \in 1..Len(acts) :
           acts[i].what = "fun" => heap'[acts[i].running] = heap[acts[i].running]
    BY <1>1, <1>4, <1>8, <2>1 DEF RootsLive
  <2> QED
    BY <1>1, <1>4, <1>5, <2>1, <2>2 DEF FramesKept
<1>17. NamesLive'
  <2> SUFFICES ASSUME NEW t \in Slot, t \in marked, heap'[t].kind # "free",
                      NEW f \in Field \ {"args"}, heap'[t].ref[f] # Null
               PROVE  Fits(heap'[t], f, heap'[heap'[t].ref[f]])
    BY <1>1, <1>5 DEF NamesLive
  <2>1. heap'[t] = heap[t]
    BY <1>3, <1>4
  <2>2. heap[t].ref[f] \in marked /\ heap[t].ref[f] \in Slot
    BY <1>1, <1>6, <2>1, PointersAreSlots DEF Pointers
  <2>3. Fits(heap[t], f, heap[heap[t].ref[f]])
    BY <1>1, <2>1 DEF NamesLive
  <2> QED
    BY <1>3, <1>4, <2>1, <2>2, <2>3
<1>18. MarkedClosed'
  <2>1. Roots(gObjectsInPipe)' = Roots(gObjectsInPipe)
    BY <1>5 DEF Roots, Items
  <2>2. \A t \in marked : heap'[t] = heap[t]
    BY <1>1, <1>3, <1>4 DEF TypeOK
  <2>3. \A t \in marked : Pointers(heap[t])' = Pointers(heap[t])
    BY <2>2 DEF Pointers
  <2> QED
    BY <1>1, <1>5, <1>6, <2>1, <2>3 DEF MarkedClosed
<1> QED
  BY <1>9, <1>10, <1>11, <1>13, <1>14, <1>15, <1>16, <1>17, <1>18 DEF IInv

-----------------------------------------------------------------------------
(* Activations that begin.                                                 *)

\* An activation a begins: the frame it may push, the local variables of the
\* function it may be, the two entries of gRunningObjects.
Enters(a, block) ==
    /\ a \in Activation /\ block \in Slot \cup {Null}
    /\ acts' = Append(acts, a)
    /\ gRunningObjects' = gRunningObjects \o <<a.running, block>>
    /\ pc' = "body"
    /\ Framed(a) => \E frame \in Slot : /\ gStackFrames' = Append(gStackFrames, frame)
                                        /\ heap'[frame].kind = "object"
    /\ ~Framed(a) => gStackFrames' = gStackFrames
    /\ a.depth = Len(gStackFrames')
    /\ a.what = "load" <=> acts = <<>>
    /\ a.running # Null => IsFun(heap'[a.running])
    /\ block # Null => heap'[block].kind # "free"
    /\ a.what = "fun" => /\ a.running # Null /\ heap[a.running].kind # "free"
                         /\ a.locals = heap[a.running].ref["locals"]
    /\ heap' \in [Slot -> Object]
    /\ \A s \in Slot : heap[s].kind # "free" => heap'[s].kind = heap[s].kind
    /\ \A s \in Slot : heap'[s].kind # "free" =>
          \/ /\ a.what = "fun" /\ s = a.running
             /\ heap'[s].ref["locals"] = gStackFrames'[a.depth]
          \/ /\ ~(a.what = "fun" /\ s = a.running)
             /\ heap'[s].ref["locals"] =
                   IF heap[s].kind = "free" THEN Null ELSE heap[s].ref["locals"]

\* A sequence with two elements more.
LEMMA ConcatTwo ==
    ASSUME NEW S, NEW f \in Seq(S), NEW x \in S, NEW y \in S
    PROVE  /\ f \o <<x, y>> \in Seq(S) /\ Len(f \o <<x, y>>) = Len(f) + 2
           /\ \A i \in 1..Len(f) : (f \o <<x, y>>)[i] = f[i]
           /\ (f \o <<x, y>>)[Len(f) + 1] = x
           /\ (f \o <<x, y>>)[Len(f) + 2] = y
<1> DEFINE two == <<x, y>>
<1>1. two \in Seq(S) /\ Len(two) = 2 /\ two[1] = x /\ two[2] = y /\ Len(f) \in Nat
  OBVIOUS
<1> HIDE DEF two
<1>2. /\ f \o two \in Seq(S)
      /\ Len(f \o two) = Len(f) + Len(two)
      /\ \A i \in 1..Len(f) + Len(two) :
            (f \o two)[i] = IF i <= Len(f) THEN f[i] ELSE two[i - Len(f)]
  BY <1>1, ConcatProperties
<1>3. Len(f) + 1 \in 1..Len(f) + Len(two) /\ Len(f) + 2 \in 1..Len(f) + Len(two)
      /\ (Len(f) + 1) - Len(f) = 1 /\ (Len(f) + 2) - Len(f) = 2
      /\ ~(Len(f) + 1 <= Len(f)) /\ ~(Len(f) + 2 <= Len(f))
  BY <1>1
<1>4. (f \o two)[Len(f) + 1] = x /\ (f \o two)[Len(f) + 2] = y
  BY <1>1, <1>2, <1>3
<1>5. \A i \in 1..Len(f) : (f \o two)[i] = f[i]
  BY <1>1, <1>2
<1> QED
  BY <1>1, <1>2, <1>4, <1>5 DEF two

\* What the sequences are after it, position by position.
LEMMA EnterFacts ==
    ASSUME TypeOK, Shape, NEW a, NEW block, Enters(a, block)
    PROVE  /\ Len(acts') = Len(acts) + 1 /\ acts'[Len(acts) + 1] = a
           /\ acts' # <<>> /\ Last(acts') = a
           /\ \A i \in 1..Len(acts) : acts'[i] = acts[i]
           /\ Len(gRunningObjects') = Len(gRunningObjects) + 2
           /\ \A i \in 1..Len(gRunningObjects) : gRunningObjects'[i] = gRunningObjects[i]
           /\ gRunningObjects'[Len(gRunningObjects) + 1] = a.running
           /\ gRunningObjects'[Len(gRunningObjects) + 2] = block
           /\ Len(gStackFrames') = Len(gStackFrames) + (IF Framed(a) THEN 1 ELSE 0)
           /\ \A i \in 1..Len(gStackFrames) : gStackFrames'[i] = gStackFrames[i]
           /\ acts' \in Seq(Activation) /\ gStackFrames' \in Seq(Slot)
           /\ gRunningObjects' \in Seq(Slot \cup {Null})
<1>1. /\ acts \in Seq(Activation) /\ gStackFrames \in Seq(Slot)
      /\ gRunningObjects \in Seq(Slot \cup {Null}) /\ a \in Activation
      /\ a.running \in Slot \cup {Null} /\ block \in Slot \cup {Null}
  BY DEF TypeOK, Enters, Activation
<1>2. /\ Len(acts') = Len(acts) + 1 /\ acts'[Len(acts) + 1] = a /\ Len(acts) \in Nat
      /\ acts' # <<>> /\ acts' \in Seq(Activation)
      /\ \A i \in 1..Len(acts) : acts'[i] = acts[i]
  <2>1. acts' = Append(acts, a)
    BY DEF Enters
  <2>2. /\ acts' \in Seq(Activation) /\ Len(acts') = Len(acts) + 1
        /\ \A i \in 1..Len(acts) : acts'[i] = acts[i]
        /\ acts'[Len(acts) + 1] = a
    BY <1>1, <2>1, AppendProperties
  <2>3. Len(acts') # 0
    BY <1>1, <2>2
  <2> QED
    BY <1>1, <2>2, <2>3
<1>3. /\ Len(gRunningObjects') = Len(gRunningObjects) + 2
      /\ \A i \in 1..Len(gRunningObjects) : gRunningObjects'[i] = gRunningObjects[i]
      /\ gRunningObjects'[Len(gRunningObjects) + 1] = a.running
      /\ gRunningObjects'[Len(gRunningObjects) + 2] = block
      /\ gRunningObjects' \in Seq(Slot \cup {Null})
  <2>1. gRunningObjects' = gRunningObjects \o <<a.running, block>>
    BY DEF Enters
  <2> QED
    BY <1>1, <2>1, ConcatTwo
<1>4. /\ Len(gStackFrames') = Len(gStackFrames) + (IF Framed(a) THEN 1 ELSE 0)
      /\ \A i \in 1..Len(gStackFrames) : gStackFrames'[i] = gStackFrames[i]
      /\ gStackFrames' \in Seq(Slot)
  <2>1. CASE Framed(a)
    <3>1. PICK frame \in Slot : gStackFrames' = Append(gStackFrames, frame)
      BY <2>1 DEF Enters
    <3> QED
      BY <1>1, <2>1, <3>1, AppendProperties
  <2>2. CASE ~Framed(a)
    BY <1>1, <2>2 DEF Enters
  <2> QED
    BY <2>1, <2>2
<1>5. Last(acts') = a
  BY <1>2 DEF Last
<1> QED
  BY <1>2, <1>3, <1>4, <1>5

\* What is kept when a block or a function is entered.
LEMMA EnterStep ==
    ASSUME IInv, pc \in {"ready", "body"}, NEW a, NEW block, Enters(a, block)
    PROVE  Shape' /\ RootsLive' /\ LocalsOwned' /\ SavedLocals' /\ FramesKept'
<1>1. TypeOK /\ Shape /\ RootsLive /\ LocalsOwned /\ SavedLocals /\ FramesKept
  BY DEF IInv
<1> DEFINE m == Len(acts)
           d == Len(gStackFrames)
           r == Len(gRunningObjects)
<1>2. /\ Len(acts') = m + 1 /\ acts'[m + 1] = a /\ acts' # <<>> /\ Last(acts') = a
      /\ \A i \in 1..m : acts'[i] = acts[i]
      /\ Len(gRunningObjects') = r + 2
      /\ \A i \in 1..r : gRunningObjects'[i] = gRunningObjects[i]
      /\ gRunningObjects'[r + 1] = a.running /\ gRunningObjects'[r + 2] = block
      /\ Len(gStackFrames') = d + (IF Framed(a) THEN 1 ELSE 0)
      /\ \A i \in 1..d : gStackFrames'[i] = gStackFrames[i]
      /\ acts' \in Seq(Activation) /\ gStackFrames' \in Seq(Slot)
  BY <1>1, EnterFacts
<1>3. /\ m \in Nat /\ d \in Nat /\ r = 2 * m
      /\ \A i \in 1..m : /\ acts[i].depth \in 1..d /\ acts[i].running \in Slot \cup {Null}
                         /\ gStackFrames[acts[i].depth] \in Slot
  BY <1>1, ActivationFacts DEF Shape
<1>4. /\ a.what = "load" <=> m = 0
      /\ a.depth = d + (IF Framed(a) THEN 1 ELSE 0) /\ a.depth >= 1
      /\ m = 0 => d = 0 /\ Framed(a)
      /\ m > 0 => d = acts[m].depth
  <2>1. acts = <<>> <=> m = 0
    BY <1>1 DEF TypeOK
  <2>2. a.what = "load" <=> m = 0
    BY <2>1 DEF Enters
  <2>3. a.depth = d + (IF Framed(a) THEN 1 ELSE 0)
    BY <1>2 DEF Enters
  <2>4. m = 0 => d = 0 /\ Framed(a)
    BY <1>1, <2>1, <2>2 DEF Shape, Framed
  <2>5. m > 0 => d = acts[m].depth
    BY <1>1, <2>1, <1>3 DEF Shape, Last
  <2>6. m > 0 => d >= 1
    BY <1>3
  <2>7. a.depth >= 1
    BY <2>3, <2>4, <2>6, <1>3
  <2> QED
    BY <2>2, <2>3, <2>4, <2>5, <2>7
<1>5. \A i \in 1..m + 1 : i \in 1..m \/ i = m + 1
  BY <1>3
<1>6. /\ heap' \in [Slot -> Object]
      /\ \A s \in Slot : heap[s].kind # "free" => heap'[s].kind = heap[s].kind
  BY DEF Enters
<1>7. Shape'
  <2>1. pc' # "ready" /\ acts' # <<>>
    BY <1>2 DEF Enters
  <2>2. Len(gRunningObjects') = 2 * Len(acts')
    BY <1>2, <1>3
  <2>3. Len(gStackFrames') = Last(acts').depth
    BY <1>2 DEF Enters
  <2>4. \A i \in 1..Len(acts') :
          /\ gRunningObjects'[2 * i - 1] = acts'[i].running
          /\ acts'[i].depth >= 1
          /\ i > 1 => acts'[i].depth = acts'[i - 1].depth + (IF Framed(acts'[i]) THEN 1 ELSE 0)
          /\ acts'[i].what = "load" <=> i = 1
          /\ i = 1 => acts'[i].depth = 1
    <3> SUFFICES ASSUME NEW i \in 1..m + 1
                 PROVE
          /\ gRunningObjects'[2 * i - 1] = acts'[i].running
          /\ acts'[i].depth >= 1
          /\ i > 1 => acts'[i].depth = acts'[i - 1].depth + (IF Framed(acts'[i]) THEN 1 ELSE 0)
          /\ acts'[i].what = "load" <=> i = 1
          /\ i = 1 => acts'[i].depth = 1
      BY <1>2
    <3>1. CASE i \in 1..m
      <4>1. 2 * i - 1 \in 1..r /\ acts'[i] = acts[i] /\ (i > 1 => i - 1 \in 1..m)
        BY <3>1, <1>2, <1>3
      <4>2. i > 1 => acts'[i - 1] = acts[i - 1]
        BY <4>1, <1>2
      <4>3. /\ gRunningObjects[2 * i - 1] = acts[i].running
            /\ acts[i].depth >= 1
            /\ i > 1 => acts[i].depth = acts[i - 1].depth + (IF Framed(acts[i]) THEN 1 ELSE 0)
            /\ acts[i].what = "load" <=> i = 1
            /\ i = 1 => acts[i].depth = 1
        BY <3>1, <1>1 DEF Shape
      <4>4. gRunningObjects'[2 * i - 1] = gRunningObjects[2 * i - 1]
        BY <4>1, <1>2
      <4> QED
        BY <4>1, <4>2, <4>3, <4>4
    <3>2. CASE i = m + 1
      <4>1. 2 * i - 1 = r + 1 /\ acts'[i] = a /\ (i > 1 <=> m > 0) /\ i - 1 = m
        BY <3>2, <1>2, <1>3
      <4>2. m > 0 => acts'[m] = acts[m]
        BY <1>2, <1>3
      <4>3. gRunningObjects'[2 * i - 1] = acts'[i].running
        BY <4>1, <1>2
      <4>4. i > 1 => acts'[i].depth = acts'[i - 1].depth + (IF Framed(acts'[i]) THEN 1 ELSE 0)
        BY <4>1, <4>2, <1>4
      <4>5. (acts'[i].what = "load" <=> i = 1) /\ (i = 1 => acts'[i].depth = 1)
        BY <4>1, <3>2, <1>3, <1>4
      <4> QED
        BY <4>1, <4>3, <4>4, <4>5, <1>4
    <3> QED
      BY <3>1, <3>2, <1>5
  <2>5. \A i, j \in 1..Len(acts') : i < j =>
          /\ acts'[i].depth <= acts'[j].depth
          /\ Framed(acts'[j]) => acts'[i].depth < acts'[j].depth
    <3> SUFFICES ASSUME NEW i \in 1..m + 1, NEW j \in 1..m + 1, i < j
                 PROVE  /\ acts'[i].depth <= acts'[j].depth
                        /\ Framed(acts'[j]) => acts'[i].depth < acts'[j].depth
      BY <1>2
    <3>1. i \in 1..m /\ acts'[i] = acts[i]
      BY <1>2, <1>3
    <3>2. CASE j \in 1..m
      BY <3>1, <3>2, <1>1, <1>2 DEF Shape
    <3>3. CASE j = m + 1
      BY <3>1, <3>3, <1>2, <1>3, <1>4
    <3> QED
      BY <3>2, <3>3, <1>5
  <2>6. Len(gStackFrames') = IF acts' = <<>> THEN 0 ELSE Last(acts').depth
    BY <2>1, <2>3
  <2> HIDE DEF m, d, r
  <2> QED
    BY <2>1, <2>2, <2>4, <2>5, <2>6 DEF Shape, Last, Framed
<1>8. RootsLive'
  <2>1. heap'[Root].kind = "object"
    <3>1. Root \in Slot
      BY <1>1, PoolAssumption DEF Root, Slot, TypeOK
    <3> QED
      BY <3>1, <1>1, <1>6 DEF RootsLive
  <2>2. ASSUME NEW i \in 1..Len(gStackFrames')
        PROVE  heap'[gStackFrames'[i]].kind = "object"
    <3>1. CASE i \in 1..d
      <4>1. gStackFrames[i] \in Slot /\ heap[gStackFrames[i]].kind = "object"
        BY <3>1, <1>1 DEF RootsLive, TypeOK
      <4> QED
        BY <3>1, <4>1, <1>2, <1>6
    <3>2. CASE i \notin 1..d
      <4>1. Framed(a) /\ i = d + 1
        BY <3>2, <1>2, <1>3
      <4>2. PICK frame \in Slot : gStackFrames' = Append(gStackFrames, frame)
                                  /\ heap'[frame].kind = "object"
        BY <4>1 DEF Enters
      <4>3. gStackFrames'[i] = frame
        BY <4>1, <4>2, <1>1 DEF TypeOK
      <4> QED
        BY <4>2, <4>3
    <3> QED
      BY <3>1, <3>2
  <2>3. ASSUME NEW i \in 1..Len(gRunningObjects'), gRunningObjects'[i] # Null
        PROVE  heap'[gRunningObjects'[i]].kind # "free"
    <3> HIDE DEF r
    <3>1. CASE i \in 1..r
      <4> USE DEF r
      <4>1. gRunningObjects'[i] = gRunningObjects[i] /\ gRunningObjects[i] \in Slot \cup {Null}
        <5>1. gRunningObjects \in Seq(Slot \cup {Null})
          BY <1>1 DEF TypeOK
        <5>2. gRunningObjects[i] \in Slot \cup {Null}
          BY <5>1, <3>1, ElementOfSeq
        <5> QED
          BY <3>1, <5>2, <1>2
      <4>2. gRunningObjects[i] \in Slot /\ heap[gRunningObjects[i]].kind # "free"
        BY <2>3, <3>1, <4>1, <1>1 DEF RootsLive
      <4> QED
        BY <4>1, <4>2, <1>6
    <3>2. CASE i = r + 1
      BY <2>3, <3>2, <1>2 DEF Enters, IsFun
    <3>3. CASE i = r + 2
      BY <2>3, <3>3, <1>2 DEF Enters
    <3>4. i \in 1..r \/ i = r + 1 \/ i = r + 2
      <4>1. r \in Nat /\ i \in 1..r + 2
        BY <1>2, <1>3
      <4> QED
        BY <4>1
    <3> QED
      BY <3>1, <3>2, <3>3, <3>4
  <2>4. ASSUME NEW i \in 1..Len(acts')
        PROVE  /\ acts'[i].running # Null => IsFun(heap'[acts'[i].running])
               /\ acts'[i].what = "fun" => acts'[i].running # Null
    <3>1. CASE i \in 1..m
      <4>1. acts'[i] = acts[i] /\ acts[i].running \in Slot \cup {Null}
        BY <3>1, <1>2, <1>3
      <4>2. acts[i].running # Null => IsFun(heap[acts[i].running]) /\ acts[i].running \in Slot
        BY <3>1, <4>1, <1>1 DEF RootsLive
      <4>3. acts[i].what = "fun" => acts[i].running # Null
        BY <3>1, <1>1 DEF RootsLive
      <4>4. acts[i].running # Null => IsFun(heap'[acts[i].running])
        BY <4>2, <1>6 DEF IsFun
      <4> QED
        BY <4>1, <4>3, <4>4
    <3>2. CASE i = m + 1
      BY <3>2, <1>2 DEF Enters
    <3> QED
      BY <3>1, <3>2, <1>2, <1>5
  <2> HIDE DEF m, d, r
  <2> QED
    BY <2>1, <2>2, <2>3, <2>4 DEF RootsLive, IsFun
<1>9. ASSUME NEW i \in 1..m
      PROVE  /\ acts'[i] = acts[i] /\ i \in 1..Len(acts')
             /\ gStackFrames'[acts'[i].depth] = gStackFrames[acts[i].depth]
  BY <1>2, <1>3
<1>10. m + 1 \in 1..Len(acts') /\ acts'[m + 1] = a
  BY <1>2, <1>3
<1>11. LocalsOwned'
  <2> SUFFICES ASSUME NEW s \in Slot, heap'[s].kind # "free", heap'[s].ref["locals"] # Null
               PROVE  \E j \in 1..Len(acts') :
                         /\ acts'[j].what = "fun" /\ acts'[j].running = s
                         /\ heap'[s].ref["locals"] = gStackFrames'[acts'[j].depth]
    BY DEF LocalsOwned
  <2>1. CASE a.what = "fun" /\ s = a.running
    <3>1. heap'[s].ref["locals"] = gStackFrames'[a.depth]
      BY <2>1 DEF Enters
    <3> QED
      BY <2>1, <3>1, <1>10
  <2>2. CASE ~(a.what = "fun" /\ s = a.running)
    <3>1. heap[s].kind # "free" /\ heap'[s].ref["locals"] = heap[s].ref["locals"]
      BY <2>2 DEF Enters
    <3>2. PICK j \in 1..m : /\ acts[j].what = "fun" /\ acts[j].running = s
                            /\ heap[s].ref["locals"] = gStackFrames[acts[j].depth]
      BY <3>1, <1>1 DEF LocalsOwned
    <3> QED
      BY <3>1, <3>2, <1>9
  <2> QED
    BY <2>1, <2>2
<1>12. SavedLocals'
  <2> SUFFICES ASSUME NEW i \in 1..Len(acts'), acts'[i].what = "fun"
               PROVE
        /\ acts'[i].locals # Null =>
              \E j \in 1..i - 1 : /\ acts'[j].what = "fun"
                                  /\ acts'[j].running = acts'[i].running
                                  /\ acts'[i].locals = gStackFrames'[acts'[j].depth]
        /\ \A j \in 1..i - 1 :
              (/\ acts'[j].what = "fun" /\ acts'[j].running = acts'[i].running
               /\ \A k \in j+1..i-1 : acts'[k].what = "fun" => acts'[k].running # acts'[i].running)
              => acts'[i].locals = gStackFrames'[acts'[j].depth]
    BY DEF SavedLocals
  <2>1. \A k \in 1..i - 1 : k \in 1..m
    BY <1>2, <1>3
  <2>2. CASE i \in 1..m
    <3>1. acts'[i] = acts[i] /\ acts[i].what = "fun"
      BY <2>2, <1>9
    <3>2. acts[i].locals # Null =>
              \E j \in 1..i - 1 : /\ acts[j].what = "fun"
                                  /\ acts[j].running = acts[i].running
                                  /\ acts[i].locals = gStackFrames[acts[j].depth]
      BY <2>2, <3>1, <1>1 DEF SavedLocals
    <3>3. ASSUME NEW j \in 1..i - 1, acts[j].what = "fun", acts[j].running = acts[i].running,
                 \A k \in j+1..i-1 : acts[k].what = "fun" => acts[k].running # acts[i].running
          PROVE  acts[i].locals = gStackFrames[acts[j].depth]
      BY <2>2, <3>1, <3>3, <1>1 DEF SavedLocals
    <3>4. \A j \in 1..i - 1 : \A k \in j+1..i-1 : acts'[k] = acts[k]
      BY <2>1, <1>9
    <3> QED
      BY <3>1, <3>2, <3>3, <3>4, <2>1, <1>9
  <2>3. CASE i = m + 1
    <3>1. /\ acts'[i] = a /\ i - 1 = m /\ a.what = "fun"
          /\ a.running \in Slot /\ heap[a.running].kind # "free"
          /\ a.locals = heap[a.running].ref["locals"]
      BY <2>3, <1>2, <1>3 DEF Enters, Activation
    <3>2. ASSUME a.locals # Null
          PROVE  \E j \in 1..m : /\ acts'[j].what = "fun" /\ acts'[j].running = a.running
                                 /\ a.locals = gStackFrames'[acts'[j].depth]
      <4>1. PICK j \in 1..m : /\ acts[j].what = "fun" /\ acts[j].running = a.running
                              /\ a.locals = gStackFrames[acts[j].depth]
        BY <3>1, <3>2, <1>1 DEF LocalsOwned
      <4> QED
        BY <4>1, <1>9
    <3>3. ASSUME NEW j \in 1..m, acts'[j].what = "fun", acts'[j].running = a.running,
                 \A k \in j+1..m : acts'[k].what = "fun" => acts'[k].running # a.running
          PROVE  a.locals = gStackFrames'[acts'[j].depth]
      <4>1. \A k \in j+1..m : acts'[k] = acts[k]
        BY <1>2, <1>3
      <4>2. /\ acts[j].what = "fun" /\ acts[j].running = a.running
            /\ \A k \in j+1..m : acts[k].what = "fun" => acts[k].running # acts[j].running
        BY <3>3, <4>1, <1>9
      <4>3. heap[acts[j].running].ref["locals"] = gStackFrames[acts[j].depth]
        BY <4>2, <1>1 DEF FramesKept
      <4> QED
        BY <4>2, <4>3, <3>1, <1>9
    <3> QED
      BY <3>1, <3>2, <3>3
  <2> QED
    BY <2>2, <2>3, <1>2, <1>5
<1>13. FramesKept'
  <2> SUFFICES ASSUME NEW i \in 1..Len(acts')
               PROVE
        /\ heap'[gStackFrames'[acts'[i].depth]].kind = "object"
        /\ acts'[i].what = "fun" =>
             /\ IsFun(heap'[acts'[i].running])
             /\ (\A j \in i+1..Len(acts') :
                    acts'[j].what = "fun" => acts'[j].running # acts'[i].running)
                => heap'[acts'[i].running].ref["locals"] = gStackFrames'[acts'[i].depth]
    BY DEF FramesKept, IsFun
  <2>1. heap'[gStackFrames'[acts'[i].depth]].kind = "object"
    <3>1. acts'[i].depth \in 1..Len(gStackFrames')
      <4>1. CASE i \in 1..m
        BY <4>1, <1>2, <1>3
      <4>2. CASE i = m + 1
        BY <4>2, <1>2, <1>3, <1>4
      <4> QED
        BY <4>1, <4>2, <1>2, <1>5
    <3> QED
      BY <3>1, <1>8 DEF RootsLive
  <2>2. ASSUME acts'[i].what = "fun"
        PROVE  IsFun(heap'[acts'[i].running])
    BY <2>2, <1>8 DEF RootsLive, IsFun
  <2>3. ASSUME acts'[i].what = "fun",
               \A j \in i+1..Len(acts') :
                    acts'[j].what = "fun" => acts'[j].running # acts'[i].running
        PROVE  heap'[acts'[i].running].ref["locals"] = gStackFrames'[acts'[i].depth]
    <3>1. CASE i = m + 1
      <4>1. acts'[i] = a /\ a.what = "fun" /\ a.running \in Slot /\ IsFun(heap'[a.running])
        BY <2>3, <3>1, <1>2 DEF Enters, Activation
      <4> QED
        BY <4>1 DEF Enters, IsFun
    <3>2. CASE i \in 1..m
      <4>1. acts'[i] = acts[i] /\ acts[i].what = "fun"
            /\ gStackFrames'[acts'[i].depth] = gStackFrames[acts[i].depth]
        BY <2>3, <3>2, <1>9
      <4>2. ~(a.what = "fun" /\ acts[i].running = a.running)
        <5>1. m + 1 \in i+1..Len(acts')
          BY <3>2, <1>2, <1>3
        <5> QED
          BY <5>1, <4>1, <2>3, <1>10
      <4>3. \A j \in i+1..m : acts[j].what = "fun" => acts[j].running # acts[i].running
        <5>1. \A j \in i+1..m : j \in i+1..Len(acts') /\ acts'[j] = acts[j]
          BY <3>2, <1>2, <1>3
        <5> QED
          BY <5>1, <4>1, <2>3
      <4>4. heap[acts[i].running].ref["locals"] = gStackFrames[acts[i].depth]
        BY <4>1, <4>3, <3>2, <1>1 DEF FramesKept
      <4>5. acts[i].running \in Slot /\ IsFun(heap[acts[i].running])
        BY <3>2, <4>1, <1>1, <1>3 DEF RootsLive
      <4>6. heap'[acts[i].running].ref["locals"] = heap[acts[i].running].ref["locals"]
        BY <4>2, <4>5, <1>6 DEF Enters, IsFun
      <4> QED
        BY <4>1, <4>4, <4>6
    <3> QED
      BY <3>1, <3>2, <1>2, <1>5
  <2> QED
    BY <2>1, <2>2, <2>3
<1> QED
  BY <1>7, <1>8, <1>11, <1>12, <1>13

\* An activation that begins with k new objects keeps the invariant.
LEMMA EnteredStep ==
    ASSUME IInv, pc \in {"ready", "body"}, NEW a, NEW block, Enters(a, block),
           NEW k \in {1, 2}, Obtain(k), PointersLive,
           \A t \in Slot : heap'[t].kind = "free" <=> heap[t].kind = "free" /\ t \notin Taken(k),
           UNCHANGED <<n, gObjectsInPipe, gcVars>>, left' \in 0..MaxStatements
    PROVE  IInv'
<1>1. TypeOK /\ FreeListExact /\ Shape
  BY DEF IInv
<1>2. Shape' /\ RootsLive' /\ LocalsOwned' /\ SavedLocals' /\ FramesKept'
  BY EnterStep
<1>3. FreeListExact' /\ pool' \in InitPool..MaxPool /\ free' \in Seq(1..pool')
  BY <1>1, FreeListStep DEF Taken
<1>4. /\ acts' \in Seq(Activation) /\ gStackFrames' \in Seq(Slot)
      /\ gRunningObjects' \in Seq(Slot \cup {Null})
  BY <1>1, EnterFacts
<1>5. pc' = "body" /\ heap' \in [Slot -> Object]
  BY DEF Enters
<1>6. TypeOK'
  BY <1>1, <1>3, <1>4, <1>5 DEF TypeOK, gcVars
<1>7. NamesLive'
  BY DEF NamesLive, PointersLive
<1>8. MarkedClosed'
  BY <1>5 DEF MarkedClosed
<1> QED
  BY <1>2, <1>3, <1>6, <1>7, <1>8 DEF IInv

\* A command is read.
LEMMA ReadCommandStep ==
    ASSUME IInv, ReadCommand
    PROVE  IInv'
<1> DEFINE frame == Supply(1)[1]
           made  == [heap EXCEPT ![frame] = Cell("object", Nil)]
           a     == [what |-> "load", running |-> Null, current |-> Root, depth |-> 1,
                     locals |-> Null, args |-> Null]
<1>1. /\ TypeOK /\ FreeListExact /\ Shape /\ LocalsOwned /\ NamesLive /\ pc = "ready"
      /\ Obtain(1) /\ heap' = made /\ gStackFrames' = Append(gStackFrames, frame)
      /\ acts' = Append(acts, a) /\ gRunningObjects' = gRunningObjects \o <<Null, Null>>
      /\ pc' = "body" /\ UNCHANGED <<n, gObjectsInPipe, gcVars>>
  BY DEF IInv, ReadCommand, Enter
<1>2. left' \in 0..MaxStatements
  BY <1>1, BoundAssumption DEF TypeOK, ReadCommand
<1>3. /\ Adds(made, Taken(1)) /\ frame \in Slot /\ made[frame].kind = "object"
      /\ Taken(1) = {frame}
  <2>1. Taken(1) = {frame}
    BY DEF Taken
  <2>2. TypeOK /\ FreeListExact /\ Obtain(1) /\ "object" \in Kind \ {"free"}
    BY <1>1 DEF Kind
  <2>3. Adds(made, Taken(1)) /\ frame \in Slot /\ made[frame].kind = "object"
    BY <2>2, AddsOne
  <2> QED
    BY <2>1, <2>3
<1>4. acts = <<>> /\ gStackFrames \in Seq(Slot) /\ Len(gStackFrames) = 0
  BY <1>1 DEF Shape, TypeOK
<1>5. a \in Activation
  <2>1. Root \in Slot
    BY <1>1, PoolAssumption DEF Root, Slot, TypeOK
  <2> QED
    BY <2>1 DEF Activation
<1>6. a.what = "load" /\ a.running = Null /\ a.depth = 1
  OBVIOUS
<1> HIDE DEF made, frame, a
<1>7. /\ made \in [Slot -> Object]
      /\ \A t \in Slot \ {frame} : made[t] = heap[t]
      /\ heap[frame].kind = "free" /\ made[frame].ref["locals"] = Null
  BY <1>3 DEF Adds
<1>8. Len(gStackFrames') = 1
  BY <1>1, <1>3, <1>4
<1>9. Enters(a, Null)
  <2>1. \A s \in Slot : heap[s].kind # "free" => heap'[s].kind = heap[s].kind
    BY <1>1, <1>7
  <2>2. \A s \in Slot : heap'[s].kind # "free" =>
           heap'[s].ref["locals"] = IF heap[s].kind = "free" THEN Null ELSE heap[s].ref["locals"]
    BY <1>1, <1>7
  <2>3. Framed(a) /\ a.what # "fun"
    BY <1>6 DEF Framed
  <2> QED
    BY <1>1, <1>3, <1>4, <1>5, <1>6, <1>7, <1>8, <2>1, <2>2, <2>3 DEF Enters
<1>10. PointersLive
  <2> SUFFICES ASSUME NEW s \in Slot, heap'[s].kind # "free", NEW f \in Field \ {"args"},
                      heap'[s].ref[f] # Null
               PROVE  Fits(heap'[s], f, heap'[heap'[s].ref[f]])
    BY DEF PointersLive
  <2>1. CASE s = frame
    BY <2>1, <1>1, <1>3 DEF Adds
  <2>2. CASE s # frame
    <3>1. heap'[s] = heap[s]
      BY <2>2, <1>1, <1>7
    <3>2. Fits(heap[s], f, heap[heap[s].ref[f]]) /\ heap[s].ref[f] \in Slot
      BY <3>1, <1>1 DEF NamesLive, TypeOK, Object
    <3> QED
      BY <3>1, <3>2, <1>1, <1>7 DEF Fits
  <2> QED
    BY <2>1, <2>2
<1>11. \A t \in Slot : heap'[t].kind = "free" <=> heap[t].kind = "free" /\ t \notin Taken(1)
  BY <1>1, <1>3, <1>7
<1> QED
  BY <1>1, <1>2, <1>9, <1>10, <1>11, EnteredStep

\* The activation that runs.
LEMMA ThereIsALast ==
    ASSUME TypeOK, Shape, acts # <<>>
    PROVE  /\ Len(acts) \in 1..Len(acts) /\ Last(acts) = acts[Len(acts)]
           /\ Last(acts) \in Activation /\ Last(acts).running \in Slot \cup {Null}
           /\ Last(acts).current \in Slot /\ Last(acts).depth = Len(gStackFrames)
           /\ Len(gStackFrames) >= 1 /\ Len(gStackFrames) \in Nat
<1>1. Len(acts) \in 1..Len(acts) /\ Last(acts) = acts[Len(acts)]
  BY DEF TypeOK, Last
<1>2. Last(acts).depth = Len(gStackFrames)
  BY DEF Shape
<1> QED
  BY <1>1, <1>2, ActivationFacts

\* A call replaces two fields of the function.
LEMMA RunFunctionStep ==
    ASSUME IInv, Statement, NEW fun \in Slot, NEW current \in Slot, IsFun(heap[fun]),
           RunFunction(fun, current)
    PROVE  IInv'
<1> DEFINE frame == Supply(2)[1]
           args  == Supply(2)[2]
           names == IF heap[fun].kind = "copyfun" THEN heap[Last(gStackFrames)].ref ELSE Nil
           made  == [heap EXCEPT ![frame] = Cell("object", names),
                                 ![args] = Cell("vector", Nil)]
<1>1. /\ TypeOK /\ FreeListExact /\ Shape /\ RootsLive /\ LocalsOwned /\ NamesLive
      /\ Obtain(2) /\ UNCHANGED <<n, gObjectsInPipe, gcVars>>
  BY DEF IInv, RunFunction
<1>2. /\ left' \in 0..MaxStatements /\ pc = "body" /\ heap[Current].kind = "object"
      /\ acts # <<>>
  <2>1. left' \in 0..MaxStatements /\ pc = "body" /\ heap[Current].kind = "object"
    BY <1>1, StatementLeft
  <2> QED
    BY <1>1, <2>1 DEF Shape
<1>3. /\ frame \in Slot /\ args \in Slot /\ frame # args /\ fun # frame /\ fun # args
      /\ heap[frame].kind = "free" /\ heap[args].kind = "free"
      /\ Taken(2) = {frame, args}
  <2>1. Taken(2) = {Supply(2)[1], Supply(2)[2]}
    BY DEF Taken
  <2> QED
    BY <1>1, <2>1, TakenFree DEF IsFun
<1>4. {"block", "parent", "locals", "args"} \subseteq Field /\ \A f \in Field : Nil[f] = Null
  BY DEF Field, Nil
<1>5. /\ names \in [Field -> Slot \cup {Null}] /\ names["locals"] = Null
      /\ \A f \in Field \ {"args"} : names[f] # Null => heap[names[f]].kind # "free"
  <2>1. CASE heap[fun].kind # "copyfun"
    BY <2>1, <1>4, CellType
  <2>2. CASE heap[fun].kind = "copyfun"
    <3>1. Last(gStackFrames) \in Slot /\ heap[Last(gStackFrames)].kind = "object"
      <4>1. Len(gStackFrames) \in 1..Len(gStackFrames)
        <5>1. Len(acts) \in 1..Len(acts)
          BY <1>1, <1>2 DEF TypeOK
        <5>2. acts[Len(acts)].depth \in 1..Len(gStackFrames)
          BY <1>1, <5>1, ActivationFacts
        <5> QED
          BY <5>2, <1>1, ActivationFacts
      <4> QED
        BY <4>1, <1>1 DEF Last, RootsLive, TypeOK
    <3>2. names = heap[Last(gStackFrames)].ref
      BY <2>2
    <3> HIDE DEF names
    <3>3. names \in [Field -> Slot \cup {Null}]
      BY <3>1, <3>2, <1>1 DEF TypeOK, Object
    <3>4. names["locals"] = Null
      <4> SUFFICES ASSUME names["locals"] # Null PROVE FALSE
        OBVIOUS
      <4>1. PICK j \in 1..Len(acts) : acts[j].running = Last(gStackFrames)
        BY <3>1, <3>2, <1>1 DEF LocalsOwned
      <4>2. acts[j].running # Null
        BY <4>1, <3>1 DEF Slot, Null
      <4> QED
        BY <4>1, <4>2, <3>1, <1>1 DEF RootsLive, IsFun
    <3>5. \A f \in Field \ {"args"} : names[f] # Null => heap[names[f]].kind # "free"
      BY <3>1, <3>2, <1>1, <1>2 DEF NamesLive, Fits
    <3> QED
      BY <3>3, <3>4, <3>5
  <2> QED
    BY <2>1, <2>2
<1>6. /\ Len(acts) + 1 < MaxNest =>
            /\ heap' = [made EXCEPT ![fun].ref = With(With(@, "locals", frame), "args", args)]
            /\ gStackFrames' = Append(gStackFrames, frame)
            /\ Enter("fun", fun, heap[fun].ref["block"], current, Len(gStackFrames) + 1,
                         heap[fun].ref["locals"], heap[fun].ref["args"])
      /\ ~(Len(acts) + 1 < MaxNest) =>
            heap' = made /\ UNCHANGED <<gStackFrames, gRunningObjects, acts, pc>>
  BY DEF RunFunction
<1> HIDE DEF frame, args, names
<1>7. /\ made \in [Slot -> Object]
      /\ made[frame] = [kind |-> "object", ref |-> names]
      /\ made[args] = [kind |-> "vector", ref |-> Nil]
      /\ \A t \in Slot \ {frame, args} : made[t] = heap[t]
  <2>1. Cell("object", names) \in Object /\ Cell("vector", Nil) \in Object
    BY <1>5, CellType DEF Kind
  <2>2. made = [heap EXCEPT ![frame] = Cell("object", names), ![args] = Cell("vector", Nil)]
    OBVIOUS
  <2>3. heap \in [Slot -> Object]
    BY <1>1 DEF TypeOK
  <2>4. Cell("object", names) = [kind |-> "object", ref |-> names]
        /\ Cell("vector", Nil) = [kind |-> "vector", ref |-> Nil]
    BY DEF Cell
  <2> HIDE DEF made
  <2> QED
    BY <2>1, <2>2, <2>3, <2>4, <1>3
<1> HIDE DEF made
<1>8. Adds(made, {frame, args})
  <2>1. ASSUME NEW f \in Field \ {"args"}, names[f] # Null
        PROVE  Fits(made[frame], f, made[names[f]])
    <3>1. names[f] \in Slot \ {frame, args}
      BY <2>1, <1>3, <1>5
    <3> QED
      BY <2>1, <3>1, <1>5, <1>7 DEF Fits, IsFun
  <2> QED
    BY <2>1, <1>3, <1>4, <1>5, <1>7 DEF Adds
<1>9. CASE ~(Len(acts) + 1 < MaxNest)
  <2>1. /\ UNCHANGED <<runVars, gcVars, pc>> /\ gObjectsInPipe' \in Seq(Slot) /\ Names(made)
        /\ Adds(made, Taken(2))
    BY <1>1, <1>3, <1>6, <1>8, <1>9 DEF runVars, TypeOK, Names
  <2> QED
    BY <1>1, <2>1, MakingStatement
<1>10. CASE Len(acts) + 1 < MaxNest
  <2> DEFINE a == [what |-> "fun", running |-> fun, current |-> current,
                   depth |-> Len(gStackFrames) + 1, locals |-> heap[fun].ref["locals"],
                   args |-> heap[fun].ref["args"]]
             block == heap[fun].ref["block"]
             refs  == With(With(heap[fun].ref, "locals", frame), "args", args)
  <2>1. /\ acts' = Append(acts, a) /\ gStackFrames' = Append(gStackFrames, frame)
        /\ gRunningObjects' = gRunningObjects \o <<fun, block>> /\ pc' = "body"
    BY <1>6, <1>10 DEF Enter
  <2>2. heap[fun] \in Object /\ heap[fun].ref \in [Field -> Slot \cup {Null}]
    BY <1>1 DEF TypeOK, Object
  <2>3. /\ refs \in [Field -> Slot \cup {Null}] /\ refs["locals"] = frame
        /\ \A f \in Field \ {"locals", "args"} : refs[f] = heap[fun].ref[f]
    <3>1. refs = [[heap[fun].ref EXCEPT !["locals"] = frame] EXCEPT !["args"] = args]
      BY DEF With
    <3> HIDE DEF refs
    <3> QED
      BY <2>2, <3>1, <1>3, <1>4
  <2>4. /\ heap' \in [Slot -> Object]
        /\ heap'[fun] = [kind |-> heap[fun].kind, ref |-> refs]
        /\ \A t \in Slot \ {fun} : heap'[t] = made[t]
    <3>1. made[fun] = heap[fun]
      BY <1>3, <1>7
    <3>2. heap' = [made EXCEPT ![fun].ref = With(With(@, "locals", frame), "args", args)]
      BY <1>6, <1>10
    <3>3. heap' = [made EXCEPT ![fun] = [heap[fun] EXCEPT !.ref = refs]]
      BY <3>1, <3>2, <1>7
    <3>4. [heap[fun] EXCEPT !.ref = refs] = [kind |-> heap[fun].kind, ref |-> refs]
      BY <2>2 DEF Object
    <3>5. [kind |-> heap[fun].kind, ref |-> refs] \in Object
      BY <2>2, <2>3 DEF Object
    <3> HIDE DEF refs
    <3> QED
      BY <3>3, <3>4, <3>5, <1>7
  <2>5. a \in Activation
    <3>2. Len(gStackFrames) + 1 \in Nat
      BY <1>1, ActivationFacts
    <3> QED
      BY <2>2, <3>2, <1>4 DEF Activation
  <2>6. /\ a.what = "fun" /\ a.running = fun /\ a.depth = Len(gStackFrames) + 1
        /\ a.locals = heap[fun].ref["locals"]
    OBVIOUS
  <2>7. block \in Slot \cup {Null} /\ (block # Null => heap[block].kind # "free")
    <3>1. block # Null => heap[block].kind # "free"
      BY <1>1, <1>2, <1>4 DEF NamesLive, Fits, IsFun
    <3> QED
      BY <3>1, <2>2, <1>4
  <2>8. Len(gStackFrames') = Len(gStackFrames) + 1 /\ gStackFrames'[Len(gStackFrames) + 1] = frame
    BY <1>1, <1>3, <2>1 DEF TypeOK
  <2> HIDE DEF a, block, refs
  <2>9. \A t \in Slot : heap[t].kind # "free" => heap'[t].kind = heap[t].kind
    BY <2>4, <1>3, <1>7
  <2>10. heap'[frame].kind = "object" /\ heap'[args].kind = "vector"
    BY <2>4, <1>3, <1>7
  <2>11. Enters(a, block)
    <3>1. \A t \in Slot : heap'[t].kind # "free" =>
             \/ t = fun /\ heap'[t].ref["locals"] = frame
             \/ t # fun /\ heap'[t].ref["locals"] =
                              IF heap[t].kind = "free" THEN Null ELSE heap[t].ref["locals"]
      BY <2>3, <2>4, <1>3, <1>4, <1>5, <1>7
    <3>2. Framed(a) /\ a.what # "load" /\ acts # <<>> /\ fun # Null
      BY <2>6, <1>2 DEF Framed, Slot, Null
    <3>3. IsFun(heap'[fun]) /\ heap[fun].kind # "free"
      BY <2>4 DEF IsFun
    <3>4. block # Null => heap'[block].kind # "free"
      BY <2>7, <2>9
    <3> QED
      BY <1>3, <2>1, <2>4, <2>5, <2>6, <2>7, <2>8, <2>9, <2>10, <3>1, <3>2, <3>3, <3>4 DEF Enters
  <2>12. PointersLive
    <3> SUFFICES ASSUME NEW t \in Slot, heap'[t].kind # "free", NEW f \in Field \ {"args"},
                        heap'[t].ref[f] # Null
                 PROVE  Fits(heap'[t], f, heap'[heap'[t].ref[f]])
      BY DEF PointersLive
    <3>1. CASE t = fun /\ f = "locals"
      BY <3>1, <2>3, <2>4, <2>10 DEF Fits
    <3>2. CASE t \in {frame, args}
      <4>1. made[t] = heap'[t] /\ Fits(made[t], f, made[made[t].ref[f]])
        BY <3>2, <2>4, <1>3, <1>8 DEF Adds
      <4>2. \A u \in Slot : heap'[u].kind = made[u].kind
        BY <2>4, <1>3, <1>7
      <4>3. heap'[t].ref[f] \in Slot
        BY <2>4 DEF Object
      <4> QED
        BY <4>1, <4>2, <4>3 DEF Fits, IsFun
    <3>3. CASE t \notin {frame, args} /\ ~(t = fun /\ f = "locals")
      <4>1. heap'[t].ref[f] = heap[t].ref[f] /\ heap'[t].kind = heap[t].kind
        <5>1. CASE t = fun
          BY <5>1, <3>3, <2>3, <2>4
        <5>2. CASE t # fun
          BY <5>2, <3>3, <2>4, <1>7
        <5> QED
          BY <5>1, <5>2
      <4>2. Fits(heap[t], f, heap[heap[t].ref[f]])
        BY <4>1, <1>1, <1>2 DEF NamesLive
      <4>3. heap[t].ref[f] \in Slot
        BY <4>1, <2>4 DEF Object
      <4> QED
        BY <4>1, <4>2, <4>3, <2>9 DEF Fits, IsFun
    <3> QED
      BY <3>1, <3>2, <3>3
  <2>13. \A t \in Slot : heap'[t].kind = "free" <=> heap[t].kind = "free" /\ t \notin Taken(2)
    BY <2>4, <1>3, <1>7 DEF IsFun
  <2> QED
    BY <1>1, <1>2, <2>11, <2>12, <2>13, EnteredStep
<1> QED
  BY <1>9, <1>10

\* The blocks of "object": a new object whose parent is the current object.
LEMMA NewObjectStep ==
    ASSUME IInv, NEW what \in {"object", "named"}, NEW o, NEW name \in Name,
           NewObject(what, o, name)
    PROVE  IInv'
<1> DEFINE new  == Supply(1)[1]
           refs == With(Nil, "parent", Current)
           made == [heap EXCEPT ![new] = Cell("object", refs)]
           a    == [what |-> what, running |-> Running, current |-> new,
                    depth |-> Len(gStackFrames), locals |-> Null, args |-> Null]
<1>1. /\ TypeOK /\ FreeListExact /\ Shape /\ RootsLive /\ LocalsOwned /\ NamesLive
      /\ Statement /\ Obtain(1) /\ UNCHANGED <<n, gStackFrames, gObjectsInPipe, gcVars>>
  BY DEF IInv, NewObject
<1>2. /\ left' \in 0..MaxStatements /\ pc = "body" /\ heap[Current].kind = "object"
      /\ acts # <<>>
  <2>1. left' \in 0..MaxStatements /\ pc = "body" /\ heap[Current].kind = "object"
    BY <1>1, StatementLeft
  <2> QED
    BY <1>1, <2>1 DEF Shape
<1>3. new \in Slot /\ heap[new].kind = "free" /\ Taken(1) = {new}
  <2>1. Taken(1) = {new}
    BY DEF Taken
  <2> QED
    BY <1>1, <2>1, TakenFree
<1>4. {"block", "parent", "locals", "args"} \subseteq Field /\ \A f \in Field : Nil[f] = Null
  BY DEF Field, Nil
<1>5. Current \in Slot
  BY <1>1, <1>2, ThereIsALast DEF Current
<1>6. /\ refs \in [Field -> Slot \cup {Null}] /\ refs["parent"] = Current
      /\ \A f \in Field \ {"parent"} : refs[f] = Null
  <2>1. refs = [Nil EXCEPT !["parent"] = Current] /\ Nil \in [Field -> Slot \cup {Null}]
    BY CellType DEF With
  <2> HIDE DEF refs
  <2> QED
    BY <2>1, <1>4, <1>5
<1>7. /\ Len(acts) + 1 < MaxNest =>
            /\ acts' = Append(acts, a) /\ pc' = "body"
            /\ gRunningObjects' = gRunningObjects \o <<Running, Null>>
      /\ ~(Len(acts) + 1 < MaxNest) => UNCHANGED <<gRunningObjects, acts, pc>>
      /\ heap' = IF what = "named" THEN Put(made, o, name, new) ELSE made
  BY DEF NewObject, Enter
<1>8. a \in Activation
  <2>1. Running \in Slot \cup {Null} /\ Len(gStackFrames) \in Nat
    BY <1>1, <1>2, ThereIsALast DEF Running
  <2> QED
    BY <2>1, <1>3 DEF Activation
<1>9. /\ a.what = what /\ a.running = Running /\ a.depth = Len(gStackFrames)
  OBVIOUS
<1> HIDE DEF new, refs, a
<1>10. /\ made \in [Slot -> Object] /\ made[new] = [kind |-> "object", ref |-> refs]
       /\ \A t \in Slot \ {new} : made[t] = heap[t]
  <2>1. Cell("object", refs) \in Object /\ Cell("object", refs) = [kind |-> "object", ref |-> refs]
    BY <1>6, CellType DEF Kind, Cell
  <2> QED
    BY <2>1, <1>1, <1>3 DEF TypeOK
<1> HIDE DEF made
<1>11. Adds(made, {new})
  <2>1. Fits(made[new], "parent", made[Current])
    <3>1. Current # new
      BY <1>2, <1>3
    <3> QED
      BY <3>1, <1>2, <1>5, <1>10 DEF Fits, IsFun
  <2> QED
    BY <2>1, <1>3, <1>4, <1>6, <1>10 DEF Adds
<1>12. Names(made)
  <2>1. CASE what = "named"
    <3>1. heap' = Put(made, o, name, new) /\ made[new].kind # "free"
      BY <2>1, <1>7, <1>10
    <3> QED
      BY <3>1, <1>3 DEF Names
  <2>2. CASE what # "named"
    BY <2>2, <1>7 DEF Names
  <2> QED
    BY <2>1, <2>2
<1>13. CASE ~(Len(acts) + 1 < MaxNest)
  <2>1. UNCHANGED <<runVars, gcVars, pc>> /\ gObjectsInPipe' \in Seq(Slot)
    BY <1>1, <1>7, <1>13 DEF runVars, TypeOK
  <2> QED
    BY <1>1, <1>3, <1>11, <1>12, <2>1, MakingStatement
<1>14. CASE Len(acts) + 1 < MaxNest
  <2>1. /\ HeapGrows /\ PointersLive
        /\ \A t \in Slot : heap'[t].kind = "free" <=> heap[t].kind = "free" /\ t \notin {new}
    BY <1>2, <1>11, <1>12, PutStep
  <2>2. Running # Null => Running \in Slot /\ IsFun(heap[Running])
    BY <1>1, <1>2, ThereIsALast DEF Running, RootsLive
  <2>3. Enters(a, Null)
    <3>1. ~Framed(a) /\ a.what # "load" /\ a.what # "fun"
      BY <1>9 DEF Framed
    <3>2. \A s \in Slot : heap'[s].kind # "free" =>
             heap'[s].ref["locals"] = IF heap[s].kind = "free" THEN Null ELSE heap[s].ref["locals"]
      BY <2>1 DEF HeapGrows
    <3>3. Running # Null => IsFun(heap'[Running])
      BY <2>1, <2>2 DEF HeapGrows, IsFun
    <3>4. heap' \in [Slot -> Object]
          /\ \A s \in Slot : heap[s].kind # "free" => heap'[s].kind = heap[s].kind
      BY <2>1 DEF HeapGrows
    <3> QED
      BY <1>1, <1>2, <1>7, <1>8, <1>9, <1>14, <3>1, <3>2, <3>3, <3>4 DEF Enters
  <2>4. \A t \in Slot : heap'[t].kind = "free" <=> heap[t].kind = "free" /\ t \notin Taken(1)
    BY <2>1, <1>3
  <2> QED
    BY <1>1, <1>2, <2>1, <2>3, <2>4, EnteredStep
<1> QED
  BY <1>13, <1>14

-----------------------------------------------------------------------------
(* Activations that end.                                                   *)

\* A sequence without its last elements.
LEMMA FrontFacts ==
    ASSUME NEW S, NEW f \in Seq(S), NEW k \in Nat, k <= Len(f)
    PROVE  /\ SubSeq(f, 1, Len(f) - k) \in Seq(S)
           /\ Len(SubSeq(f, 1, Len(f) - k)) = Len(f) - k
           /\ \A i \in 1..Len(f) - k : SubSeq(f, 1, Len(f) - k)[i] = f[i]
<1>1. Len(f) \in Nat /\ Len(f) - k \in Nat
  OBVIOUS
<1>2. \A i \in 1..Len(f) - k : f[i] \in S
  BY <1>1, ElementOfSeq
<1> QED
  BY <1>1, <1>2

\* What the sequences are after the innermost activation has ended.
LEMMA LeaveFacts ==
    ASSUME TypeOK, Shape, CallerGoesOn
    PROVE  /\ Len(acts) >= 1
           /\ acts' \in Seq(Activation) /\ Len(acts') = Len(acts) - 1
           /\ \A i \in 1..Len(acts) - 1 : acts'[i] = acts[i]
           /\ gRunningObjects' \in Seq(Slot \cup {Null})
           /\ Len(gRunningObjects') = Len(gRunningObjects) - 2
           /\ \A i \in 1..Len(gRunningObjects) - 2 : gRunningObjects'[i] = gRunningObjects[i]
           /\ gStackFrames' \in Seq(Slot)
           /\ Len(gStackFrames') = Len(gStackFrames) - (IF Framed(Last(acts)) THEN 1 ELSE 0)
           /\ \A i \in 1..Len(gStackFrames') : gStackFrames'[i] = gStackFrames[i]
<1>1. /\ acts \in Seq(Activation) /\ gStackFrames \in Seq(Slot)
      /\ gRunningObjects \in Seq(Slot \cup {Null}) /\ acts # <<>>
      /\ Len(gRunningObjects) = 2 * Len(acts)
  BY DEF TypeOK, Shape, CallerGoesOn
<1>2. Len(acts) \in Nat /\ Len(acts) >= 1 /\ Len(gStackFrames) \in Nat /\ Len(gStackFrames) >= 1
  BY <1>1, ThereIsALast
<1>3. /\ acts' = SubSeq(acts, 1, Len(acts) - 1)
      /\ gRunningObjects' = SubSeq(gRunningObjects, 1, Len(gRunningObjects) - 2)
      /\ gStackFrames' = IF Framed(Last(acts)) THEN SubSeq(gStackFrames, 1, Len(gStackFrames) - 1)
                         ELSE gStackFrames
  BY DEF CallerGoesOn, Front
<1>4. /\ acts' \in Seq(Activation) /\ Len(acts') = Len(acts) - 1
      /\ \A i \in 1..Len(acts) - 1 : acts'[i] = acts[i]
  <2>1. 1 \in Nat /\ 1 <= Len(acts)
    BY <1>2
  <2> QED
    BY <1>1, <1>3, <2>1, FrontFacts
<1>5. /\ gRunningObjects' \in Seq(Slot \cup {Null})
      /\ Len(gRunningObjects') = Len(gRunningObjects) - 2
      /\ \A i \in 1..Len(gRunningObjects) - 2 : gRunningObjects'[i] = gRunningObjects[i]
  <2>1. 2 \in Nat /\ 2 <= Len(gRunningObjects)
    BY <1>1, <1>2
  <2> QED
    BY <1>1, <1>3, <2>1, FrontFacts
<1>6. CASE Framed(Last(acts))
  <2>1. /\ gStackFrames' \in Seq(Slot) /\ Len(gStackFrames') = Len(gStackFrames) - 1
        /\ \A i \in 1..Len(gStackFrames) - 1 : gStackFrames'[i] = gStackFrames[i]
    <3>1. 1 \in Nat /\ 1 <= Len(gStackFrames)
      BY <1>2
    <3> QED
      BY <1>1, <1>3, <1>6, <3>1, FrontFacts
  <2> QED
    BY <1>2, <1>4, <1>5, <1>6, <2>1
<1>7. CASE ~Framed(Last(acts))
  BY <1>1, <1>2, <1>3, <1>4, <1>5, <1>7
<1> QED
  BY <1>6, <1>7

\* The function's fields are restored, by SavedLocals to the frame of its
\* activation before, and nothing else in the heap changes.
Restores ==
    /\ heap' \in [Slot -> Object]
    /\ \A s \in Slot :
          /\ heap'[s].kind = heap[s].kind
          /\ \A f \in Field \ {"locals", "args"} : heap'[s].ref[f] = heap[s].ref[f]
          /\ heap'[s].ref["locals"] =
                IF Last(acts).what = "fun" /\ s = Last(acts).running
                THEN Last(acts).locals ELSE heap[s].ref["locals"]

\* What the caller saved is what it finds again.
LEMMA RestoreFacts ==
    ASSUME TypeOK, Shape, RootsLive, CallerGoesOn
    PROVE  Restores
<1> DEFINE a    == Last(acts)
           refs == With(With(heap[a.running].ref, "locals", a.locals), "args", a.args)
<1>1. heap \in [Slot -> Object] /\ acts # <<>>
  BY DEF TypeOK, Shape, CallerGoesOn
<1>2. a \in Activation /\ (a.what = "fun" => a.running \in Slot)
  BY <1>1, ThereIsALast DEF RootsLive
<1>3. {"block", "parent", "locals", "args"} \subseteq Field
  BY DEF Field
<1>4. CASE a.what # "fun"
  <2>1. heap' = heap
    BY <1>4 DEF CallerGoesOn
  <2> QED
    BY <1>1, <1>4, <2>1 DEF Restores
<1>5. CASE a.what = "fun"
  <2>1. heap' = [heap EXCEPT ![a.running].ref = With(With(@, "locals", a.locals), "args", a.args)]
    BY <1>5 DEF CallerGoesOn
  <2>2. heap[a.running] \in Object /\ heap[a.running].ref \in [Field -> Slot \cup {Null}]
    BY <1>1, <1>2, <1>5 DEF Object
  <2>3. a.locals \in Slot \cup {Null} /\ a.args \in Slot \cup {Null} /\ a.running \in Slot
    BY <1>2, <1>5 DEF Activation
  <2>4. heap' = [heap EXCEPT ![a.running] = [heap[a.running] EXCEPT !.ref = refs]]
    BY <1>1, <2>1, <2>3
  <2>5. [heap[a.running] EXCEPT !.ref = refs] = [kind |-> heap[a.running].kind, ref |-> refs]
    BY <2>2 DEF Object
  <2>6. refs = [[heap[a.running].ref EXCEPT !["locals"] = a.locals] EXCEPT !["args"] = a.args]
    BY DEF With
  <2>7. a = Last(acts)
    OBVIOUS
  <2> HIDE DEF refs, a
  <2>8. /\ refs \in [Field -> Slot \cup {Null}] /\ refs["locals"] = a.locals
        /\ \A f \in Field \ {"locals", "args"} : refs[f] = heap[a.running].ref[f]
    BY <1>3, <2>2, <2>3, <2>6
  <2>9. /\ heap' \in [Slot -> Object]
        /\ heap'[a.running] = [kind |-> heap[a.running].kind, ref |-> refs]
        /\ \A s \in Slot \ {a.running} : heap'[s] = heap[s]
    <3>1. [kind |-> heap[a.running].kind, ref |-> refs] \in Object
      BY <2>2, <2>8 DEF Object
    <3> QED
      BY <1>1, <2>3, <2>4, <2>5, <3>1
  <2>10. ASSUME NEW s \in Slot
         PROVE  /\ heap'[s].kind = heap[s].kind
                /\ \A f \in Field \ {"locals", "args"} : heap'[s].ref[f] = heap[s].ref[f]
                /\ heap'[s].ref["locals"] =
                      IF s = a.running THEN a.locals ELSE heap[s].ref["locals"]
    BY <2>8, <2>9
  <2> QED
    BY <1>5, <2>7, <2>9, <2>10 DEF Restores
<1> QED
  BY <1>4, <1>5

\* The caller goes on.
LEMMA CallerGoesOnStep ==
    ASSUME IInv, CallerGoesOn
    PROVE  IInv'
<1> DEFINE m == Len(acts) - 1
           a == Last(acts)
<1>1. /\ TypeOK /\ FreeListExact /\ Shape /\ RootsLive /\ LocalsOwned /\ SavedLocals
      /\ FramesKept /\ NamesLive /\ MarkedClosed /\ pc = "pop"
      /\ UNCHANGED <<left, pool, free, n, gcVars>>
  BY DEF IInv, CallerGoesOn
<1>2. /\ acts # <<>> /\ Len(acts) \in 1..Len(acts) /\ a = acts[Len(acts)] /\ a \in Activation
      /\ a.running \in Slot \cup {Null} /\ a.current \in Slot /\ a.depth = Len(gStackFrames)
      /\ Len(gStackFrames) \in Nat
  <2>1. acts # <<>>
    BY <1>1 DEF Shape
  <2> QED
    BY <1>1, <2>1, ThereIsALast
<1>3. /\ m \in Nat /\ Len(acts) = m + 1
      /\ acts' \in Seq(Activation) /\ Len(acts') = m
      /\ \A i \in 1..m : acts'[i] = acts[i]
      /\ gRunningObjects' \in Seq(Slot \cup {Null})
      /\ Len(gRunningObjects') = 2 * m
      /\ \A i \in 1..2 * m : gRunningObjects'[i] = gRunningObjects[i]
      /\ gStackFrames' \in Seq(Slot)
      /\ Len(gStackFrames') = Len(gStackFrames) - (IF Framed(a) THEN 1 ELSE 0)
      /\ \A i \in 1..Len(gStackFrames') : gStackFrames'[i] = gStackFrames[i]
  <2>1. Len(gRunningObjects) = 2 * Len(acts)
    BY <1>1 DEF Shape
  <2>2. Len(acts) = m + 1 /\ m \in Nat /\ Len(gRunningObjects) - 2 = 2 * m
    BY <1>2, <2>1
  <2> QED
    BY <1>1, <2>2, LeaveFacts
<1>4. Restores
  BY <1>1, RestoreFacts
<1>5. /\ heap' \in [Slot -> Object] /\ \A s \in Slot : heap'[s].kind = heap[s].kind
      /\ \A s \in Slot : ~(a.what = "fun" /\ s = a.running) =>
             heap'[s].ref["locals"] = heap[s].ref["locals"]
      /\ \A s \in Slot : a.what = "fun" /\ s = a.running => heap'[s].ref["locals"] = a.locals
  BY <1>4 DEF Restores
<1> HIDE DEF m, a
<1>6. \A i \in 1..m : i \in 1..Len(acts) /\ acts'[i] = acts[i]
  BY <1>3
<1>7. \A i \in 1..m : /\ acts[i].depth \in 1..Len(gStackFrames')
                      /\ gStackFrames'[acts[i].depth] = gStackFrames[acts[i].depth]
                      /\ acts[i].running \in Slot \cup {Null}
  <2> SUFFICES ASSUME NEW i \in 1..m
               PROVE  acts[i].depth \in 1..Len(gStackFrames')
                      /\ acts[i].running \in Slot \cup {Null}
    BY <1>3
  <2>1. i \in 1..Len(acts) /\ i < Len(acts) /\ Len(acts) \in 1..Len(acts)
    BY <1>2, <1>3
  <2>2. /\ acts[i].depth \in 1..Len(gStackFrames) /\ acts[i].running \in Slot \cup {Null}
        /\ acts[i].depth <= a.depth /\ (Framed(a) => acts[i].depth < a.depth)
    BY <1>1, <1>2, <2>1, ActivationFacts DEF Shape
  <2>3. CASE Framed(a)
    <3>1. acts[i].depth < Len(gStackFrames) /\ Len(gStackFrames') = Len(gStackFrames) - 1
      BY <1>2, <1>3, <2>2, <2>3
    <3> QED
      BY <1>2, <2>2, <3>1
  <2>4. CASE ~Framed(a)
    BY <1>2, <1>3, <2>2, <2>4
  <2> QED
    BY <2>3, <2>4
<1>8. Shape'
  <2>1. pc' = "ready" <=> acts' = <<>>
    <3>1. acts' = <<>> <=> m = 0
      BY <1>3
    <3>2. pc' = IF Len(acts) = 1 THEN "ready" ELSE "body"
      BY DEF CallerGoesOn
    <3> QED
      BY <1>3, <3>1, <3>2
  <2>2. Len(gStackFrames') = IF acts' = <<>> THEN 0 ELSE Last(acts').depth
    <3>1. CASE m = 0
      <4>1. acts' = <<>> /\ Len(acts) = 1
        BY <3>1, <1>3
      <4>2. a.what = "load" /\ a.depth = 1
        BY <4>1, <1>1, <1>2 DEF Shape
      <4> QED
        BY <4>1, <4>2, <1>2, <1>3 DEF Framed
    <3>2. CASE m # 0
      <4>1. acts' # <<>> /\ Last(acts') = acts[m] /\ m \in 1..m
        BY <3>2, <1>3 DEF Last
      <4>2. a.depth = acts[m].depth + (IF Framed(a) THEN 1 ELSE 0)
        <5>1. Len(acts) > 1 /\ Len(acts) - 1 = m
          BY <3>2, <1>3
        <5> QED
          BY <5>1, <1>1, <1>2 DEF Shape
      <4>3. acts[m].depth \in Nat
        BY <4>1, <1>7
      <4> QED
        BY <4>1, <4>2, <4>3, <1>2, <1>3
    <3> QED
      BY <3>1, <3>2
  <2>3. ASSUME NEW i \in 1..m
        PROVE
          /\ gRunningObjects'[2 * i - 1] = acts'[i].running
          /\ acts'[i].depth >= 1
          /\ i > 1 => acts'[i].depth = acts'[i - 1].depth + (IF Framed(acts'[i]) THEN 1 ELSE 0)
          /\ acts'[i].what = "load" <=> i = 1
          /\ i = 1 => acts'[i].depth = 1
    <3>1. /\ i \in 1..Len(acts) /\ acts'[i] = acts[i] /\ 2 * i - 1 \in 1..2 * m
          /\ i > 1 => i - 1 \in 1..m
      BY <1>3
    <3>2. i > 1 => acts'[i - 1] = acts[i - 1]
      BY <3>1, <1>3
    <3>3. /\ gRunningObjects[2 * i - 1] = acts[i].running
          /\ acts[i].depth >= 1
          /\ i > 1 => acts[i].depth = acts[i - 1].depth + (IF Framed(acts[i]) THEN 1 ELSE 0)
          /\ acts[i].what = "load" <=> i = 1
          /\ i = 1 => acts[i].depth = 1
      BY <3>1, <1>1 DEF Shape
    <3>4. gRunningObjects'[2 * i - 1] = gRunningObjects[2 * i - 1]
      BY <3>1, <1>3
    <3> QED
      BY <3>1, <3>2, <3>3, <3>4
  <2>4. ASSUME NEW i \in 1..m, NEW j \in 1..m, i < j
        PROVE  /\ acts'[i].depth <= acts'[j].depth
               /\ Framed(acts'[j]) => acts'[i].depth < acts'[j].depth
    BY <2>4, <1>1, <1>6 DEF Shape
  <2> QED
    BY <1>3, <2>1, <2>2, <2>3, <2>4 DEF Shape, Last, Framed
<1>9. RootsLive'
  <2>1. heap'[Root].kind = "object"
    <3>1. Root \in Slot
      BY <1>1, PoolAssumption DEF Root, Slot, TypeOK
    <3> QED
      BY <3>1, <1>1, <1>5 DEF RootsLive
  <2>2. ASSUME NEW i \in 1..Len(gStackFrames')
        PROVE  heap'[gStackFrames'[i]].kind = "object"
    <3>1. i \in 1..Len(gStackFrames) /\ gStackFrames'[i] = gStackFrames[i]
      BY <1>2, <1>3
    <3>2. gStackFrames[i] \in Slot /\ heap[gStackFrames[i]].kind = "object"
      BY <3>1, <1>1 DEF RootsLive, TypeOK
    <3> QED
      BY <3>1, <3>2, <1>5
  <2>3. ASSUME NEW i \in 1..Len(gRunningObjects'), gRunningObjects'[i] # Null
        PROVE  heap'[gRunningObjects'[i]].kind # "free"
    <3>1. gRunningObjects'[i] \in Slot
      BY <2>3, <1>3, ElementOfSeq
    <3>2. i \in 1..Len(gRunningObjects) /\ gRunningObjects'[i] = gRunningObjects[i]
      <4>1. Len(gRunningObjects) = 2 * Len(acts)
        BY <1>1 DEF Shape
      <4>2. i \in 1..2 * m
        BY <1>3
      <4>3. i \in 1..Len(gRunningObjects)
        BY <4>1, <4>2, <1>3
      <4> QED
        BY <4>2, <4>3, <1>3
    <3> QED
      BY <2>3, <3>1, <3>2, <1>1, <1>5 DEF RootsLive
  <2>4. ASSUME NEW i \in 1..m
        PROVE  /\ acts'[i].running # Null => IsFun(heap'[acts'[i].running])
               /\ acts'[i].what = "fun" => acts'[i].running # Null
    BY <1>1, <1>5, <1>6, <1>7 DEF RootsLive, IsFun
  <2> QED
    BY <1>3, <2>1, <2>2, <2>3, <2>4 DEF RootsLive, IsFun
<1>10. LocalsOwned'
  <2> SUFFICES ASSUME NEW s \in Slot, heap'[s].kind # "free", heap'[s].ref["locals"] # Null
               PROVE  \E j \in 1..Len(acts') :
                         /\ acts'[j].what = "fun" /\ acts'[j].running = s
                         /\ heap'[s].ref["locals"] = gStackFrames'[acts'[j].depth]
    BY DEF LocalsOwned
  <2> SUFFICES \E j \in 1..m : /\ acts[j].what = "fun" /\ acts[j].running = s
                                /\ heap'[s].ref["locals"] = gStackFrames[acts[j].depth]
    <3> SUFFICES ASSUME NEW j \in 1..m, acts[j].what = "fun", acts[j].running = s,
                        heap'[s].ref["locals"] = gStackFrames[acts[j].depth]
                 PROVE  \E i \in 1..Len(acts') :
                           /\ acts'[i].what = "fun" /\ acts'[i].running = s
                           /\ heap'[s].ref["locals"] = gStackFrames'[acts'[i].depth]
      OBVIOUS
    <3>1. j \in 1..Len(acts') /\ acts'[j] = acts[j]
      BY <1>3
    <3>2. gStackFrames'[acts[j].depth] = gStackFrames[acts[j].depth]
      BY <1>7
    <3> QED
      BY <3>1, <3>2
  <2>1. CASE a.what = "fun" /\ s = a.running
    <3>1. a.locals # Null /\ heap'[s].ref["locals"] = a.locals
      BY <2>1, <1>5
    <3>2. PICK j \in 1..Len(acts) - 1 : /\ acts[j].what = "fun" /\ acts[j].running = a.running
                                        /\ a.locals = gStackFrames[acts[j].depth]
      BY <2>1, <3>1, <1>1, <1>2 DEF SavedLocals
    <3>3. j \in 1..m
      BY <1>3
    <3> QED
      BY <2>1, <3>1, <3>2, <3>3
  <2>2. CASE ~(a.what = "fun" /\ s = a.running)
    <3>1. heap[s].kind # "free" /\ heap'[s].ref["locals"] = heap[s].ref["locals"]
      BY <2>2, <1>5
    <3>2. PICK j \in 1..Len(acts) : /\ acts[j].what = "fun" /\ acts[j].running = s
                                    /\ heap[s].ref["locals"] = gStackFrames[acts[j].depth]
      BY <3>1, <1>1 DEF LocalsOwned
    <3>3. j # Len(acts)
      BY <2>2, <3>2, <1>2
    <3>4. j \in 1..m
      BY <3>3, <1>3
    <3> QED
      BY <3>1, <3>2, <3>4
  <2> QED
    BY <2>1, <2>2
<1>11. SavedLocals'
  <2> SUFFICES ASSUME NEW i \in 1..Len(acts'), acts'[i].what = "fun"
               PROVE
        /\ acts'[i].locals # Null =>
              \E j \in 1..i - 1 : /\ acts'[j].what = "fun"
                                  /\ acts'[j].running = acts'[i].running
                                  /\ acts'[i].locals = gStackFrames'[acts'[j].depth]
        /\ \A j \in 1..i - 1 :
              (/\ acts'[j].what = "fun" /\ acts'[j].running = acts'[i].running
               /\ \A k \in j+1..i-1 : acts'[k].what = "fun" => acts'[k].running # acts'[i].running)
              => acts'[i].locals = gStackFrames'[acts'[j].depth]
    BY DEF SavedLocals
  <2>1. i \in 1..m /\ i \in 1..Len(acts) /\ acts'[i] = acts[i] /\ acts[i].what = "fun"
    BY <1>3
  <2>2. \A j \in 1..i - 1 : j \in 1..m
    BY <2>1, <1>3
  <2>3. \A j \in 1..i - 1 : /\ acts'[j] = acts[j]
                             /\ gStackFrames'[acts[j].depth] = gStackFrames[acts[j].depth]
    BY <2>2, <1>3, <1>7
  <2>4. \A j \in 1..i - 1 : \A k \in j+1..i-1 : acts'[k] = acts[k]
    BY <2>1, <2>3, <1>3
  <2>5. acts[i].locals # Null =>
              \E j \in 1..i - 1 : /\ acts[j].what = "fun"
                                  /\ acts[j].running = acts[i].running
                                  /\ acts[i].locals = gStackFrames[acts[j].depth]
    BY <2>1, <1>1 DEF SavedLocals
  <2>6. ASSUME NEW j \in 1..i - 1, acts[j].what = "fun", acts[j].running = acts[i].running,
               \A k \in j+1..i-1 : acts[k].what = "fun" => acts[k].running # acts[i].running
        PROVE  acts[i].locals = gStackFrames[acts[j].depth]
    BY <2>1, <2>6, <1>1 DEF SavedLocals
  <2>7. ASSUME acts'[i].locals # Null
        PROVE  \E j \in 1..i - 1 : /\ acts'[j].what = "fun"
                                   /\ acts'[j].running = acts'[i].running
                                   /\ acts'[i].locals = gStackFrames'[acts'[j].depth]
    BY <2>1, <2>3, <2>5, <2>7
  <2>8. ASSUME NEW j \in 1..i - 1, acts'[j].what = "fun", acts'[j].running = acts'[i].running,
               \A k \in j+1..i-1 : acts'[k].what = "fun" => acts'[k].running # acts'[i].running
        PROVE  acts'[i].locals = gStackFrames'[acts'[j].depth]
    <3>1. \A k \in j+1..i-1 : acts[k].what = "fun" => acts[k].running # acts[i].running
      BY <2>1, <2>4, <2>8
    <3>2. acts[i].locals = gStackFrames[acts[j].depth]
      BY <2>1, <2>3, <2>6, <2>8, <3>1
    <3> QED
      BY <2>1, <2>3, <3>2
  <2> QED
    BY <2>7, <2>8
<1>12. FramesKept'
  <2> SUFFICES ASSUME NEW i \in 1..Len(acts')
               PROVE
        /\ heap'[gStackFrames'[acts'[i].depth]].kind = "object"
        /\ acts'[i].what = "fun" =>
             /\ IsFun(heap'[acts'[i].running])
             /\ (\A j \in i+1..Len(acts') :
                    acts'[j].what = "fun" => acts'[j].running # acts'[i].running)
                => heap'[acts'[i].running].ref["locals"] = gStackFrames'[acts'[i].depth]
    BY DEF FramesKept, IsFun
  <2> i \in 1..m
    BY <1>3
  <2>0. /\ acts'[i] = acts[i] /\ gStackFrames'[acts[i].depth] = gStackFrames[acts[i].depth]
        /\ Len(acts') = m /\ \A j \in i+1..m : acts'[j] = acts[j]
    BY <1>3, <1>7
  <2>1. i \in 1..Len(acts)
    BY <1>6
  <2>2. heap'[gStackFrames[acts[i].depth]].kind = "object"
    <3>1. gStackFrames[acts[i].depth] \in Slot
      BY <1>1, <2>1, ActivationFacts
    <3> QED
      BY <1>1, <1>5, <2>1, <3>1 DEF FramesKept
  <2>3. ASSUME acts[i].what = "fun"
        PROVE  /\ acts[i].running \in Slot /\ IsFun(heap'[acts[i].running])
    BY <2>1, <2>3, <1>1, <1>5, <1>7 DEF RootsLive, IsFun
  <2>4. ASSUME acts[i].what = "fun",
               \A j \in i+1..m : acts[j].what = "fun" => acts[j].running # acts[i].running
        PROVE  heap'[acts[i].running].ref["locals"] = gStackFrames[acts[i].depth]
    <3>1. CASE a.what = "fun" /\ acts[i].running = a.running
      <4>1. i \in 1..Len(acts) - 1 /\ \A k \in i+1..Len(acts)-1 : k \in i+1..m
        BY <1>3
      <4>2. \A k \in i+1..Len(acts)-1 : acts[k].what = "fun" => acts[k].running # a.running
        BY <4>1, <3>1, <2>4
      <4>3. a.locals = gStackFrames[acts[i].depth]
        BY <4>1, <4>2, <3>1, <2>4, <1>1, <1>2 DEF SavedLocals
      <4> QED
        BY <4>3, <3>1, <2>3, <2>4, <1>5
    <3>2. CASE ~(a.what = "fun" /\ acts[i].running = a.running)
      <4>1. \A j \in i+1..Len(acts) : j \in i+1..m \/ j = Len(acts)
        BY <1>3
      <4>2. \A j \in i+1..Len(acts) : acts[j].what = "fun" => acts[j].running # acts[i].running
        BY <4>1, <3>2, <2>4, <1>2
      <4> QED
        BY <4>2, <3>2, <2>1, <2>3, <2>4, <1>1, <1>5 DEF FramesKept
    <3> QED
      BY <3>1, <3>2
  <2> QED
    BY <2>0, <2>2, <2>3, <2>4
<1>13. FreeListExact' /\ free' \in Seq(1..pool') /\ pool' = pool
  <2>1. free \in Seq(1..pool) /\ free' = free /\ pool' = pool
    BY <1>1 DEF TypeOK
  <2>2. 1..pool \subseteq Slot
    BY <1>1, PoolAssumption DEF TypeOK, Slot
  <2>3. Items(free)' = Items(free)
    BY <2>1 DEF Items
  <2>4. {s \in 1..pool' : heap'[s].kind = "free"} = {s \in 1..pool : heap[s].kind = "free"}
    BY <2>1, <2>2, <1>5
  <2> QED
    BY <2>1, <2>3, <2>4, <1>1, <1>5 DEF FreeListExact
<1>14. gObjectsInPipe' \in Seq(Slot)
  <2>1. gObjectsInPipe' = gObjectsInPipe \/ gObjectsInPipe' = Append(gObjectsInPipe, a.current)
    BY DEF CallerGoesOn, a
  <2>2. gObjectsInPipe \in Seq(Slot) /\ a.current \in Slot
    BY <1>1, <1>2 DEF TypeOK
  <2> QED
    BY <2>1, <2>2
<1>15. pc' \in {"ready", "body"}
  BY DEF CallerGoesOn
<1>16. TypeOK'
  BY <1>1, <1>3, <1>5, <1>13, <1>14, <1>15 DEF TypeOK, gcVars
<1>17. NamesLive'
  <2> SUFFICES ASSUME NEW s \in Slot, heap'[s].kind # "free", NEW f \in Field \ {"args"},
                      heap'[s].ref[f] # Null
               PROVE  Fits(heap'[s], f, heap'[heap'[s].ref[f]])
    BY DEF NamesLive
  <2>1. CASE f = "locals"
    <3>1. PICK j \in 1..Len(acts') : heap'[s].ref["locals"] = gStackFrames'[acts'[j].depth]
      BY <2>1, <1>10 DEF LocalsOwned
    <3>2. heap'[gStackFrames'[acts'[j].depth]].kind = "object"
      BY <1>12 DEF FramesKept
    <3> QED
      BY <2>1, <3>1, <3>2 DEF Fits
  <2>2. CASE f # "locals"
    <3>1. heap'[s].ref[f] = heap[s].ref[f] /\ heap'[s].kind = heap[s].kind
      BY <2>2, <1>4 DEF Restores
    <3>2. Fits(heap[s], f, heap[heap[s].ref[f]])
      BY <3>1, <1>1 DEF NamesLive
    <3>3. heap[s].ref[f] \in Slot
      BY <3>1, <1>1 DEF TypeOK, Object
    <3> QED
      BY <3>1, <3>2, <3>3, <1>5 DEF Fits, IsFun
  <2> QED
    BY <2>1, <2>2
<1>18. MarkedClosed'
  BY <1>15 DEF MarkedClosed
<1> QED
  BY <1>8, <1>9, <1>10, <1>11, <1>12, <1>13, <1>16, <1>17, <1>18 DEF IInv

-----------------------------------------------------------------------------
(* The theorems.                                                           *)

\* The invariant holds at first.
LEMMA InitStep ==
    ASSUME Init
    PROVE  IInv
<1>1. /\ InitPool \in Nat /\ MaxPool \in Nat /\ 2 <= InitPool /\ InitPool <= MaxPool
      /\ Root = 1 /\ Root \in Slot
  BY PoolAssumption DEF Root, Slot
<1>2. /\ pool = InitPool /\ marked = {} /\ grey = {} /\ n = 0
      /\ gStackFrames = <<>> /\ gRunningObjects = <<>> /\ gObjectsInPipe = <<>>
      /\ acts = <<>> /\ left = MaxStatements /\ pc = "ready" /\ resume = "body"
  BY DEF Init
<1>3. /\ heap \in [Slot -> Object]
      /\ heap[Root] = [kind |-> "object", ref |-> Nil]
      /\ \A s \in Slot \ {Root} : heap[s] = Free
      /\ Free.kind = "free" /\ Free.ref = Nil
  <2>1. /\ Free \in Object /\ Cell("object", Nil) \in Object
        /\ Cell("object", Nil) = [kind |-> "object", ref |-> Nil]
        /\ Free.kind = "free" /\ Free.ref = Nil
    BY CellType DEF Free, Cell, Kind, Object
  <2>2. heap = [s \in Slot |-> IF s = Root THEN Cell("object", Nil) ELSE Free]
    BY DEF Init
  <2> QED
    BY <1>1, <2>1, <2>2
<1>4. /\ free \in Seq(1..InitPool) /\ Len(free) = InitPool - 1
      /\ \A i \in 1..InitPool - 1 : free[i] = i + 1
  <2>1. free = [i \in 1..InitPool - 1 |-> i + 1]
    BY DEF Init
  <2>2. InitPool - 1 \in Nat /\ \A i \in 1..InitPool - 1 : i + 1 \in 1..InitPool
    BY <1>1
  <2>3. free \in [1..InitPool - 1 -> 1..InitPool]
    BY <2>1, <2>2
  <2>4. free \in Seq(1..InitPool)
    BY <2>2, <2>3, SeqDef
  <2>5. Len(free) = InitPool - 1
    <3>1. 1..Len(free) = 1..InitPool - 1 /\ Len(free) \in Nat
      BY <2>3, <2>4, LenProperties
    <3> QED
      BY <2>2, <3>1
  <2> QED
    BY <2>1, <2>4, <2>5
<1>5. /\ "locals" \in Field /\ \A f \in Field : Nil[f] = Null
      /\ \A f \in Field : heap[Root].ref[f] = Null
  BY <1>3 DEF Field, Nil
<1>6. TypeOK
  BY <1>1, <1>2, <1>3, <1>4, PeriodAssumption, BoundAssumption DEF TypeOK
<1>7. FreeListExact
  <2>1. \A i, j \in 1..Len(free) : free[i] = free[j] => i = j
    BY <1>1, <1>4
  <2>2. Items(free) = {s \in 1..pool : heap[s].kind = "free"}
    <3>1. 1..InitPool \subseteq Slot
      BY <1>1 DEF Slot
    <3>2. ASSUME NEW s \in 1..InitPool, s # Root
          PROVE  s \in Items(free)
      <4>1. s - 1 \in 1..InitPool - 1 /\ free[s - 1] = s
        BY <1>1, <1>4, <3>2
      <4> QED
        BY <4>1, <1>4 DEF Items
    <3>3. ASSUME NEW s \in Items(free)
          PROVE  s \in 1..InitPool /\ s # Root
      BY <1>1, <1>4 DEF Items
    <3> QED
      BY <1>2, <1>3, <3>1, <3>2, <3>3
  <2>3. \A s \in Slot : s > pool => heap[s].kind = "free"
    BY <1>1, <1>2, <1>3
  <2> QED
    BY <2>1, <2>2, <2>3 DEF FreeListExact
<1>8. Shape /\ SavedLocals /\ FramesKept /\ MarkedClosed
  BY <1>2 DEF Shape, SavedLocals, FramesKept, MarkedClosed
<1>9. RootsLive
  BY <1>2, <1>3 DEF RootsLive
<1>10. LocalsOwned /\ NamesLive
  BY <1>3, <1>5 DEF LocalsOwned, NamesLive
<1> QED
  BY <1>6, <1>7, <1>8, <1>9, <1>10 DEF IInv

\* Calling what is named, and what the running function inherits.
LEMMA SendStep ==
    ASSUME IInv, NEW fun, NEW reciever, Send(fun, reciever)
    PROVE  IInv'
<1>1. /\ Statement /\ fun \in Slot /\ reciever \in Slot /\ IsFun(heap[fun])
      /\ RunFunction(fun, reciever)
  BY DEF Send
<1> QED
  BY <1>1, RunFunctionStep

\* A function is called.
LEMMA CallFunStep ==
    ASSUME IInv, NEW name, CallFun(name)
    PROVE  IInv'
BY SendStep DEF CallFun

\* The inherited function is called.
LEMMA InheritStep ==
    ASSUME IInv, Inherit
    PROVE  IInv'
<1> DEFINE fun == heap[Running].ref["parent"]
<1>1. /\ TypeOK /\ Shape /\ RootsLive /\ NamesLive /\ Statement
      /\ Running # Null /\ fun # Null /\ RunFunction(fun, Root)
  BY DEF IInv, Inherit
<1>2. pc = "body" /\ acts # <<>>
  BY <1>1, StatementLeft DEF Shape
<1>3. Running \in Slot /\ IsFun(heap[Running])
  BY <1>1, <1>2, ThereIsALast DEF Running, RootsLive
<1>4. "parent" \in Field \ {"args"}
  BY DEF Field
<1>5. fun \in Slot
  BY <1>1, <1>3, <1>4 DEF TypeOK, Object
<1>6. IsFun(heap[fun])
  BY <1>1, <1>2, <1>3, <1>4 DEF NamesLive, Fits, IsFun
<1>7. Root \in Slot
  BY PoolAssumption DEF Root, Slot
<1> HIDE DEF fun
<1> QED
  BY <1>1, <1>5, <1>6, <1>7, RunFunctionStep

\* So every step keeps the invariant.
LEMMA NextStep ==
    ASSUME IInv, [Next]_vars
    PROVE  IInv'
<1>1. CASE Next
  <2>1. CASE ReadCommand
    BY <2>1, ReadCommandStep
  <2>2. CASE Inherit
    BY <2>2, InheritStep
  <2>3. CASE RunEnds
    BY <2>3, RunEndsStep
  <2>4. CASE CallerGoesOn
    BY <2>4, CallerGoesOnStep
  <2>5. CASE VarNew
    BY <2>5, VarNewStep
  <2>6. CASE SweepCommand
    BY <2>6, SweepCommandStep
  <2>7. CASE Crash
    BY <2>7, CrashStep
  <2>8. CASE Mark
    BY <2>8, MarkStep
  <2>9. CASE Sweep
    BY <2>9, SweepStep
  <2>10. CASE SweepEnds
    BY <2>10, SweepEndsStep
  <2>11. ASSUME NEW name \in Name, CallFun(name)
         PROVE  IInv'
    BY <2>11, CallFunStep
  <2>12. ASSUME NEW name \in Name, RefOut(name)
         PROVE  IInv'
    BY <2>12, RefOutStep
  <2>13. ASSUME NEW name \in Name, Erase(name)
         PROVE  IInv'
    BY <2>13, EraseStep
  <2>14. ASSUME NEW name \in Name, NEW o \in Targets, Var(name, o)
         PROVE  IInv'
    BY <2>14, VarStep
  <2>15. ASSUME NEW name \in Name, NEW o \in Targets, NEW what \in {"object", "named"},
                NewObject(what, o, name)
         PROVE  IInv'
    BY <2>15, NewObjectStep
  <2>16. ASSUME NEW name \in Name, NEW o \in Targets, NEW s \in Slot, RefIn(s, name, o)
         PROVE  IInv'
    BY <2>16, RefInStep
  <2>17. ASSUME NEW name \in Name, NEW o \in Prefixed, NEW kind \in {"fun", "copyfun"},
                NEW inherit \in BOOLEAN, Def(name, o, kind, inherit)
         PROVE  IInv'
    BY <2>17, DefStep
  <2>18. ASSUME NEW name \in Name, NEW o \in Prefixed, SendTo(name, o)
         PROVE  IInv'
    BY <2>18, SendStep DEF SendTo
  <2> QED
    BY <1>1, <2>1, <2>2, <2>3, <2>4, <2>5, <2>6, <2>7, <2>8, <2>9, <2>10, <2>11, <2>12,
       <2>13, <2>14, <2>15, <2>16, <2>17, <2>18 DEF Next
<1>2. CASE UNCHANGED vars
  <2>1. /\ UNCHANGED <<memVars, gStackFrames, gRunningObjects, acts, pc, marked, grey, n,
                       gObjectsInPipe, left, resume>>
    BY <1>2 DEF vars, memVars
  <2>2. TypeOK'
    BY <2>1 DEF IInv, TypeOK, memVars
  <2>3. FreeListExact'
    BY <2>1 DEF IInv, FreeListExact, Items, memVars
  <2>4. Shape'
    BY <2>1 DEF IInv, Shape, Last, Framed
  <2>5. RootsLive' /\ LocalsOwned' /\ SavedLocals' /\ FramesKept' /\ NamesLive'
    BY <2>1 DEF IInv, RootsLive, LocalsOwned, SavedLocals, FramesKept, NamesLive, memVars
  <2>6. MarkedClosed'
    BY <2>1 DEF IInv, MarkedClosed, Roots, Items, Pointers, memVars
  <2> QED
    BY <2>2, <2>3, <2>4, <2>5, <2>6 DEF IInv
<1> QED
  BY <1>1, <1>2

\* The invariant holds always: it is the proof of all that follows.
THEOREM Invariant == Spec => []IInv
<1>1. Init => IInv
  BY InitStep
<1>2. IInv /\ [Next]_vars => IInv'
  BY NextStep
<1> QED
  BY <1>1, <1>2, PTL DEF Spec

\* Every pointer the collector and the interpreter keep is a slot, and every
\* length is in step with the activations of run(), whatever the program does.
THEOREM TypeCorrect == Spec => []TypeOK
<1>1. IInv => TypeOK
  BY DEF IInv
<1> QED
  BY <1>1, Invariant, PTL

\* gc_get_free_object() never hands out a slot that is in use and sweep()
\* never loses one, for pools of any size.
THEOREM FreeListIsExact == Spec => []FreeListExact
<1>1. IInv => FreeListExact
  BY DEF IInv
<1> QED
  BY <1>1, Invariant, PTL

\* No sweep takes a function or a stack frame that run() is using, and
\* recursion to any depth gives a function its own local variables back.
THEOREM FramesAreKept == Spec => []FramesKept
<1>1. IInv => FramesKept
  BY DEF IInv
<1> QED
  BY <1>1, Invariant, PTL

\* What names refer to is in use, and what functions inherit is functions,
\* although a program may name objects by addresses it reads from text.
THEOREM NamesAreLive == Spec => []NamesLive
<1>1. IInv => NamesLive
  BY DEF IInv
<1> QED
  BY <1>1, Invariant, PTL

=============================================================================
