-------------------- MODULE WorkStealingQueueRefinement --------------------
(***************************************************************************)
(* push(), pop() and steal() implement the atomic operations of TaskDeque, *)
(* for every capacity, every set of thieves and every number of pushes.    *)
(***************************************************************************)
EXTENDS WorkStealingQueueProofs, SequenceTheorems

\* n slots of the ring b from position t on, as a sequence.
Window(b, t, n) == [i \in 1..n |-> b[Slot(t + i - 1)]]

\* The deque that the state stands for.
contents == Window(buffer, top, limit - top)

Ring == [0..(Capacity - 1) -> 0..MaxPush]

----------------------------------------------------------------------------
\* A window is a sequence of items of the length asked for.
LEMMA WindowSeq ==
  ASSUME NEW b \in Ring, NEW t \in Nat, NEW n \in Nat
  PROVE  /\ Window(b, t, n) \in Seq(0..MaxPush)
         /\ Len(Window(b, t, n)) = n
         /\ \A i \in 1..n : Window(b, t, n)[i] = b[Slot(t + i - 1)]
<1>1. \A i \in 1..n : b[Slot(t + i - 1)] \in 0..MaxPush
  <2> SUFFICES ASSUME NEW i \in 1..n PROVE b[Slot(t + i - 1)] \in 0..MaxPush
    OBVIOUS
  <2>1. t + i - 1 \in Nat
    OBVIOUS
  <2> QED BY <2>1, SlotType DEF Ring
<1>2. Window(b, t, n) \in [1..n -> 0..MaxPush]
  BY <1>1 DEF Window
<1>3. Window(b, t, n) \in Seq(0..MaxPush)
  BY <1>2, SeqDef
<1>4. Len(Window(b, t, n)) = n
  BY <1>2, <1>3, LenProperties
<1> QED BY <1>3, <1>4 DEF Window

\* An empty window, whatever the ring holds: pop() leaves _bottom below _top
\* until it has restored it.
LEMMA WindowEmpty ==
  ASSUME NEW b, NEW t, NEW n \in Int, n <= 0
  PROVE  Window(b, t, n) = <<>>
<1>1. 1..n = {}
  OBVIOUS
<1> QED BY <1>1 DEF Window

\* The window of a queue that has grown by one slot.
LEMMA WindowAppend ==
  ASSUME NEW b \in Ring, NEW t \in Nat, NEW n \in Nat
  PROVE  Window(b, t, n + 1) = Append(Window(b, t, n), b[Slot(t + n)])
<1> DEFINE w == Window(b, t, n)
           v == Window(b, t, n + 1)
           x == b[Slot(t + n)]
<1>1. w \in Seq(0..MaxPush) /\ Len(w) = n /\ \A i \in 1..n : w[i] = b[Slot(t + i - 1)]
  BY WindowSeq
<1>2. v \in Seq(0..MaxPush) /\ Len(v) = n + 1 /\ \A i \in 1..(n + 1) : v[i] = b[Slot(t + i - 1)]
  BY WindowSeq
<1>3. x \in 0..MaxPush
  <2>1. t + n \in Nat
    OBVIOUS
  <2> QED BY <2>1, SlotType DEF Ring
<1> HIDE DEF w, v
<1>4. /\ Append(w, x) \in Seq(0..MaxPush) /\ Len(Append(w, x)) = n + 1
      /\ \A i \in 1..n : Append(w, x)[i] = w[i]
      /\ Append(w, x)[n + 1] = x
  BY <1>1, <1>3, AppendProperties
<1>5. \A i \in 1..(n + 1) : v[i] = Append(w, x)[i]
  <2> SUFFICES ASSUME NEW i \in 1..(n + 1) PROVE v[i] = Append(w, x)[i]
    OBVIOUS
  <2>1. CASE i \in 1..n
    BY <1>1, <1>2, <1>4, <2>1
  <2>2. CASE i = n + 1
    <3>1. t + i - 1 = t + n
      BY <2>2
    <3> QED BY <1>2, <1>4, <2>2, <3>1
  <2>3. i \in 1..n \/ i = n + 1
    OBVIOUS
  <2> QED BY <2>1, <2>2, <2>3
<1>6. v = Append(w, x)
  BY <1>2, <1>4, <1>5, SeqEqual
<1> QED BY <1>6 DEF w, v

\* Removing the newest item of a window, in the words of TaskDeque.
LEMMA WindowPop ==
  ASSUME NEW b \in Ring, NEW t \in Nat, NEW n \in Nat \ {0}
  PROVE  LET w == Window(b, t, n)
         IN  Window(b, t, n - 1) = SubSeq(w, 1, n - 1) \o SubSeq(w, n + 1, n)
<1> DEFINE w == Window(b, t, n)
           v == Window(b, t, n - 1)
<1>0. n \in Nat /\ n - 1 \in Nat /\ t + 1 \in Nat
  OBVIOUS
<1>1. w \in Seq(0..MaxPush) /\ Len(w) = n /\ \A i \in 1..n : w[i] = b[Slot(t + i - 1)]
  BY <1>0, WindowSeq
<1>2. v \in Seq(0..MaxPush) /\ Len(v) = n - 1 /\ \A i \in 1..(n - 1) : v[i] = b[Slot(t + i - 1)]
  BY <1>0, WindowSeq
<1> HIDE DEF w, v
<1>3. \A i \in 1..(n - 1) : w[i] \in 0..MaxPush
  <2>1. \A i \in 1..(n - 1) : i \in 1..Len(w)
    BY <1>0, <1>1
  <2> QED BY <1>1, <2>1, ElementOfSeq
<1>4. /\ SubSeq(w, 1, n - 1) \in Seq(0..MaxPush) /\ Len(SubSeq(w, 1, n - 1)) = n - 1
      /\ \A i \in 1..(n - 1) : SubSeq(w, 1, n - 1)[i] = w[i]
  BY <1>3, SubSeqProperties
<1>5. SubSeq(w, n + 1, n) = <<>>
  BY SubSeqEmpty
<1>6. SubSeq(w, 1, n - 1) = v
  <2>1. \A i \in 1..(n - 1) : SubSeq(w, 1, n - 1)[i] = v[i]
    <3> SUFFICES ASSUME NEW i \in 1..(n - 1) PROVE SubSeq(w, 1, n - 1)[i] = v[i]
      OBVIOUS
    <3>1. i \in 1..n
      BY <1>0
    <3> QED BY <1>1, <1>2, <1>4, <3>1
  <2> QED BY <1>2, <1>4, <2>1, SeqEqual
<1> QED BY <1>2, <1>5, <1>6, ConcatEmptySeq DEF w, v

\* Removing the oldest item of a window, in the words of TaskDeque.
LEMMA WindowSteal ==
  ASSUME NEW b \in Ring, NEW t \in Nat, NEW n \in Nat \ {0}
  PROVE  LET w == Window(b, t, n)
         IN  Window(b, t + 1, n - 1) = SubSeq(w, 1, 0) \o SubSeq(w, 2, n)
<1> DEFINE w == Window(b, t, n)
           v == Window(b, t + 1, n - 1)
<1>0. n \in Nat /\ n - 1 \in Nat /\ t + 1 \in Nat
  OBVIOUS
<1>1. w \in Seq(0..MaxPush) /\ Len(w) = n /\ \A i \in 1..n : w[i] = b[Slot(t + i - 1)]
  BY <1>0, WindowSeq
<1>2. v \in Seq(0..MaxPush) /\ Len(v) = n - 1 /\ \A i \in 1..(n - 1) : v[i] = b[Slot(t + 1 + i - 1)]
  BY <1>0, WindowSeq
<1> HIDE DEF w, v
<1>3. \A i \in 2..n : w[i] \in 0..MaxPush
  <2>1. \A i \in 2..n : i \in 1..Len(w)
    BY <1>0, <1>1
  <2> QED BY <1>1, <2>1, ElementOfSeq
<1>4. /\ SubSeq(w, 2, n) \in Seq(0..MaxPush) /\ Len(SubSeq(w, 2, n)) = n - 1
      /\ \A i \in 1..(n - 1) : SubSeq(w, 2, n)[i] = w[i + 1]
  BY <1>3, SubSeqProperties
<1>5. SubSeq(w, 1, 0) = <<>>
  BY SubSeqEmpty
<1>6. \A i \in 1..(n - 1) : SubSeq(w, 2, n)[i] = v[i]
  <2> SUFFICES ASSUME NEW i \in 1..(n - 1) PROVE SubSeq(w, 2, n)[i] = v[i]
    OBVIOUS
  <2>1. w[i + 1] = b[Slot(t + (i + 1) - 1)]
    BY <1>1
  <2>2. t + (i + 1) - 1 = t + 1 + i - 1
    OBVIOUS
  <2> QED BY <1>2, <1>4, <2>1, <2>2
<1>7. SubSeq(w, 2, n) = v
  BY <1>2, <1>4, <1>6, SeqEqual
<1> QED BY <1>2, <1>5, <1>7, ConcatEmptySeq DEF w, v

----------------------------------------------------------------------------
Stutter == UNCHANGED <<contents, takes>>
DequeStep == Deque!Next \/ Stutter

\* What the operations of TaskDeque do to the mapped deque.
TakesAt(i) ==
  /\ contents # <<>>
  /\ takes' = [takes EXCEPT ![contents[i]] = @ + 1]
  /\ contents' = SubSeq(contents, 1, i - 1) \o SubSeq(contents, i + 1, Len(contents))

\* The operations of TaskDeque under the refinement mapping.
LEMMA Mapped ==
  /\ TakesAt(Len(contents)) => Deque!Pop
  /\ TakesAt(1) => Deque!Steal
  /\ \A x \in 1..MaxPush :
       Len(contents) < Capacity /\ contents' = Append(contents, x) /\ takes' = takes => Deque!Push(x)
BY DEF TakesAt, Deque!Pop, Deque!Steal, Deque!Push, Deque!TakeFrom, contents, Window

\* A step that moves no pointer and takes nothing changes nothing in TaskDeque.
LEMMA SameDeque ==
  ASSUME UNCHANGED <<buffer, top, takes>>, limit' = limit
  PROVE  Stutter
BY DEF Stutter, contents, Window, Slot

\* Nor does one that leaves the queue empty.
LEMMA StillEmpty ==
  ASSUME limit \in Int, limit' \in Int, top \in Int, top' \in Int, limit <= top, limit' <= top',
         takes' = takes
  PROVE  Stutter
<1>1. contents = <<>>
  BY WindowEmpty DEF contents
<1>2. Window(buffer', top', limit' - top') = <<>>
  BY WindowEmpty
<1>3. contents' = Window(buffer', top', limit' - top')
  BY DEF contents, Window, Slot
<1> QED BY <1>1, <1>2, <1>3 DEF Stutter

\* Taking the oldest item is TaskDeque's Steal.
LEMMA TakesOldest ==
  ASSUME TypeOK, top < limit, limit \in Nat, Take(buffer[Slot(top)]),
         contents' = Window(buffer, top + 1, limit - top - 1)
  PROVE  Deque!Steal
<1> DEFINE n == limit - top
<1>1. n \in Nat \ {0} /\ top \in Nat /\ buffer \in Ring
  BY DEF TypeOK, Ring
<1>2. contents' = Window(buffer, top + 1, n - 1)
  OBVIOUS
<1>3. contents = Window(buffer, top, n)
  BY DEF contents
<1> HIDE DEF n
<1>4. Len(contents) = n /\ contents[1] = buffer[Slot(top)]
  <2>1. 1 \in 1..n /\ top + 1 - 1 = top /\ n \in Nat
    BY <1>1
  <2>2. Len(Window(buffer, top, n)) = n /\ Window(buffer, top, n)[1] = buffer[Slot(top + 1 - 1)]
    BY <1>1, <2>1, WindowSeq
  <2> QED BY <1>3, <2>1, <2>2
<1>5. contents' = SubSeq(contents, 1, 0) \o SubSeq(contents, 2, n)
  BY <1>1, <1>2, <1>3, WindowSteal
<1>6. contents # <<>>
  BY <1>1, <1>4
<1>7. TakesAt(1)
  BY <1>4, <1>5, <1>6 DEF TakesAt, Take
<1> QED BY <1>7, Mapped

\* Taking the newest item is TaskDeque's Pop.
LEMMA TakesNewest ==
  ASSUME TypeOK, top < limit, limit \in Nat, limit' = limit - 1, UNCHANGED <<buffer, top>>,
         Take(buffer[Slot(limit - 1)])
  PROVE  Deque!Pop
<1> DEFINE n == limit - top
<1>1. n \in Nat \ {0} /\ top \in Nat /\ buffer \in Ring
  BY DEF TypeOK, Ring
<1>2. contents' = Window(buffer, top, n - 1)
  <2>1. limit' - top' = n - 1
    BY <1>1
  <2> QED BY <2>1 DEF contents, Window, Slot
<1>3. contents = Window(buffer, top, n) /\ top + n - 1 = limit - 1
  BY <1>1 DEF contents
<1> HIDE DEF n
<1>4. Len(contents) = n /\ contents[n] = buffer[Slot(limit - 1)]
  <2>1. n \in 1..n /\ n \in Nat
    BY <1>1
  <2>2. Len(Window(buffer, top, n)) = n /\ Window(buffer, top, n)[n] = buffer[Slot(top + n - 1)]
    BY <1>1, <2>1, WindowSeq
  <2> QED BY <1>3, <2>2
<1>5. contents' = SubSeq(contents, 1, n - 1) \o SubSeq(contents, n + 1, n)
  BY <1>1, <1>2, <1>3, WindowPop
<1>6. contents # <<>>
  BY <1>1, <1>4
<1>7. TakesAt(Len(contents))
  BY <1>4, <1>5, <1>6 DEF TakesAt, Take
<1> QED BY <1>7, Mapped

\* push() writes its slot before anybody can see it.
LEMMA PushWriteRefines == ASSUME IInv, PushWrite PROVE Stutter
<1>1. PICK t \in ownerTop..top : PushWrite!3!(t)
  BY DEF PushWrite
<1>2. opc = "idle" /\ UNCHANGED <<bottom, top, takes>> /\ bottom \in Nat /\ top \in Nat /\ t \in Nat
  BY DEF PushWrite, IInv, TypeOK
<1>3. CASE PushFull(t)
  BY <1>1, <1>2, <1>3, SameDeque DEF limit
<1>4. CASE ~PushFull(t)
  <2>1. buffer' = [buffer EXCEPT ![Slot(bottom)] = npush'] /\ opc' = "pushStore"
    BY <1>1, <1>4
  <2>2. limit = bottom /\ limit' = bottom
    BY <1>2, <2>1 DEF limit
  <2>3. bottom < top + Capacity
    BY <1>1, <1>2, <1>4, CapacityAssumption DEF PushFull
  <2>4. \A i \in 1..(bottom - top) : buffer'[Slot(top + i - 1)] = buffer[Slot(top + i - 1)]
    <3> SUFFICES ASSUME NEW i \in 1..(bottom - top)
                 PROVE  buffer'[Slot(top + i - 1)] = buffer[Slot(top + i - 1)]
      OBVIOUS
    <3>1. /\ top + i - 1 \in Nat /\ top + i - 1 # bottom
          /\ top + i - 1 < bottom + Capacity /\ bottom < top + i - 1 + Capacity
      BY <1>2, <2>3, CapacityAssumption
    <3>2. Slot(top + i - 1) # Slot(bottom) /\ Slot(top + i - 1) \in 0..(Capacity - 1)
      BY <1>2, <3>1, SlotInjective, SlotType
    <3> QED BY <2>1, <3>2 DEF IInv, TypeOK
  <2>5. contents' = contents
    BY <1>2, <2>2, <2>4 DEF contents, Window, Slot
  <2> QED BY <1>2, <2>5 DEF Stutter
<1> QED BY <1>3, <1>4

\* push() takes effect at its store of _bottom.
LEMMA PushStoreRefines == ASSUME IInv, PushStore PROVE \E x \in 1..MaxPush : Deque!Push(x)
<1> DEFINE n == limit - top
           x == buffer[Slot(bottom)]
<1>1. /\ opc = "pushStore" /\ opc' = "idle" /\ bottom' = bottom + 1
      /\ UNCHANGED <<top, buffer, takes>>
  BY DEF PushStore, StoreBottom
<1>2. /\ limit = bottom /\ limit' = bottom + 1 /\ heldLimit = bottom + 1
      /\ bottom \in Nat /\ top \in Nat /\ buffer \in Ring
  BY <1>1 DEF limit, heldLimit, IInv, TypeOK, Ring
<1>3. n \in Nat /\ n < Capacity /\ limit' - top' = n + 1 /\ top + n = bottom
  BY <1>1, <1>2, CapacityAssumption DEF IInv, Shape
<1>4. x \in 1..MaxPush
  <2>1. bottom \in Held
    BY <1>2, <1>3 DEF Held
  <2> QED BY <2>1, MaxPushAssumption DEF IInv, Contents, TypeOK
<1>5. contents = Window(buffer, top, n) /\ contents' = Window(buffer, top, n + 1)
  BY <1>1, <1>3 DEF contents, Window, Slot
<1> HIDE DEF n
<1>6. Len(contents) = n /\ contents' = Append(contents, x)
  BY <1>2, <1>3, <1>5, WindowSeq, WindowAppend
<1>7. Deque!Push(x)
  BY <1>1, <1>3, <1>4, <1>6, Mapped
<1> QED BY <1>4, <1>7

\* pop() takes effect at its second load of _top, or at its CAS.
LEMMA PopRefines ==
  ASSUME IInv, PopStore \/ PopFence \/ PopLoad \/ PopCas \/ PopRestore
  PROVE  DequeStep
<1>0. bottom \in Nat /\ top \in Nat /\ limit \in Nat
  BY DEF IInv, TypeOK, limit
<1>1. CASE PopStore
  <2>1. PICK t \in ownerTop..top : PopStore!2!(t)
    BY <1>1 DEF PopStore
  <2>2. opc = "idle" /\ UNCHANGED <<top, buffer, takes>>
    BY <1>1 DEF PopStore
  <2>3. limit' = limit
    BY <1>0, <2>1, <2>2 DEF StoreBottom, limit
  <2> QED BY <2>2, <2>3, SameDeque DEF DequeStep
<1>2. CASE PopFence
  <2>1. UNCHANGED <<top, buffer, takes>> /\ limit' = limit
    BY <1>2 DEF PopFence, limit
  <2> QED BY <2>1, SameDeque DEF DequeStep
<1>3. CASE PopLoad
  <2>1. opc = "popLoad" /\ limit = bottom + 1 /\ UNCHANGED <<bottom, top, buffer>>
    BY <1>3 DEF PopLoad, limit
  <2>2. CASE top > bottom
    <3>1. takes' = takes /\ limit' = bottom
      BY <1>0, <1>3, <2>1, <2>2 DEF PopLoad, limit
    <3> QED BY <1>0, <2>1, <2>2, <3>1, StillEmpty DEF DequeStep
  <2>3. CASE top < bottom
    <3>1. Take(buffer[Slot(bottom)]) /\ limit' = bottom
      BY <1>0, <1>3, <2>1, <2>3 DEF PopLoad, limit
    <3>2. Deque!Pop
      BY <1>0, <2>1, <2>3, <3>1, TakesNewest DEF IInv
    <3> QED BY <3>2 DEF DequeStep, Deque!Next
  <2>4. CASE top = bottom
    <3>1. takes' = takes /\ limit' = limit
      BY <1>0, <1>3, <2>1, <2>4 DEF PopLoad, limit
    <3> QED BY <2>1, <3>1, SameDeque DEF DequeStep
  <2> QED BY <1>0, <2>2, <2>3, <2>4
<1>4. CASE PopCas
  <2>1. opc = "popCas" /\ limit = bottom + 1 /\ limit' = bottom /\ UNCHANGED <<bottom, buffer>>
    BY <1>4 DEF PopCas, limit
  <2>2. CASE top = bottom
    <3>1. top' = top + 1 /\ Take(buffer[Slot(top)])
      BY <1>4, <2>2 DEF PopCas
    <3>2. Deque!Steal
      <4>1. top < limit
        BY <1>0, <2>1, <2>2
      <4>2. contents' = <<>>
        <5>1. Window(buffer', top', limit' - top') = <<>>
          BY <1>0, <2>1, <2>2, <3>1, WindowEmpty
        <5> QED BY <5>1 DEF contents, Window, Slot
      <4>3. Window(buffer, top + 1, limit - top - 1) = <<>>
        BY <1>0, <2>1, <2>2, WindowEmpty
      <4> QED BY <1>0, <2>1, <3>1, <4>1, <4>2, <4>3, TakesOldest DEF IInv
    <3> QED BY <3>2 DEF DequeStep, Deque!Next
  <2>3. CASE top # bottom
    <3>1. top' = top /\ takes' = takes
      BY <1>4, <2>3 DEF PopCas
    <3>2. top = bottom + 1
      BY <1>0, <2>1, <2>3 DEF IInv, Shape
    <3> QED BY <1>0, <2>1, <3>1, <3>2, StillEmpty DEF DequeStep
  <2> QED BY <2>2, <2>3
<1>5. CASE PopRestore
  <2>1. opc = "popRestore" /\ limit = bottom /\ limit' = bottom + 1 /\ UNCHANGED <<top, takes>>
    BY <1>5 DEF PopRestore, StoreBottom, limit
  <2>2. top = bottom + 1
    BY <2>1 DEF IInv, Shape
  <2> QED BY <1>0, <2>1, <2>2, StillEmpty DEF DequeStep
<1> QED BY <1>1, <1>2, <1>3, <1>4, <1>5

\* steal() takes effect at its CAS.
LEMMA StealRefines ==
  ASSUME IInv, NEW h \in Thieves, Steal(h)
  PROVE  DequeStep
<1>1. CASE StealCas(h)
  <2>1. /\ tpc[h] = "cas" /\ tt[h] = top /\ top' = top + 1 /\ Take(tval[h])
        /\ UNCHANGED <<bottom, buffer, opc>>
    BY <1>1 DEF StealCas
  <2>2. top < limit /\ tval[h] = buffer[Slot(top)]
    BY <2>1 DEF IInv, ThiefOK
  <2>3. limit' = limit /\ limit \in Nat /\ top \in Nat
    BY <2>1 DEF limit, IInv, TypeOK
  <2>4. contents' = Window(buffer, top + 1, limit - top - 1)
    <3>1. limit' - top' = limit - top - 1
      BY <2>1, <2>3
    <3> QED BY <2>1, <3>1 DEF contents, Window, Slot
  <2>5. Deque!Steal
    BY <2>1, <2>2, <2>3, <2>4, TakesOldest DEF IInv
  <2> QED BY <2>5 DEF DequeStep, Deque!Next
<1>2. CASE ~StealCas(h)
  <2>1. UNCHANGED <<top, buffer, takes, bottom, opc>>
    BY <1>2 DEF Steal, StealBegin, StealCheck, StealRead, StealCasFail
  <2> QED BY <2>1, SameDeque DEF DequeStep, limit
<1> QED BY <1>1, <1>2

\* Every step is a step of TaskDeque or changes nothing in it.
LEMMA StepRefines == ASSUME IInv, [Next]_vars PROVE DequeStep
<1>1. CASE Propagate \/ UNCHANGED vars
  <2>1. UNCHANGED <<top, buffer, takes>> /\ limit' = limit
    BY <1>1 DEF Propagate, vars, limit
  <2> QED BY <2>1, SameDeque DEF DequeStep
<1>2. CASE PushWrite
  BY <1>2, PushWriteRefines DEF DequeStep
<1>3. CASE PushStore
  BY <1>3, PushStoreRefines DEF DequeStep, Deque!Next
<1> QED BY <1>1, <1>2, <1>3, PopRefines, StealRefines DEF Next, Owner

\* The queue starts as the empty deque.
LEMMA InitRefines == Init => Deque!Init
<1> SUFFICES ASSUME Init PROVE Deque!Init
  OBVIOUS
<1>1. limit = 1 /\ top = 1
  BY DEF Init, limit
<1>2. contents = <<>>
  BY <1>1, WindowEmpty DEF contents
<1> QED BY <1>2 DEF Deque!Init, Init, Items, contents, Window

\* push(), pop() and steal() implement an atomic deque, for every capacity and
\* every number of thieves: the relaxed and stale accesses around their
\* linearisation points cannot be observed.
THEOREM Refinement == Spec => ImplementsDeque
<1>1. IInv /\ [Next]_vars =>
        [Deque!Next]_<<[i \in 1..(limit - top) |-> buffer[Slot(top + i - 1)]], takes>>
  BY StepRefines DEF DequeStep, Stutter, contents, Window
<1> QED BY InitRefines, Initial, Inductive, <1>1, PTL DEF Spec, ImplementsDeque, Deque!Spec
============================================================================
