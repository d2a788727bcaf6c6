---------------------- MODULE WorkStealingQueueProofs ----------------------
(***************************************************************************)
(* WorkStealingQueue runs no task twice and loses none, for every          *)
(* capacity, every set of thieves and every number of pushes.              *)
(***************************************************************************)
EXTENDS WorkStealingQueue, TLAPS

\* The positions whose slot holds an item of the queue, the one push() has
\* written but not published included.
heldLimit == IF opc = "pushStore" THEN bottom + 1 ELSE limit
Held == top..(heldLimit - 1)

\* _top and _bottom: the queue never exceeds the ring, and only a pop() that
\* found it empty leaves _bottom below _top.
Shape ==
  /\ ownerTop <= top
  /\ heldLimit <= top + Capacity
  /\ opc # "popRestore" => top <= limit
  /\ opc = "popRestore" => top = bottom + 1
  /\ opc = "popCas" => bottom <= top

\* What a thief may read of _bottom; the fence of pop() makes it at most newb.
VisibleOK ==
  /\ \A v \in visible : v <= limit
  /\ opc \in {"popLoad", "popCas", "popRestore"} => \A v \in visible : v <= bottom

\* A thief whose CAS would succeed is about to take a live item.
ThiefOK ==
  \A h \in Thieves :
    /\ tt[h] <= top
    /\ tpc[h] \in {"read", "cas"} /\ tt[h] = top => top < limit
    /\ tpc[h] = "cas" /\ tt[h] = top => tval[h] = buffer[Slot(top)]

\* The held slots contain distinct items nobody has taken.
Contents ==
  /\ \A i \in Held : buffer[Slot(i)] \in 1..npush /\ takes[buffer[Slot(i)]] = 0
  /\ \A i, j \in Held : buffer[Slot(i)] = buffer[Slot(j)] => i = j
  /\ \A x \in Items : x > npush => takes[x] = 0

Accounted ==
  \A x \in 1..npush : takes[x] = 0 => \E i \in Held : buffer[Slot(i)] = x

IInv == TypeOK /\ Shape /\ VisibleOK /\ ThiefOK /\ Contents /\ Accounted /\ NoItemTakenTwice

----------------------------------------------------------------------------
\* The slot of a position is an index of _buffer.
LEMMA SlotType == ASSUME NEW i \in Nat PROVE Slot(i) \in 0..(Capacity - 1)
  BY CapacityAssumption DEF Slot

\* Two positions less than a ring apart never share a slot of _buffer.
LEMMA SlotInjective ==
  ASSUME NEW i \in Nat, NEW j \in Nat, i < j + Capacity, j < i + Capacity, Slot(i) = Slot(j)
  PROVE  i = j
<1> DEFINE a == i \div Capacity
           b == j \div Capacity
<1>1. a \in Int /\ b \in Int /\ Capacity \in Nat /\ Capacity > 0
  BY CapacityAssumption
<1>2. i = Capacity * a + Slot(i) /\ j = Capacity * b + Slot(j)
  BY CapacityAssumption DEF Slot
<1>3. Slot(i) \in Int /\ Slot(j) \in Int
  BY SlotType
<1> HIDE DEF a, b
<1>4. ~(a > b)
  <2> SUFFICES ASSUME a >= b + 1 PROVE FALSE
    BY <1>1
  <2>1. Capacity * a >= Capacity * (b + 1)
    BY <1>1
  <2>2. Capacity * (b + 1) = Capacity * b + Capacity
    BY <1>1
  <2> QED BY <1>1, <1>2, <1>3, <2>1, <2>2
<1>5. ~(b > a)
  <2> SUFFICES ASSUME b >= a + 1 PROVE FALSE
    BY <1>1
  <2>1. Capacity * b >= Capacity * (a + 1)
    BY <1>1
  <2>2. Capacity * (a + 1) = Capacity * a + Capacity
    BY <1>1
  <2> QED BY <1>1, <1>2, <1>3, <2>1, <2>2
<1>6. a = b
  BY <1>1, <1>4, <1>5
<1> QED BY <1>2, <1>6

\* Returning an item to a worker keeps the type of the counts.
LEMMA TakeType ==
  ASSUME takes \in [Items -> Nat], NEW x, Take(x)
  PROVE  takes' \in [Items -> Nat]
<1>1. \A y \in Items : takes'[y] \in Nat
  BY DEF Take
<1> QED BY <1>1 DEF Take

\* The types of the variables are preserved by every step of push(), pop() and
\* steal(), without any other part of the invariant.
LEMMA Typing == TypeOK /\ [Next]_vars => TypeOK'
<1> SUFFICES ASSUME TypeOK, [Next]_vars PROVE TypeOK'
  OBVIOUS
<1> USE CapacityAssumption, MaxPushAssumption DEF TypeOK, Items
<1>1. CASE PushWrite
  <2>1. PICK t \in ownerTop..top : PushWrite!3!(t)
    BY <1>1 DEF PushWrite
  <2>2. CASE PushFull(t)
    BY <1>1, <2>1, <2>2 DEF PushWrite, thiefVars
  <2>3. CASE ~PushFull(t)
    <3>1. npush' \in 0..MaxPush
      BY <1>1, <2>1, <2>3 DEF PushWrite
    <3>2. buffer' \in [0..(Capacity - 1) -> 0..MaxPush]
      BY <2>1, <2>3, <3>1
    <3> QED BY <1>1, <2>1, <2>3, <3>1, <3>2 DEF PushWrite, thiefVars
  <2> QED BY <2>2, <2>3
<1>2. CASE PushStore
  BY <1>2 DEF PushStore, StoreBottom, thiefVars
<1>3. CASE PopStore
  <2>1. PICK t \in ownerTop..top : PopStore!2!(t)
    BY <1>3 DEF PopStore
  <2>2. t \in Nat
    OBVIOUS
  <2>3. CASE t >= bottom
    BY <1>3, <2>1, <2>2, <2>3 DEF PopStore, thiefVars
  <2>4. CASE ~(t >= bottom)
    <3>1. bottom' \in Nat /\ visible' \in SUBSET Nat
      <4>1. bottom \in Nat /\ bottom - 1 \in Nat
        BY <2>2, <2>4
      <4>2. bottom' = bottom - 1 /\ visible' = visible \cup {bottom - 1}
        BY <2>1, <2>4 DEF StoreBottom
      <4> QED BY <4>1, <4>2
    <3> QED BY <1>3, <2>1, <2>2, <2>4, <3>1 DEF PopStore, thiefVars
  <2> QED BY <2>3, <2>4
<1>4. CASE PopFence
  BY <1>4 DEF PopFence, Fence, thiefVars
<1>5. CASE PopLoad
  BY <1>5, TakeType DEF PopLoad, thiefVars
<1>6. CASE PopCas
  <2>1. CASE top = bottom
    BY <1>6, <2>1, TakeType DEF PopCas, thiefVars
  <2>2. CASE top # bottom
    BY <1>6, <2>2 DEF PopCas, thiefVars
  <2> QED BY <2>1, <2>2
<1>7. CASE PopRestore
  BY <1>7 DEF PopRestore, StoreBottom, thiefVars
<1>8. CASE Propagate
  BY <1>8 DEF Propagate, thiefVars
<1>9. ASSUME NEW h \in Thieves, Steal(h) PROVE TypeOK'
  <2>1. CASE StealBegin(h)
    BY <2>1 DEF StealBegin
  <2>2. CASE StealCheck(h)
    BY <2>2 DEF StealCheck
  <2>3. CASE StealRead(h)
    BY <2>3, SlotType DEF StealRead
  <2>4. CASE StealCas(h)
    BY <2>4, TakeType DEF StealCas
  <2>5. CASE StealCasFail(h)
    BY <2>5 DEF StealCasFail
  <2> QED BY <1>9, <2>1, <2>2, <2>3, <2>4, <2>5 DEF Steal
<1>10. CASE UNCHANGED vars
  BY <1>10 DEF vars
<1> QED BY <1>1, <1>2, <1>3, <1>4, <1>5, <1>6, <1>7, <1>8, <1>9, <1>10 DEF Next, Owner

Holds == Contents /\ Accounted /\ NoItemTakenTwice

\* A step that leaves the held slots and the counts alone keeps the contents.
LEMMA SameItems ==
  ASSUME Holds, Held' = Held, UNCHANGED <<buffer, takes, npush>>
  PROVE  Holds'
  BY DEF Holds, Contents, Accounted, NoItemTakenTwice, Slot

\* A step that takes the item of one held position, and removes that position
\* from the queue, keeps the contents.
LEMMA TakeOne ==
  ASSUME TypeOK, TypeOK', Holds, NEW p \in Held, Take(buffer[Slot(p)]),
         Held' = Held \ {p}, UNCHANGED <<buffer, npush>>
  PROVE  Holds'
<1> DEFINE x == buffer[Slot(p)]
<1>1. x \in 1..npush /\ x \in Items /\ takes[x] = 0
  BY MaxPushAssumption DEF Holds, Contents, TypeOK, Items
<1>2. takes'[x] = 1 /\ \A y \in Items : y # x => takes'[y] = takes[y]
  BY <1>1 DEF Take, TypeOK
<1>3. \A i \in Held' : buffer'[Slot(i)] = buffer[Slot(i)] /\ buffer[Slot(i)] # x
  BY DEF Holds, Contents
<1>4. \A i \in Held' : buffer[Slot(i)] \in 1..npush /\ buffer[Slot(i)] \in Items
  BY MaxPushAssumption DEF Holds, Contents, TypeOK, Items
<1> HIDE DEF x
<1>5. Contents'
  BY <1>1, <1>2, <1>3, <1>4 DEF Holds, Contents, TypeOK, Items, Slot
<1>6. Accounted'
  <2> SUFFICES ASSUME NEW y \in 1..npush, takes'[y] = 0
               PROVE  \E i \in Held' : buffer[Slot(i)] = y
    BY DEF Accounted, Slot
  <2>1. y # x /\ y \in Items
    BY <1>2, MaxPushAssumption DEF TypeOK, Items
  <2>2. PICK i \in Held : buffer[Slot(i)] = y
    BY <1>2, <2>1 DEF Holds, Accounted
  <2>3. i # p
    BY <2>1, <2>2 DEF x
  <2> QED BY <2>2, <2>3
<1>7. NoItemTakenTwice'
  BY <1>1, <1>2 DEF Holds, NoItemTakenTwice, Items
<1> QED BY <1>5, <1>6, <1>7 DEF Holds

Pointers == Shape /\ VisibleOK /\ ThiefOK

\* push() up to the write of the slot keeps the invariant.
LEMMA PushWriteStep == ASSUME IInv, TypeOK', PushWrite PROVE Pointers' /\ Holds'
<1> USE CapacityAssumption, MaxPushAssumption
<1>1. PICK t \in ownerTop..top : PushWrite!3!(t)
  BY DEF PushWrite
<1>2. opc = "idle" /\ npush < MaxPush /\ UNCHANGED <<bottom, visible, top, tpc, tt, tval, takes>>
  BY DEF PushWrite, thiefVars
<1>3. CASE PushFull(t)
  <2>1. UNCHANGED <<buffer, opc, npush>> /\ ownerTop' = t /\ t \in Nat /\ t <= top
    BY <1>1, <1>3 DEF IInv, TypeOK
  <2>2. Held' = Held /\ limit' = limit /\ heldLimit' = heldLimit
    BY <1>2, <2>1 DEF Held, heldLimit, limit
  <2>3. Pointers'
    BY <1>2, <2>1, <2>2 DEF IInv, TypeOK, Pointers, Shape, VisibleOK, ThiefOK, Slot
  <2>4. Holds'
    BY <1>2, <2>1, <2>2, SameItems DEF IInv, Holds
  <2> QED BY <2>3, <2>4
<1>4. CASE ~PushFull(t)
  <2>1. /\ npush' = npush + 1 /\ opc' = "pushStore" /\ ownerTop' = t /\ t \in Nat /\ t <= top
        /\ buffer' = [buffer EXCEPT ![Slot(bottom)] = npush + 1]
    BY <1>1, <1>4 DEF IInv, TypeOK
  <2>2. bottom < t + Capacity /\ bottom < top + Capacity /\ bottom \in Nat /\ top \in Nat
    BY <1>1, <1>4, <2>1 DEF PushFull, IInv, TypeOK
  <2>3. limit = bottom /\ limit' = bottom /\ heldLimit = bottom /\ heldLimit' = bottom + 1
    BY <1>2, <2>1 DEF heldLimit, limit
  <2>4. top <= bottom
    BY <1>2, <2>3 DEF IInv, Shape
  <2>5. Held = top..(bottom - 1) /\ Held' = Held \cup {bottom} /\ bottom \notin Held
    BY <1>2, <2>2, <2>3, <2>4 DEF Held
  <2>6. \A i \in Held : Slot(i) # Slot(bottom) /\ Slot(i) \in 0..(Capacity - 1)
    <3> SUFFICES ASSUME NEW i \in Held PROVE Slot(i) # Slot(bottom) /\ Slot(i) \in 0..(Capacity - 1)
      OBVIOUS
    <3>1. i \in Nat /\ i < bottom /\ i >= top
      BY <2>2, <2>5
    <3>2. i < bottom + Capacity /\ bottom < i + Capacity
      BY <2>2, <3>1
    <3> QED BY <2>2, <3>1, <3>2, SlotInjective, SlotType
  <2>7. \A i \in Held : buffer'[Slot(i)] = buffer[Slot(i)]
    BY <2>1, <2>6 DEF IInv, TypeOK
  <2>8. buffer'[Slot(bottom)] = npush + 1
    BY <2>1, <2>2, SlotType DEF IInv, TypeOK
  <2>9. Pointers'
    <3>1. Shape'
      BY <1>2, <2>1, <2>2, <2>3, <2>4 DEF Shape
    <3>2. VisibleOK'
      BY <1>2, <2>1, <2>3 DEF IInv, VisibleOK
    <3>3. ThiefOK'
      <4>1. top < limit => top \in Held
        BY <2>2, <2>3, <2>5
      <4> QED BY <1>2, <2>1, <2>3, <2>7, <4>1 DEF IInv, ThiefOK, Slot
    <3> QED BY <3>1, <3>2, <3>3 DEF Pointers
  <2>10. Contents'
    <3>1. npush \in Nat /\ npush + 1 \in Items
      BY <1>2 DEF IInv, TypeOK, Items
    <3>2. takes[npush + 1] = 0
      BY <3>1 DEF IInv, Contents
    <3>3. \A i \in Held : buffer[Slot(i)] \in 1..npush /\ takes[buffer[Slot(i)]] = 0
      BY DEF IInv, Contents
    <3>4. \A i \in Held' : buffer'[Slot(i)] \in 1..npush' /\ takes'[buffer'[Slot(i)]] = 0
      BY <1>2, <2>1, <2>5, <2>7, <2>8, <3>1, <3>2, <3>3
    <3>5. \A i, j \in Held' : buffer'[Slot(i)] = buffer'[Slot(j)] => i = j
      BY <2>5, <2>7, <2>8, <3>1, <3>3 DEF IInv, Contents
    <3>6. \A x \in Items : x > npush' => takes'[x] = 0
      BY <1>2, <2>1, <3>1 DEF IInv, Contents, Items
    <3> QED BY <3>4, <3>5, <3>6 DEF Contents, Slot
  <2>11. Accounted'
    <3> SUFFICES ASSUME NEW x \in 1..(npush + 1), takes[x] = 0
                 PROVE  \E i \in Held' : buffer'[Slot(i)] = x
      BY <1>2, <2>1 DEF Accounted, Slot
    <3>1. CASE x = npush + 1
      BY <2>5, <2>8, <3>1
    <3>2. CASE x # npush + 1
      <4>1. x \in 1..npush
        BY <3>2 DEF IInv, TypeOK
      <4>2. PICK i \in Held : buffer[Slot(i)] = x
        BY <4>1 DEF IInv, Accounted
      <4> QED BY <2>5, <2>7, <4>2
    <3> QED BY <3>1, <3>2
  <2>12. NoItemTakenTwice'
    BY <1>2 DEF IInv, NoItemTakenTwice
  <2> QED BY <2>9, <2>10, <2>11, <2>12 DEF Holds
<1> QED BY <1>3, <1>4

\* Publishing the new item keeps the invariant.
LEMMA PushStoreStep == ASSUME IInv, TypeOK', PushStore PROVE Pointers' /\ Holds'
<1> USE CapacityAssumption
<1>1. /\ opc = "pushStore" /\ opc' = "idle" /\ bottom' = bottom + 1
      /\ visible' = visible \cup {bottom + 1}
      /\ UNCHANGED <<top, ownerTop, buffer, tpc, tt, tval, npush, takes>>
  BY DEF PushStore, StoreBottom, thiefVars
<1>2. limit = bottom /\ limit' = bottom + 1 /\ heldLimit' = heldLimit /\ Held' = Held
  BY <1>1 DEF limit, heldLimit, Held
<1>3. Pointers'
  BY <1>1, <1>2 DEF IInv, TypeOK, Pointers, Shape, VisibleOK, ThiefOK, Slot
<1>4. Holds'
  BY <1>1, <1>2, SameItems DEF IInv, Holds
<1> QED BY <1>3, <1>4

\* pop() up to the store of newb keeps the invariant: newb still belongs to
\* the queue.
LEMMA PopStoreStep == ASSUME IInv, TypeOK', PopStore PROVE Pointers' /\ Holds'
<1> USE CapacityAssumption
<1>1. PICK t \in ownerTop..top : PopStore!2!(t)
  BY DEF PopStore
<1>2. opc = "idle" /\ UNCHANGED <<top, buffer, tpc, tt, tval, npush, takes>>
  BY DEF PopStore, thiefVars
<1>3. ownerTop' = t /\ t \in Nat /\ t <= top
  BY <1>1 DEF IInv, TypeOK
<1>4. CASE t >= bottom
  <2>1. UNCHANGED <<bottom, visible, opc>>
    BY <1>1, <1>4
  <2>2. limit' = limit /\ heldLimit' = heldLimit /\ Held' = Held
    BY <1>2, <2>1 DEF limit, heldLimit, Held
  <2> QED BY <1>2, <1>3, <2>1, <2>2, SameItems
       DEF IInv, Holds, TypeOK, Pointers, Shape, VisibleOK, ThiefOK, Slot
<1>5. CASE ~(t >= bottom)
  <2>1. bottom' = bottom - 1 /\ visible' = visible \cup {bottom - 1} /\ opc' = "popFence"
    BY <1>1, <1>5 DEF StoreBottom
  <2>2. bottom \in Nat
    BY DEF IInv, TypeOK
  <2>3. limit' = limit /\ limit = bottom /\ heldLimit' = heldLimit /\ Held' = Held
    BY <1>2, <2>1, <2>2 DEF limit, heldLimit, Held
  <2>4. Pointers'
    BY <1>2, <1>3, <2>1, <2>2, <2>3
       DEF IInv, TypeOK, Pointers, Shape, VisibleOK, ThiefOK, Slot
  <2> QED BY <1>2, <2>3, <2>4, SameItems DEF IInv, Holds
<1> QED BY <1>4, <1>5

\* The fence of pop() keeps the invariant; from here on no thief reads more
\* than newb.
LEMMA PopFenceStep == ASSUME IInv, TypeOK', PopFence PROVE Pointers' /\ Holds'
<1>1. /\ opc = "popFence" /\ opc' = "popLoad" /\ visible' = {bottom}
      /\ UNCHANGED <<bottom, top, ownerTop, buffer, tpc, tt, tval, npush, takes>>
  BY DEF PopFence, Fence, thiefVars
<1>2. limit' = limit /\ limit = bottom + 1 /\ heldLimit' = heldLimit /\ Held' = Held
  BY <1>1 DEF limit, heldLimit, Held
<1>3. Pointers'
  BY <1>1, <1>2 DEF IInv, TypeOK, Pointers, Shape, VisibleOK, ThiefOK, Slot
<1> QED BY <1>1, <1>2, <1>3, SameItems DEF IInv, Holds

\* The second load of _top keeps the invariant: when it is below newb the last
\* item is the owner's, and no thief can still reach it.
LEMMA PopLoadStep == ASSUME IInv, TypeOK', PopLoad PROVE Pointers' /\ Holds'
<1>1. /\ opc = "popLoad" /\ ownerTop' = top
      /\ UNCHANGED <<bottom, visible, top, buffer, tpc, tt, tval, npush>>
  BY DEF PopLoad, thiefVars
<1>2. bottom \in Nat /\ top \in Nat /\ limit = bottom + 1 /\ heldLimit = bottom + 1
  BY <1>1 DEF IInv, TypeOK, limit, heldLimit
<1>3. top <= bottom + 1 /\ bottom + 1 <= top + Capacity
  BY <1>1, <1>2 DEF IInv, Shape
<1>4. CASE top > bottom
  <2>1. opc' = "popRestore" /\ takes' = takes
    BY <1>2, <1>4 DEF PopLoad
  <2>2. limit' = bottom /\ heldLimit' = bottom /\ Held' = {} /\ Held = {}
    BY <1>1, <1>2, <1>3, <1>4, <2>1 DEF limit, heldLimit, Held
  <2>3. Pointers'
    BY <1>1, <1>2, <1>3, <1>4, <2>1, <2>2, CapacityAssumption
       DEF IInv, TypeOK, Pointers, Shape, VisibleOK, ThiefOK, Slot
  <2> QED BY <1>1, <2>1, <2>2, <2>3, SameItems DEF IInv, Holds
<1>5. CASE top < bottom
  <2>1. opc' = "idle" /\ Take(buffer[Slot(bottom)])
    BY <1>2, <1>5 DEF PopLoad
  <2>2. limit' = bottom /\ heldLimit' = bottom /\ bottom \in Held /\ Held' = Held \ {bottom}
    BY <1>1, <1>2, <1>3, <1>5, <2>1 DEF limit, heldLimit, Held
  <2>3. Pointers'
    BY <1>1, <1>2, <1>3, <1>5, <2>1, <2>2, CapacityAssumption
       DEF IInv, TypeOK, Pointers, Shape, VisibleOK, ThiefOK, Slot
  <2> QED BY <1>1, <2>1, <2>2, <2>3, TakeOne DEF IInv, Holds
<1>6. CASE top = bottom
  <2>1. opc' = "popCas" /\ takes' = takes
    BY <1>2, <1>6 DEF PopLoad
  <2>2. limit' = limit /\ heldLimit' = heldLimit /\ Held' = Held
    BY <1>1, <2>1 DEF limit, heldLimit, Held
  <2>3. Pointers'
    BY <1>1, <1>2, <1>3, <1>6, <2>1, <2>2
       DEF IInv, TypeOK, Pointers, Shape, VisibleOK, ThiefOK, Slot
  <2> QED BY <1>1, <2>1, <2>2, <2>3, SameItems DEF IInv, Holds
<1> QED BY <1>2, <1>4, <1>5, <1>6

\* The CAS of pop() on the last item keeps the invariant.
LEMMA PopCasStep == ASSUME IInv, TypeOK', PopCas PROVE Pointers' /\ Holds'
<1>1. /\ opc = "popCas" /\ opc' = "popRestore" /\ ownerTop' = top'
      /\ UNCHANGED <<bottom, visible, buffer, tpc, tt, tval, npush>>
  BY DEF PopCas, thiefVars
<1>2. bottom \in Nat /\ top \in Nat /\ limit = bottom + 1 /\ heldLimit = bottom + 1
  BY <1>1 DEF IInv, TypeOK, limit, heldLimit
<1>3. top <= bottom + 1 /\ bottom <= top
  BY <1>1, <1>2 DEF IInv, Shape
<1>4. limit' = bottom /\ heldLimit' = bottom
  BY <1>1 DEF limit, heldLimit
<1>5. CASE top = bottom
  <2>1. top' = top + 1 /\ Take(buffer[Slot(bottom)])
    BY <1>5 DEF PopCas
  <2>2. bottom \in Held /\ Held' = Held \ {bottom}
    BY <1>2, <1>4, <1>5, <2>1 DEF Held
  <2>3. Pointers'
    BY <1>1, <1>2, <1>4, <1>5, <2>1, CapacityAssumption
       DEF IInv, TypeOK, Pointers, Shape, VisibleOK, ThiefOK
  <2> QED BY <1>1, <2>1, <2>2, <2>3, TakeOne DEF IInv, Holds
<1>6. CASE top # bottom
  <2>1. top' = top /\ takes' = takes /\ top = bottom + 1
    BY <1>2, <1>3, <1>6 DEF PopCas
  <2>2. Held' = {} /\ Held = {}
    BY <1>2, <1>4, <2>1 DEF Held
  <2>3. Pointers'
    BY <1>1, <1>2, <1>4, <2>1, CapacityAssumption
       DEF IInv, TypeOK, Pointers, Shape, VisibleOK, ThiefOK
  <2> QED BY <1>1, <2>1, <2>2, <2>3, SameItems DEF IInv, Holds
<1> QED BY <1>5, <1>6

\* Restoring _bottom after a pop() of the last item keeps the invariant.
LEMMA PopRestoreStep == ASSUME IInv, TypeOK', PopRestore PROVE Pointers' /\ Holds'
<1>1. /\ opc = "popRestore" /\ opc' = "idle" /\ bottom' = bottom + 1
      /\ visible' = visible \cup {bottom + 1}
      /\ UNCHANGED <<top, ownerTop, buffer, tpc, tt, tval, npush, takes>>
  BY DEF PopRestore, StoreBottom, thiefVars
<1>2. /\ top = bottom + 1 /\ bottom \in Nat /\ limit = bottom /\ heldLimit = bottom
      /\ limit' = bottom + 1 /\ heldLimit' = bottom + 1
  BY <1>1 DEF IInv, TypeOK, Shape, limit, heldLimit
<1>3. Held' = {} /\ Held = {}
  BY <1>1, <1>2 DEF Held
<1>4. Pointers'
  BY <1>1, <1>2, CapacityAssumption DEF IInv, TypeOK, Pointers, Shape, VisibleOK, ThiefOK
<1> QED BY <1>1, <1>3, <1>4, SameItems DEF IInv, Holds

\* The steps of steal() before its CAS, and its failed CAS, keep the invariant.
LEMMA StealLocalStep ==
  ASSUME IInv, TypeOK', NEW h \in Thieves,
         StealBegin(h) \/ StealCheck(h) \/ StealRead(h) \/ StealCasFail(h)
  PROVE  Pointers' /\ Holds'
<1>1. UNCHANGED <<bottom, visible, top, ownerTop, buffer, opc, npush, takes>>
  BY DEF StealBegin, StealCheck, StealRead, StealCasFail
<1>2. limit' = limit /\ heldLimit' = heldLimit /\ Held' = Held
  BY <1>1 DEF limit, heldLimit, Held
<1>3. Shape' /\ VisibleOK'
  BY <1>1, <1>2 DEF IInv, Shape, VisibleOK
<1>4. ThiefOK'
  <2>1. CASE StealBegin(h)
    BY <1>1, <1>2, <2>1 DEF StealBegin, IInv, TypeOK, ThiefOK, Slot
  <2>2. CASE StealCheck(h)
    <3>1. PICK b \in visible : tpc' = [tpc EXCEPT ![h] = IF tt[h] >= b THEN "idle" ELSE "read"]
      BY <2>2 DEF StealCheck
    <3>2. b \in Nat /\ b <= limit /\ limit \in Nat /\ tt[h] \in Nat
      BY DEF IInv, TypeOK, VisibleOK, limit
    <3>3. tt[h] < b => tt[h] < limit
      BY <3>2
    <3> QED BY <1>1, <1>2, <2>2, <3>1, <3>2, <3>3 DEF StealCheck, IInv, TypeOK, ThiefOK, Slot
  <2>3. CASE StealRead(h)
    BY <1>1, <1>2, <2>3 DEF StealRead, IInv, TypeOK, ThiefOK, Slot
  <2>4. CASE StealCasFail(h)
    BY <1>1, <1>2, <2>4 DEF StealCasFail, IInv, TypeOK, ThiefOK, Slot
  <2> QED BY <2>1, <2>2, <2>3, <2>4
<1> QED BY <1>1, <1>2, <1>3, <1>4, SameItems DEF IInv, Holds, Pointers

\* A successful CAS of steal() takes the oldest item and keeps the invariant.
LEMMA StealCasStep ==
  ASSUME IInv, TypeOK', NEW h \in Thieves, StealCas(h)
  PROVE  Pointers' /\ Holds'
<1>1. /\ tpc[h] = "cas" /\ tt[h] = top /\ top' = top + 1 /\ Take(tval[h])
      /\ tpc' = [tpc EXCEPT ![h] = "idle"]
      /\ UNCHANGED <<bottom, visible, ownerTop, buffer, opc, tt, tval, npush>>
  BY DEF StealCas
<1>2. top < limit /\ tval[h] = buffer[Slot(top)]
  BY <1>1 DEF IInv, ThiefOK
<1>3. limit' = limit /\ heldLimit' = heldLimit /\ limit <= heldLimit
      /\ limit \in Nat /\ heldLimit \in Nat /\ top \in Nat
  BY <1>1 DEF limit, heldLimit, IInv, TypeOK
<1>4. top \in Held /\ Held' = Held \ {top}
  BY <1>1, <1>2, <1>3 DEF Held
<1>5. opc # "popRestore"
  BY <1>2 DEF IInv, TypeOK, Shape, limit
<1>6. Shape'
  BY <1>1, <1>2, <1>3, <1>5, CapacityAssumption DEF IInv, TypeOK, Shape
<1>7. VisibleOK'
  BY <1>1, <1>3 DEF IInv, VisibleOK
<1>8. ThiefOK'
  BY <1>1, <1>3 DEF IInv, TypeOK, ThiefOK
<1> QED BY <1>1, <1>2, <1>4, <1>6, <1>7, <1>8, TakeOne DEF IInv, Holds, Pointers

\* A store of the owner reaching the other cores keeps the invariant.
LEMMA PropagateStep == ASSUME IInv, TypeOK', Propagate PROVE Pointers' /\ Holds'
<1>1. /\ visible' = {bottom}
      /\ UNCHANGED <<bottom, top, ownerTop, buffer, opc, tpc, tt, tval, npush, takes>>
  BY DEF Propagate, thiefVars
<1>2. limit' = limit /\ heldLimit' = heldLimit /\ Held' = Held /\ bottom <= limit
  BY <1>1 DEF limit, heldLimit, Held, IInv, TypeOK
<1>3. Pointers'
  BY <1>1, <1>2 DEF IInv, TypeOK, Pointers, Shape, VisibleOK, ThiefOK, Slot
<1> QED BY <1>1, <1>2, <1>3, SameItems DEF IInv, Holds

\* IInv is inductive.
LEMMA Inductive == IInv /\ [Next]_vars => IInv'
<1> SUFFICES ASSUME IInv, [Next]_vars PROVE IInv'
  OBVIOUS
<1>1. TypeOK'
  BY Typing DEF IInv
<1>2. Pointers' /\ Holds'
  <2>1. CASE UNCHANGED vars
    <3>1. limit' = limit /\ heldLimit' = heldLimit /\ Held' = Held
      BY <2>1 DEF vars, limit, heldLimit, Held
    <3> QED BY <2>1, <3>1, SameItems
         DEF vars, IInv, Holds, Pointers, Shape, VisibleOK, ThiefOK, Slot
  <2>2. CASE Next
    BY <1>1, <2>2, PushWriteStep, PushStoreStep, PopStoreStep, PopFenceStep, PopLoadStep,
       PopCasStep, PopRestoreStep, StealLocalStep, StealCasStep, PropagateStep
       DEF Next, Owner, Steal
  <2> QED BY <2>1, <2>2
<1> QED BY <1>1, <1>2 DEF IInv, Pointers, Holds

\* The empty queue satisfies IInv.
LEMMA Initial == Init => IInv
<1> SUFFICES ASSUME Init PROVE IInv
  OBVIOUS
<1> USE CapacityAssumption, MaxPushAssumption DEF Init
<1>1. TypeOK
  BY DEF TypeOK, Items
<1>2. limit = 1 /\ heldLimit = 1 /\ Held = {}
  BY DEF limit, heldLimit, Held
<1>3. Shape /\ VisibleOK /\ ThiefOK
  BY <1>2 DEF Shape, VisibleOK, ThiefOK
<1>4. Contents /\ Accounted /\ NoItemTakenTwice
  BY <1>2 DEF Contents, Accounted, NoItemTakenTwice, Items
<1> QED BY <1>1, <1>3, <1>4 DEF IInv

\* Every variable of the queue keeps its type, whatever the interleaving.
THEOREM TypeCorrect == Spec => []TypeOK
<1>1. Init => TypeOK
  BY Initial DEF IInv
<1> QED BY <1>1, Typing, PTL DEF Spec

\* pop() and steal() together return each pushed task at most once, for every
\* capacity and every number of thieves.
THEOREM TakenAtMostOnce == Spec => []NoItemTakenTwice
<1>1. IInv => NoItemTakenTwice
  BY DEF IInv
<1> QED BY Initial, Inductive, <1>1, PTL DEF Spec

\* A pushed task stays in the queue until it is returned, for every capacity
\* and every number of thieves.
THEOREM NeverLost == Spec => []NoItemLost
<1>1. IInv => NoItemLost
  <2> SUFFICES ASSUME IInv, NEW x \in 1..npush, takes[x] = 0
               PROVE  \/ \E i \in Live : buffer[Slot(i)] = x
                      \/ opc = "pushStore" /\ buffer[Slot(bottom)] = x
    BY DEF NoItemLost
  <2>1. PICK i \in Held : buffer[Slot(i)] = x
    BY DEF IInv, Accounted
  <2>2. i \in Live \/ (opc = "pushStore" /\ i = bottom)
    BY DEF Held, Live, heldLimit, limit, IInv, TypeOK
  <2> QED BY <2>1, <2>2
<1> QED BY Initial, Inductive, <1>1, PTL DEF Spec
============================================================================
