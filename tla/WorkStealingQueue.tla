------------------------- MODULE WorkStealingQueue -------------------------
(***************************************************************************)
(* bthread::WorkStealingQueue: the run queue of one worker.  The owner     *)
(* pushes and pops at the bottom, the other workers steal from the top.    *)
(*                                                                         *)
(* Memory order.  Stores to _bottom are relaxed or release: until the      *)
(* owner's next seq_cst fence a thief may still read any value stored      *)
(* since the previous one.  `visible' is that set of values.  A load of    *)
(* _top by the owner outside the fence may be stale, but never older than  *)
(* the last value it read (`ownerTop').  The thief's fence and the load    *)
(* after it are one step: only the order of fences matters.                *)
(*                                                                         *)
(* An item is its push number, so that each is unique; takes[x] counts how *)
(* often x was returned to some worker.                                    *)
(***************************************************************************)
EXTENDS Integers, Sequences, FiniteSets

CONSTANTS Capacity,     \* _capacity
          Thieves,      \* workers that call steal()
          MaxPush       \* bound on the number of items ever pushed

ASSUME CapacityAssumption == Capacity \in Nat \ {0}
ASSUME MaxPushAssumption == MaxPush \in Nat

VARIABLES bottom,       \* _bottom as its only writer, the owner, knows it
          visible,      \* values a thief's load of _bottom may return
          top,          \* _top
          ownerTop,     \* the latest _top the owner has read
          buffer,       \* _buffer
          opc,          \* where the owner is in push() or pop()
          tpc,          \* where each thief is in steal()
          tt,           \* each thief's local t
          tval,         \* each thief's *val
          npush,        \* number of push() calls that were not full
          takes         \* how often each item was returned

thiefVars == <<tpc, tt, tval>>
vars == <<bottom, visible, top, ownerTop, buffer, opc, tpc, tt, tval, npush, takes>>

Items == 1..MaxPush
Slot(i) == i % Capacity

Init ==
  /\ bottom = 1
  /\ visible = {1}
  /\ top = 1
  /\ ownerTop = 1
  /\ buffer = [i \in 0..(Capacity - 1) |-> 0]
  /\ opc = "idle"
  /\ tpc = [h \in Thieves |-> "idle"]
  /\ tt = [h \in Thieves |-> 1]
  /\ tval = [h \in Thieves |-> 0]
  /\ npush = 0
  /\ takes = [x \in Items |-> 0]

StoreBottom(b) ==
  /\ bottom' = b
  /\ visible' = visible \cup {b}

Take(x) == takes' = [takes EXCEPT ![x] = @ + 1]

(***************************************************************************)
(* The owner.                                                              *)
(***************************************************************************)
PushFullLate(t) == bottom > t + Capacity
PushFull(t) == bottom >= t + Capacity

\* push() up to the write of the slot.
PushWrite ==
  /\ opc = "idle"
  /\ npush < MaxPush
  /\ \E t \in ownerTop..top :
       /\ ownerTop' = t
       /\ IF PushFull(t)
            THEN UNCHANGED <<buffer, opc, npush>>
            ELSE /\ npush' = npush + 1
                 /\ buffer' = [buffer EXCEPT ![Slot(bottom)] = npush']
                 /\ opc' = "pushStore"
  /\ UNCHANGED <<bottom, visible, top, thiefVars, takes>>

PushStore ==
  /\ opc = "pushStore"
  /\ StoreBottom(bottom + 1)
  /\ opc' = "idle"
  /\ UNCHANGED <<top, ownerTop, buffer, thiefVars, npush, takes>>

\* pop() up to the store of newb; the fast check may see a stale _top.
PopStore ==
  /\ opc = "idle"
  /\ \E t \in ownerTop..top :
       /\ ownerTop' = t
       /\ IF t >= bottom
            THEN UNCHANGED <<bottom, visible, opc>>
            ELSE /\ StoreBottom(bottom - 1)
                 /\ opc' = "popFence"
  /\ UNCHANGED <<top, buffer, thiefVars, npush, takes>>

NoFence == visible' = visible
\* atomic_thread_fence(seq_cst)
Fence == visible' = {bottom}

PopFence ==
  /\ opc = "popFence"
  /\ Fence
  /\ opc' = "popLoad"
  /\ UNCHANGED <<bottom, top, ownerTop, buffer, thiefVars, npush, takes>>

\* The second load of _top, and all of pop() that needs no other thread.
PopLoad ==
  /\ opc = "popLoad"
  /\ ownerTop' = top
  /\ \/ /\ top > bottom
        /\ opc' = "popRestore"
        /\ UNCHANGED takes
     \/ /\ top < bottom
        /\ Take(buffer[Slot(bottom)])
        /\ opc' = "idle"
     \/ /\ top = bottom
        /\ opc' = "popCas"
        /\ UNCHANGED takes
  /\ UNCHANGED <<bottom, visible, top, buffer, thiefVars, npush>>

\* The last element: compete with steal().
PopCas ==
  /\ opc = "popCas"
  /\ IF top = bottom
       THEN /\ top' = top + 1
            /\ Take(buffer[Slot(bottom)])
       ELSE UNCHANGED <<top, takes>>
  /\ ownerTop' = top'
  /\ opc' = "popRestore"
  /\ UNCHANGED <<bottom, visible, buffer, thiefVars, npush>>

PopNoRestore ==
  /\ opc = "popRestore"
  /\ opc' = "idle"
  /\ UNCHANGED <<bottom, visible, top, ownerTop, buffer, thiefVars, npush, takes>>

PopRestore ==
  /\ opc = "popRestore"
  /\ StoreBottom(bottom + 1)
  /\ opc' = "idle"
  /\ UNCHANGED <<top, ownerTop, buffer, thiefVars, npush, takes>>

(***************************************************************************)
(* A thief h.                                                              *)
(***************************************************************************)
\* The first loads of _top and _bottom.
StealBegin(h) ==
  /\ tpc[h] = "idle"
  /\ \E b \in visible : top < b
  /\ tt' = [tt EXCEPT ![h] = top]
  /\ tpc' = [tpc EXCEPT ![h] = "check"]
  /\ UNCHANGED <<bottom, visible, top, ownerTop, buffer, opc, tval, npush, takes>>

\* The fence and the load of _bottom in the loop.
StealCheck(h) ==
  /\ tpc[h] = "check"
  /\ \E b \in visible :
       tpc' = [tpc EXCEPT ![h] = IF tt[h] >= b THEN "idle" ELSE "read"]
  /\ UNCHANGED <<bottom, visible, top, ownerTop, buffer, opc, tt, tval, npush, takes>>

StealRead(h) ==
  /\ tpc[h] = "read"
  /\ tval' = [tval EXCEPT ![h] = buffer[Slot(tt[h])]]
  /\ tpc' = [tpc EXCEPT ![h] = "cas"]
  /\ UNCHANGED <<bottom, visible, top, ownerTop, buffer, opc, tt, npush, takes>>

StealAnyTop(h) ==
  /\ tpc[h] = "cas"
  /\ tt[h] <= top
  /\ top' = tt[h] + 1
  /\ Take(tval[h])
  /\ tpc' = [tpc EXCEPT ![h] = "idle"]
  /\ UNCHANGED <<bottom, visible, ownerTop, buffer, opc, tt, tval, npush>>

StealCas(h) ==
  /\ tpc[h] = "cas"
  /\ tt[h] = top
  /\ top' = top + 1
  /\ Take(tval[h])
  /\ tpc' = [tpc EXCEPT ![h] = "idle"]
  /\ UNCHANGED <<bottom, visible, ownerTop, buffer, opc, tt, tval, npush>>

\* compare_exchange_weak: t is reloaded; it may fail spuriously.
StealCasFail(h) ==
  /\ tpc[h] = "cas"
  /\ tt' = [tt EXCEPT ![h] = top]
  /\ tpc' = [tpc EXCEPT ![h] = "check"]
  /\ UNCHANGED <<bottom, visible, top, ownerTop, buffer, opc, tval, npush, takes>>

\* The owner's stores reach every other core.
Propagate ==
  /\ visible # {bottom}
  /\ visible' = {bottom}
  /\ UNCHANGED <<bottom, top, ownerTop, buffer, opc, thiefVars, npush, takes>>

Steal(h) ==
  StealBegin(h) \/ StealCheck(h) \/ StealRead(h) \/ StealCas(h) \/ StealCasFail(h)

Owner == PushWrite \/ PushStore \/ PopStore \/ PopFence \/ PopLoad \/ PopCas \/ PopRestore

Next == Owner \/ Propagate \/ \E h \in Thieves : Steal(h)

Spec == Init /\ [][Next]_vars

\* A worker finishes the operation it has begun, a store reaches memory, idle
\* workers keep trying to steal (TaskGroup::wait_task), and compare_exchange_weak
\* does not fail spuriously forever.
Fairness ==
  /\ WF_vars(PushStore \/ PopFence \/ PopLoad \/ PopCas \/ PopRestore)
  /\ WF_vars(Propagate)
  /\ \A h \in Thieves : /\ WF_vars(Steal(h))
                        /\ SF_vars(StealCas(h))

FairSpec == Spec /\ Fairness

----------------------------------------------------------------------------
\* One past the last position that still belongs to the queue: a pop() takes
\* position newb only once it has reloaded _top.
limit == IF opc \in {"popFence", "popLoad", "popCas"} THEN bottom + 1 ELSE bottom

Live == top..(limit - 1)

TypeOK ==
  /\ bottom \in Nat
  /\ visible \in SUBSET Nat
  /\ top \in Nat
  /\ ownerTop \in Nat
  /\ buffer \in [0..(Capacity - 1) -> 0..MaxPush]
  /\ opc \in {"idle", "pushStore", "popFence", "popLoad", "popCas", "popRestore"}
  /\ tpc \in [Thieves -> {"idle", "check", "read", "cas"}]
  /\ tt \in [Thieves -> Nat]
  /\ tval \in [Thieves -> 0..MaxPush]
  /\ npush \in 0..MaxPush
  /\ takes \in [Items -> Nat]

\* No task is run twice: pop() and any number of steal()s never return the same
\* item, whatever they race on (the last item, a full ring, a stale _bottom).
NoItemTakenTwice == \A x \in Items : takes[x] <= 1

\* No task is lost: an item that push() accepted and nobody has returned yet is
\* in a slot of the queue, or in the one push() is about to publish.
NoItemLost ==
  \A x \in 1..npush :
    takes[x] = 0 =>
      \/ \E i \in Live : buffer[Slot(i)] = x
      \/ opc = "pushStore" /\ buffer[Slot(bottom)] = x

\* The operations are those of a deque: each takes effect at one instant, push()
\* at its store of _bottom, steal() and the pop() of the last item at their CAS,
\* any other pop() at its second load of _top.
Deque == INSTANCE TaskDeque
  WITH deque <- [i \in 1..(limit - top) |-> buffer[Slot(top + i - 1)]],
       taken <- takes
ImplementsDeque == Deque!Spec

\* With the owner idle and a thief free to run, every item is eventually taken.
EveryItemTaken == \A x \in Items : (x <= npush) ~> (takes[x] = 1)
============================================================================
