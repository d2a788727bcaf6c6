-------------------- MODULE ExecutionQueuePthreadProofs ---------------------
(***************************************************************************)
(* The right to execute of a queue on a pthread is never duplicated,       *)
(* whatever the number of producers and pthreads: the races that lose a    *)
(* task (pthread_lost) never let two threads execute.                      *)
(***************************************************************************)
EXTENDS ExecutionQueuePthread, FiniteSetTheorems, TLAPS

Right == {"handover", "signal", "create", "enter", "execute"}
Critical == {"execute", "destroy", "clear", "check"}
Consuming == {"execute", "destroy", "clear"}

\* _mutex is held from the test of _current_head to the end of an iteration.
MutexInv == \A p \in Procs : pc[p] \in Critical => mutex = p

\* The right is held by one thread, or waits in _current_head unless a pthread
\* is there that will still clear it; in both cases _head is not null.
RightInv ==
  /\ \A p, q \in Procs : pc[p] \in Right /\ pc[q] \in Right => p = q
  /\ \A p \in Procs : pc[p] \in Right => busy
  /\ current /\ (\A p \in Procs : pc[p] \notin Consuming) =>
       busy /\ \A p \in Procs : pc[p] \notin Right

IInv == DOMAIN pc = Procs /\ MutexInv /\ RightInv

\* A queue that was just created has no task and nobody executes it.
LEMMA InitIInv == Init => IInv
BY DEF Init, IInv, MutexInv, RightInv, Critical, Right, Consuming, Procs

\* No step of a producer or of a pthread gives the right away twice: a producer
\* gets it only from an empty queue, and a pthread takes it from _current_head
\* only under _mutex, when no other pthread is in the middle of an iteration.
LEMMA StepIInv == IInv /\ [Next]_vars => IInv'
<1> SUFFICES ASSUME IInv, [Next]_vars PROVE IInv'
  OBVIOUS
<1> USE DEF IInv, MutexInv, RightInv, Critical, Right, Consuming, Procs, Goto
<1>1. CASE UNCHANGED vars
  BY <1>1 DEF vars, queue, slot
<1>2. ASSUME NEW p \in Producers, Create(p) PROVE IInv'
  BY <1>2 DEF Create
<1>3. ASSUME NEW p \in Producers, NEW isStop \in BOOLEAN, Push(p, isStop) PROVE IInv'
  BY <1>3 DEF Push, slot
<1>4. ASSUME NEW p \in Procs, HandOver(p) PROVE IInv'
  BY <1>4 DEF HandOver, queue, slot
<1>5. ASSUME NEW p \in Procs, Signal(p) PROVE IInv'
  <2>1. \A q \in Procs : pc[q] \notin Critical
    BY <1>5, NoneAssumption DEF Signal
  <2>2. CASE \E t \in Threads : pc[t] = "wait"
    <3>1. PICK t \in Threads : pc[t] = "wait" /\ pc' = [pc EXCEPT ![p] = "idle", ![t] = "lock"]
      BY <1>5, <2>2 DEF Signal
    <3>2. \A q \in Procs : pc'[q] = pc[q] \/ pc'[q] \in {"idle", "lock"}
      BY <3>1
    <3>3. p # t /\ pc'[p] = "idle"
      BY <1>5, <3>1 DEF Signal
    <3> QED BY <1>5, <2>1, <3>1, <3>2, <3>3 DEF Signal, queue, slot
  <2>3. CASE ~\E t \in Threads : pc[t] = "wait"
    BY <1>5, <2>1, <2>3 DEF Signal, queue, slot
  <2> QED BY <2>2, <2>3
<1>6. ASSUME NEW p \in Procs, StartPthread(p) PROVE IInv'
  BY <1>6 DEF StartPthread, queue, slot
<1>7. ASSUME NEW p \in Procs, SetStarted(p) PROVE IInv'
  BY <1>7 DEF SetStarted, queue, slot
<1>8. ASSUME NEW p \in Procs, Enter(p) PROVE IInv'
  BY <1>8 DEF Enter, queue, slot
<1>9. ASSUME NEW p \in Procs, Lock(p) PROVE IInv'
  <2>1. \A q \in Procs : pc[q] \notin Critical
    BY <1>9, NoneAssumption DEF Lock
  <2> QED BY <1>9, <2>1 DEF Lock, queue, slot
<1>10. ASSUME NEW p \in Procs, Execute(p) PROVE IInv'
  BY <1>10 DEF Execute, slot
<1>11. ASSUME NEW p \in Procs, ExecuteEnd(p) PROVE IInv'
  BY <1>11 DEF ExecuteEnd, slot
<1>12. ASSUME NEW p \in Procs, Destroy(p) PROVE IInv'
  BY <1>12 DEF Destroy, queue
<1>13. ASSUME NEW p \in Procs, Clear(p) PROVE IInv'
  BY <1>13 DEF Clear, queue, slot
<1>14. ASSUME NEW p \in Procs, Check(p) PROVE IInv'
  BY <1>14 DEF Check, queue, slot
<1> QED
  BY <1>1, <1>2, <1>3, <1>4, <1>5, <1>6, <1>7, <1>8, <1>9, <1>10, <1>11, <1>12, <1>13, <1>14
     DEF Next, Progress

\* The invariant says what RightUnique counts.
LEMMA IInvRightUnique == IInv => RightUnique
<1> SUFFICES ASSUME IInv PROVE RightUnique
  OBVIOUS
<1>1. Holders # {} => busy
  BY DEF IInv, RightInv, Holders, Right
<1>2. CASE Holders = {}
  BY <1>1, <1>2, FS_EmptySet DEF RightUnique
<1>3. CASE Holders # {}
  <2>1. PICK p \in Holders : TRUE
    BY <1>3
  <2>2. Holders = {p}
    BY <2>1 DEF IInv, RightInv, Holders, Right
  <2> QED BY <1>1, <2>2, FS_Singleton DEF RightUnique
<1> QED BY <1>2, <1>3

\* Tasks of a queue on a pthread run serially: _start_execute and
\* _execute_tasks_pthread give the right to execute to at most one thread.
THEOREM SerialExecution == Spec => []RightUnique
<1>1. Spec => []IInv
  BY InitIInv, StepIInv, PTL DEF Spec
<1> QED BY <1>1, IInvRightUnique, PTL
=============================================================================
