----------------------- MODULE ExecutionQueuePthread -----------------------
(***************************************************************************)
(* The use_pthread option of bthread::ExecutionQueue: the producer that    *)
(* finds the queue empty hands the right to execute to a resident pthread, *)
(* which it starts the first time.  Of the queue itself only the number of *)
(* tasks and whether the stop task was pushed are kept: its order and its  *)
(* stop protocol are in ExecutionQueue.  _head is null exactly when busy   *)
(* is FALSE, and the node handed over stands for the right to execute.     *)
(***************************************************************************)
EXTENDS Integers, FiniteSets

CONSTANTS Producers, Threads,   \* callers of execute and stop; pthreads
          MaxTasks,             \* bound: tasks pushed
          MaxId                 \* bound: the last id created on the slot (0, 2, ...)

ASSUME BoundsAssumption == MaxTasks \in Nat /\ MaxId \in Nat
ASSUME RolesAssumption == Producers \cap Threads = {}
ASSUME NoneAssumption == "none" \notin Producers \cup Threads

VARIABLES busy,                 \* _head is not null
          todo,                 \* tasks in the queue
          stopTask,             \* the stop task: "no", "queued" or "run"
          started,              \* _pthread_started
          current,              \* _current_head is not null
          mutex,                \* holder of _mutex, or "none"
          thisId, joinButex, free,
          pc, ntasks

queue == <<busy, todo, stopTask>>
slot == <<thisId, joinButex, free>>
vars == <<queue, started, current, mutex, slot, pc, ntasks>>
Procs == Producers \cup Threads

Init ==
  /\ busy = FALSE /\ todo = 0 /\ stopTask = "no"
  /\ started = FALSE /\ current = FALSE /\ mutex = "none"
  /\ thisId = 0 /\ joinButex = 0 /\ free = FALSE
  /\ pc = [p \in Procs |-> IF p \in Producers THEN "idle" ELSE "none"]
  /\ ntasks = 0

Goto(p, l) == pc' = [pc EXCEPT ![p] = l]

\* create() on the slot the previous queue returned.
Create(p) ==
  /\ pc[p] = "idle" /\ free /\ thisId < MaxId
  /\ thisId' = thisId + 2 /\ free' = FALSE
  /\ stopTask' = "no" /\ started' = FALSE /\ current' = FALSE
  /\ UNCHANGED <<busy, todo, mutex, joinButex, pc, ntasks>>

\* start_execute of a task, or of the stop task that ends the queue.
Push(p, isStop) ==
  /\ pc[p] = "idle" /\ ~free /\ stopTask = "no"
  /\ IF isStop THEN stopTask' = "queued" /\ UNCHANGED <<todo, ntasks>>
     ELSE /\ ntasks < MaxTasks /\ ntasks' = ntasks + 1
          /\ todo' = todo + 1 /\ UNCHANGED stopTask
  /\ busy' = TRUE
  /\ Goto(p, IF busy THEN "idle" ELSE "handover")
  /\ UNCHANGED <<started, current, mutex, slot>>

\* if (_pthread_started)
HandOver(p) ==
  /\ pc[p] = "handover"
  /\ Goto(p, IF started THEN "signal" ELSE "create")
  /\ UNCHANGED <<queue, started, current, mutex, slot, ntasks>>

\* _current_head = node; _cond.Signal(), under _mutex.
Signal(p) ==
  /\ pc[p] = "signal" /\ mutex = "none"
  /\ current' = TRUE
  /\ IF \E t \in Threads : pc[t] = "wait"
       THEN \E t \in Threads : pc[t] = "wait" /\ pc' = [pc EXCEPT ![p] = "idle", ![t] = "lock"]
       ELSE Goto(p, "idle")
  /\ UNCHANGED <<queue, started, mutex, slot, ntasks>>

\* pthread_create.
StartPthread(p) ==
  /\ pc[p] = "create"
  /\ \E t \in Threads : pc[t] = "none" /\ pc' = [pc EXCEPT ![p] = "setstarted", ![t] = "enter"]
  /\ UNCHANGED <<queue, started, current, mutex, slot, ntasks>>

SetStarted(p) ==
  /\ pc[p] = "setstarted"
  /\ started' = TRUE
  /\ Goto(p, "idle")
  /\ UNCHANGED <<queue, current, mutex, slot, ntasks>>

(***************************************************************************)
(* _execute_tasks_pthread.                                                 *)
(***************************************************************************)
\* m->_current_head = head, before the mutex is taken.
Enter(t) ==
  /\ pc[t] = "enter"
  /\ current' = TRUE
  /\ Goto(t, "lock")
  /\ UNCHANGED <<queue, started, mutex, slot, ntasks>>

\* Take the mutex; wait on the condition while there is no head.
Lock(t) ==
  /\ pc[t] = "lock" /\ mutex = "none"
  /\ mutex' = IF current THEN t ELSE mutex
  /\ Goto(t, IF current THEN "execute" ELSE "wait")
  /\ UNCHANGED <<queue, started, current, slot, ntasks>>

\* _execute_tasks: tasks are taken until none is left.
Execute(t) ==
  /\ pc[t] = "execute" /\ todo > 0
  /\ todo' = todo - 1
  /\ UNCHANGED <<busy, stopTask, started, current, mutex, slot, pc, ntasks>>

\* The stop task, or no more task: _head becomes null.
ExecuteEnd(t) ==
  /\ pc[t] = "execute" /\ todo = 0
  /\ busy' = FALSE
  /\ stopTask' = IF stopTask = "queued" THEN "run" ELSE stopTask
  /\ Goto(t, IF stopTask = "queued" THEN "destroy" ELSE "clear")
  /\ UNCHANGED <<todo, started, current, mutex, slot, ntasks>>

\* _join_butex moves on and the slot is returned.
Destroy(t) ==
  /\ pc[t] = "destroy"
  /\ joinButex' = joinButex + 2 /\ free' = TRUE
  /\ Goto(t, "clear")
  /\ UNCHANGED <<queue, started, current, mutex, thisId, ntasks>>

ClearNot(t) ==
  /\ pc[t] = "clear"
  /\ Goto(t, "check")
  /\ UNCHANGED <<queue, started, current, mutex, slot, ntasks>>

\* m->_current_head = nullptr.
Clear(t) ==
  /\ pc[t] = "clear"
  /\ current' = FALSE
  /\ Goto(t, "check")
  /\ UNCHANGED <<queue, started, mutex, slot, ntasks>>

\* Quit when _join_butex is no longer the version of _this_id.
Check(t) ==
  /\ pc[t] = "check"
  /\ mutex' = "none"
  /\ Goto(t, IF thisId # joinButex THEN "exit" ELSE "lock")
  /\ UNCHANGED <<queue, started, current, slot, ntasks>>

-----------------------------------------------------------------------------
Progress(p) ==
  \/ HandOver(p) \/ Signal(p) \/ StartPthread(p) \/ SetStarted(p)
  \/ Enter(p) \/ Lock(p) \/ Execute(p) \/ ExecuteEnd(p) \/ Destroy(p) \/ Clear(p) \/ Check(p)

Next ==
  \/ \E p \in Producers : Create(p) \/ Push(p, FALSE) \/ Push(p, TRUE)
  \/ \E p \in Procs : Progress(p)

Spec == Init /\ [][Next]_vars
FairSpec == Spec /\ \A p \in Procs : WF_vars(Progress(p)) /\ SF_vars(Signal(p)) /\ SF_vars(Lock(p))

-----------------------------------------------------------------------------
\* State of the queue and its pthreads; the number of tasks does not underflow.
TypeOK ==
  /\ busy \in BOOLEAN /\ todo \in 0..MaxTasks /\ stopTask \in {"no", "queued", "run"}
  /\ started \in BOOLEAN /\ current \in BOOLEAN /\ mutex \in Threads \cup {"none"}
  /\ thisId \in 0..MaxId /\ joinButex \in 0..(MaxId + 2) /\ free \in BOOLEAN
  /\ ntasks \in 0..MaxTasks

\* Who has the right to execute: a producer handing it over, a new pthread, or
\* the pthread that executes.
Holders == {p \in Procs : pc[p] \in {"handover", "signal", "create", "enter", "execute"}}

\* Tasks run serially: at most one has the right to execute, and only while the
\* queue is not empty.
RightUnique == Cardinality(Holders) <= 1 /\ (Holders # {} => busy)

\* Every task handed to the queue is executed.
TasksComplete == todo > 0 ~> todo = 0
============================================================================
