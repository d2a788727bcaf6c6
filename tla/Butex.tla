-------------------------------- MODULE Butex --------------------------------
(***************************************************************************)
(* The butex (bthread/butex.cpp), the word on which bthreads and pthreads  *)
(* sleep, with the two mechanisms that take a waiter out of its queue      *)
(* behind the back of the waker: the timer thread and                      *)
(* TaskGroup::interrupt (bthread/task_group.cpp).  bthread_usleep, which   *)
(* shares both of them, is included.                                       *)
(*                                                                         *)
(* A waiter object lives on the stack of the thread that waits, so it is   *)
(* named <<t, n>>: the n-th call of thread t.  A critical section of       *)
(* waiter_lock is one step, except that of a thread about to queue itself, *)
(* which reads the unprotected value first.  The right of a bthread to run *)
(* is the number of times it is in some run queue.                         *)
(***************************************************************************)
EXTENDS Integers, Sequences, SequencesExt

CONSTANTS Bthreads,       \* threads waiting as bthreads
          PthreadTasks,   \* bthreads that run on a pthread (BTHREAD_ATTR_PTHREAD)
          Pthreads,       \* plain pthreads, which nobody can interrupt
          Wakers,         \* threads that store, wake and requeue
          Interrupters,   \* threads that call bthread_interrupt
          Butexes, Values,
          WaitButexes,    \* the butexes passed to butex_wait; the others are targets of requeue
          Timed,          \* whether abstime may be given: a subset of BOOLEAN
          Lifo,           \* the threads that wait with prepend
          Sleepers,       \* the bthreads that also call bthread_usleep
          Limits,         \* bounds on the calls of each thread and actor, one chosen at the start
          None

Threads == Bthreads \cup PthreadTasks \cup Pthreads
Interruptible == Bthreads \cup PthreadTasks
Actors == Wakers \cup Interrupters
TimerThread == "timer"
Erasers == PthreadTasks \cup Pthreads \cup Actors \cup {TimerThread}

VARIABLES value, waiters,       \* of each butex
          lock,                 \* who keeps waiter_lock over more than one step
          container, state,     \* of the waiter of each thread: container, waiter_state,
          sleepId, sig,         \*   sleep_id is set, sig is PTHREAD_SIGNALLED
          currentWaiter,        \* TaskMeta::current_waiter is set
          currentSleep,         \* TaskMeta::current_sleep, 0 or the call it belongs to
          interrupted,          \* TaskMeta::interrupted
          ready,                \* how often the bthread is in a run queue
          pc, arg, calls, rc,   \* of each thread: step, arguments, call number, result
          tasks,                \* the tasks the timer thread will run
          adders,               \* calls of _add_sleep_event after TimerThread::schedule
          hold, at, seen,       \* of each eraser or waker: the waiters it still has to
                                \*   wake or erase, its step, the container it read
          ops, limit,           \* calls of each actor so far; the bound on the calls
          cause                 \* history: why the waiter is not in a queue any more

waiterVars == <<container, state, sleepId, sig, cause>>
metaVars == <<currentWaiter, currentSleep, interrupted>>
callVars == <<arg, calls, rc>>
timerVars == <<tasks, adders>>
eraserVars == <<hold, at, seen>>
vars == <<value, waiters, lock, waiterVars, metaVars, ready, pc, callVars, timerVars,
          eraserVars, ops, limit>>

NoArg == [b |-> None, v |-> None, timed |-> FALSE, prepend |-> FALSE]
Waiter(t) == <<t, calls[t]>>
ThreadOf(w) == w[1]

Init ==
  /\ value = [b \in Butexes |-> 0] /\ waiters = [b \in Butexes |-> <<>>]
  /\ lock = [b \in Butexes |-> None]
  /\ container = [t \in Threads |-> None] /\ state = [t \in Threads |-> "READY"]
  /\ sleepId = [t \in Threads |-> FALSE] /\ sig = [t \in Threads |-> FALSE]
  /\ cause = [t \in Threads |-> "none"]
  /\ currentWaiter = [t \in Interruptible |-> FALSE]
  /\ currentSleep = [t \in Interruptible |-> 0]
  /\ interrupted = [t \in Interruptible |-> FALSE]
  /\ ready = [t \in Bthreads |-> 0]
  /\ pc = [t \in Threads |-> "out"] /\ arg = [t \in Threads |-> NoArg]
  /\ calls = [t \in Threads |-> 0] /\ rc = [t \in Threads |-> "OK"]
  /\ tasks = {} /\ adders = {}
  /\ hold = [e \in Erasers |-> <<>>] /\ at = [e \in Erasers |-> "idle"]
  /\ seen = [e \in Erasers |-> None] 
  /\ ops = [a \in Actors |-> 0] /\ limit \in Limits

\* TimerThread::unschedule: what becomes of the task of one call, and whether it was
\* removed before it ran.
Unschedule(w) == tasks' = {k \in tasks : k.w # w}
Pending(w) == \E k \in tasks : k.w = w
Running(w) == at[TimerThread] # "idle" /\ hold[TimerThread] = <<w>>

\* g->ready_to_run_general(task_meta) and wakeup_pthread.
ReadyToRun(t) == ready' = [ready EXCEPT ![t] = @ + 1]
Wakeup(t) == IF t \in Bthreads THEN ReadyToRun(t) /\ UNCHANGED sig
                               ELSE sig' = [sig EXCEPT ![t] = TRUE] /\ UNCHANGED ready

-----------------------------------------------------------------------------
(* butex_wait *)

\* The waiter object is built and published as current_waiter.  A caller that finds another value,
\* or whose deadline has passed, has returned before and left nothing behind.
WaitStart(t) ==
  /\ pc[t] = "out" /\ calls[t] < limit[t]
  /\ \E b \in WaitButexes, timed \in Timed :
       arg' = [arg EXCEPT ![t] = [b |-> b, v |-> value[b], timed |-> timed, prepend |-> t \in Lifo]]
  /\ calls' = [calls EXCEPT ![t] = @ + 1] /\ rc' = [rc EXCEPT ![t] = "OK"]
  /\ IF t \in Interruptible THEN currentWaiter' = [currentWaiter EXCEPT ![t] = TRUE]
                            ELSE UNCHANGED currentWaiter
  /\ pc' = [pc EXCEPT ![t] = "lock"]
  /\ UNCHANGED <<value, waiters, lock, waiterVars, currentSleep, interrupted, ready, timerVars,
                 eraserVars, ops, limit>>

\* What follows when the thread does not sleep on the butex: a bthread has been switched out,
\* so it is made ready; a pthread goes on to the end of butex_wait_from_pthread.
NotQueued(t, st, r) ==
  /\ cause' = [cause EXCEPT ![t] = r]
  /\ IF t \in Bthreads
     THEN /\ state' = [state EXCEPT ![t] = st] /\ ReadyToRun(t)
          /\ pc' = [pc EXCEPT ![t] = "suspended"] /\ UNCHANGED rc
     ELSE /\ rc' = [rc EXCEPT ![t] = r]
          /\ pc' = [pc EXCEPT ![t] = IF t \in PthreadTasks THEN "exchange" ELSE "result"]
          /\ UNCHANGED <<state, ready>>

\* waiter_lock is taken, and kept if the value matches.
LockIf(t, matches) ==
  LET b == arg[t].b IN
  /\ pc[t] = "lock" /\ lock[b] = None
  /\ IF matches
     THEN /\ lock' = [lock EXCEPT ![b] = t] /\ pc' = [pc EXCEPT ![t] = "locked"]
          /\ UNCHANGED <<state, ready, cause, rc>>
     ELSE NotQueued(t, "UNMATCHEDVALUE", "EWOULDBLOCK") /\ UNCHANGED lock
  /\ UNCHANGED <<value, waiters, container, sleepId, sig, metaVars, arg, calls, timerVars,
                 eraserVars, ops, limit>>

\* (mutant) the comparison before the lock is believed
LockOnly(t) == LockIf(t, TRUE)

\* Under waiter_lock, the value is compared.
LockAndCompare(t) == LockIf(t, value[arg[t].b] = arg[t].v)

\* The thread was interrupted before it is queued.
EnqueueInterrupted(t) ==
  LET b == arg[t].b IN
  /\ pc[t] = "locked" /\ t \in Interruptible /\ interrupted[t]
  /\ NotQueued(t, "READY", "EINTR")
  /\ IF t \in Bthreads THEN UNCHANGED interrupted
                       ELSE interrupted' = [interrupted EXCEPT ![t] = FALSE]
  /\ lock' = [lock EXCEPT ![b] = None]
  /\ UNCHANGED <<value, waiters, container, sleepId, sig, currentWaiter, currentSleep, arg, calls,
                 timerVars, eraserVars, ops, limit>>

\* Otherwise it is queued, its container published and its timer set, before waiter_lock is
\* released.
Queued(t) ==
  LET b == arg[t].b
      task == [w |-> Waiter(t), fn |-> "erase_from_butex_and_wakeup"] IN
  /\ waiters' = [waiters EXCEPT ![b] = IF arg[t].prepend THEN <<Waiter(t)>> \o @
                                                         ELSE Append(@, Waiter(t))]
  /\ container' = [container EXCEPT ![t] = b]
  /\ IF t \in Bthreads /\ arg[t].timed
     THEN tasks' = tasks \cup {task} /\ sleepId' = [sleepId EXCEPT ![t] = TRUE]
     ELSE UNCHANGED <<tasks, sleepId>>
  /\ lock' = [lock EXCEPT ![b] = None]
  /\ pc' = [pc EXCEPT ![t] = IF t \in Bthreads THEN "suspended" ELSE "futex"]
  /\ UNCHANGED <<value, state, sig, cause, metaVars, ready, callVars, adders, eraserVars, ops, limit>>

\* (mutant) interrupted is not checked under version_lock
EnqueueUnchecked(t) == pc[t] = "locked" /\ Queued(t)
Enqueue(t) == pc[t] = "locked" /\ (t \in Interruptible => ~interrupted[t]) /\ Queued(t)

\* TimerThread::schedule returned 0: the waiter is taken back.
EnqueueNoTimer(t) ==
  LET b == arg[t].b IN
  /\ pc[t] = "locked" /\ t \in Bthreads /\ ~interrupted[t] /\ arg[t].timed
  /\ NotQueued(t, "TIMEDOUT", "ETIMEDOUT")
  /\ lock' = [lock EXCEPT ![b] = None]
  /\ UNCHANGED <<value, waiters, container, sleepId, sig, metaVars, arg, calls, timerVars,
                 eraserVars, ops, limit>>

\* The bthread runs again, in butex_wait or in usleep.
Resume(t) ==
  /\ t \in Bthreads /\ ready[t] > 0 /\ pc[t] \in {"suspended", "asleep"}
  /\ ready' = [ready EXCEPT ![t] = @ - 1]
  /\ pc' = [pc EXCEPT ![t] = IF @ = "suspended" THEN "unsleep" ELSE "awake"]
  /\ UNCHANGED <<value, waiters, lock, waiterVars, metaVars, callVars, timerVars, eraserVars, ops, limit>>

\* unsleep_if_necessary, with its result ignored.
UnsleepOnce(t) ==
  /\ pc[t] = "unsleep"
  /\ IF sleepId[t] THEN Unschedule(Waiter(t)) ELSE UNCHANGED tasks
  /\ sleepId' = [sleepId EXCEPT ![t] = FALSE]
  /\ pc' = [pc EXCEPT ![t] = "exchange"]
  /\ UNCHANGED <<value, waiters, lock, container, state, sig, cause, metaVars, ready, callVars,
                 adders, eraserVars, ops, limit>>

\* Spin until unsleep_if_necessary does not find the callback of its timer running.
Unsleep(t) == (sleepId[t] => ~Running(Waiter(t))) /\ UnsleepOnce(t)

\* Spin until current_waiter is not taken by an interruption.
Exchange(t) ==
  /\ pc[t] = "exchange" /\ currentWaiter[t]
  /\ currentWaiter' = [currentWaiter EXCEPT ![t] = FALSE]
  /\ pc' = [pc EXCEPT ![t] = "result"]
  /\ UNCHANGED <<value, waiters, lock, waiterVars, currentSleep, interrupted, ready, callVars,
                 timerVars, eraserVars, ops, limit>>

BthreadResult(t) ==
  CASE state[t] = "TIMEDOUT" -> "ETIMEDOUT"
    [] state[t] = "UNMATCHEDVALUE" -> "EWOULDBLOCK"
    [] OTHER -> IF interrupted[t] THEN "EINTR" ELSE "OK"
PthreadResult(t) ==
  IF /\ t \in PthreadTasks /\ interrupted[t]
     /\ rc[t] = "OK" \/ (rc[t] = "EWOULDBLOCK" /\ sig[t])
  THEN "EINTR" ELSE rc[t]

Result(t) ==
  /\ pc[t] = "result" /\ pc' = [pc EXCEPT ![t] = "leave"]
  /\ rc' = [rc EXCEPT ![t] = IF t \in Bthreads THEN BthreadResult(t) ELSE PthreadResult(t)]
  /\ interrupted' = [u \in Interruptible |-> u # t /\ interrupted[u]]
  /\ UNCHANGED <<value, waiters, lock, waiterVars, currentWaiter, currentSleep, ready, arg, calls,
                 timerVars, eraserVars, ops, limit>>

\* The call returns rc, and what its stack frame held is gone.
Leave(t) ==
  /\ pc[t] = "leave" /\ pc' = [pc EXCEPT ![t] = "out"] /\ rc' = [rc EXCEPT ![t] = "OK"]
  /\ arg' = [arg EXCEPT ![t] = NoArg] /\ state' = [state EXCEPT ![t] = "READY"]
  /\ sig' = [sig EXCEPT ![t] = FALSE] /\ cause' = [cause EXCEPT ![t] = "none"]
  /\ UNCHANGED <<value, waiters, lock, container, sleepId, metaVars, ready, calls, timerVars,
                 eraserVars, ops, limit>>

-----------------------------------------------------------------------------
(* wait_pthread *)

\* The end of wait_pthread: plain pthreads return, bthreads on pthreads have an epilogue.
PthreadWaited(t, r) ==
  /\ rc' = [rc EXCEPT ![t] = r]
  /\ pc' = [pc EXCEPT ![t] = IF t \in PthreadTasks THEN "exchange" ELSE "result"]

\* The futex was signalled, before futex_wait_private (EWOULDBLOCK) or in it.
FutexReturn(t) ==
  /\ pc[t] \in {"futex", "futexForever"} /\ sig[t]
  /\ \E r \in {"OK", "EWOULDBLOCK"} : PthreadWaited(t, r)
  /\ UNCHANGED <<value, waiters, lock, waiterVars, metaVars, ready, arg, calls, timerVars,
                 eraserVars, ops, limit>>

\* The futex timed out.  Unless it was signalled meanwhile, the waiter erases itself.
FutexTimeout(t) ==
  /\ pc[t] = "futex" /\ arg[t].timed
  /\ IF sig[t]
     THEN PthreadWaited(t, "ETIMEDOUT") /\ UNCHANGED <<hold, at>>
     ELSE /\ pc' = [pc EXCEPT ![t] = "erasing"] /\ hold' = [hold EXCEPT ![t] = <<Waiter(t)>>]
          /\ at' = [at EXCEPT ![t] = "load"] /\ UNCHANGED rc
  /\ UNCHANGED <<value, waiters, lock, waiterVars, metaVars, ready, arg, calls, timerVars, seen, ops, limit>>

-----------------------------------------------------------------------------
(* erase_from_butex, called by the timer thread, by an interruption, and by a pthread that *)
(* timed out *)

\* What the caller does next.  A pthread that did not erase itself will be signalled, and waits
\* for that without a deadline.
EraseReturn(e, erased) ==
  /\ at' = [at EXCEPT ![e] = IF e \in Actors THEN "back" ELSE "idle"]
  /\ hold' = [hold EXCEPT ![e] = IF e \in Actors THEN @ ELSE <<>>]
  /\ seen' = [seen EXCEPT ![e] = None]
  /\ IF e \in Threads
     THEN IF erased \/ sig[e]
          THEN PthreadWaited(e, "ETIMEDOUT")
          ELSE pc' = [pc EXCEPT ![e] = "futexForever"] /\ UNCHANGED rc
     ELSE UNCHANGED <<pc, rc>>

EraseLoad(e) ==
  LET b == container[ThreadOf(Head(hold[e]))] IN
  /\ at[e] = "load"
  /\ IF b = None
     THEN EraseReturn(e, FALSE)
     ELSE /\ at' = [at EXCEPT ![e] = "lock"] /\ seen' = [seen EXCEPT ![e] = b]
          /\ UNCHANGED <<hold, pc, rc>>
  /\ UNCHANGED <<value, waiters, lock, waiterVars, metaVars, ready, arg, calls, timerVars, ops, limit>>

EraseIf(e, matches) ==
  LET w == Head(hold[e])
      t == ThreadOf(w)
      b == seen[e]
      reason == IF e \in Actors THEN "EINTR" ELSE "ETIMEDOUT" IN
  /\ at[e] = "lock" /\ lock[b] = None
  /\ IF matches
     THEN /\ waiters' = [waiters EXCEPT ![b] = Remove(@, w)]
          /\ container' = [container EXCEPT ![t] = None]
          /\ cause' = [cause EXCEPT ![t] = reason]
          /\ IF t \in Bthreads
             THEN state' = [state EXCEPT ![t] = IF e \in Actors THEN "INTERRUPTED" ELSE "TIMEDOUT"]
             ELSE UNCHANGED state
          /\ IF e \in Threads
             THEN EraseReturn(e, TRUE)
             ELSE /\ at' = [at EXCEPT ![e] = "wakeup"] /\ seen' = [seen EXCEPT ![e] = None]
                  /\ UNCHANGED <<hold, pc, rc>>
     ELSE /\ at' = [at EXCEPT ![e] = "load"] /\ seen' = [seen EXCEPT ![e] = None]
          /\ UNCHANGED <<waiters, container, cause, state, hold, pc, rc>>
  /\ UNCHANGED <<value, lock, sleepId, sig, metaVars, ready, arg, calls, timerVars, ops, limit>>

\* (mutant) the container is not read again
EraseUnchecked(e) == EraseIf(e, TRUE)

\* Under the lock of the container that was read, if it still is the container.
EraseLock(e) == EraseIf(e, container[ThreadOf(Head(hold[e]))] = seen[e])

EraseWakeup(e) ==
  /\ at[e] = "wakeup"
  /\ Wakeup(ThreadOf(Head(hold[e]))) /\ EraseReturn(e, TRUE)
  /\ UNCHANGED <<value, waiters, lock, container, state, sleepId, cause, metaVars, arg, calls,
                 timerVars, ops, limit>>

-----------------------------------------------------------------------------
(* The timer thread runs a task whose time has come. *)

\* run_and_delete marks the task as running and calls its function.
TimerRun ==
  /\ at[TimerThread] = "idle"
  /\ \E k \in tasks :
       /\ tasks' = tasks \ {k}
       /\ hold' = [hold EXCEPT ![TimerThread] = <<k.w>>]
       /\ at' = [at EXCEPT ![TimerThread] =
                   IF k.fn = "erase_from_butex_and_wakeup" THEN "load" ELSE "wakeup"]
  /\ UNCHANGED <<value, waiters, lock, waiterVars, metaVars, ready, pc, callVars, adders, seen, ops, limit>>

-----------------------------------------------------------------------------
(* The wakers *)

Store(a, b, v) ==
  /\ at[a] = "idle" /\ ops[a] < limit[a] /\ value[b] # v
  /\ value' = [value EXCEPT ![b] = v] /\ ops' = [ops EXCEPT ![a] = @ + 1]
  /\ UNCHANGED <<waiters, lock, waiterVars, metaVars, ready, pc, callVars, timerVars, eraserVars, limit>>

IsBthread(w) == ThreadOf(w) \in Bthreads
IsPthread(w) == ThreadOf(w) \notin Bthreads

\* The waiters ws have left their queue and are woken one by one: pthreads first, bthreads in
\* reverse.
Take(a, ws) ==
  /\ hold' = [hold EXCEPT ![a] = SelectSeq(ws, IsPthread) \o Reverse(SelectSeq(ws, IsBthread))]
  /\ at' = [at EXCEPT ![a] = IF ws = <<>> THEN "idle" ELSE "waking"]
  /\ cause' = [t \in Threads |-> IF \E i \in DOMAIN ws : ThreadOf(ws[i]) = t THEN "OK" ELSE cause[t]]
  /\ ops' = [ops EXCEPT ![a] = @ + 1]

ButexWake(a, b) ==
  /\ at[a] = "idle" /\ ops[a] < limit[a] /\ lock[b] = None /\ waiters[b] # <<>>
  /\ waiters' = [waiters EXCEPT ![b] = Tail(@)]
  /\ container' = [container EXCEPT ![ThreadOf(Head(waiters[b]))] = None]
  /\ Take(a, <<Head(waiters[b])>>)
  /\ UNCHANGED <<value, lock, state, sleepId, sig, metaVars, ready, pc, callVars, timerVars, seen, limit>>

\* butex_wake_all, and butex_wake_except with the bthread x (None: nobody) left in the queue.
ButexWakeExcept(a, b, x) ==
  LET Left(w) == ThreadOf(w) = x
      Woken(w) == ~Left(w) IN
  /\ at[a] = "idle" /\ ops[a] < limit[a] /\ lock[b] = None /\ waiters[b] # <<>>
  /\ waiters' = [waiters EXCEPT ![b] = SelectSeq(@, Left)]
  /\ container' = [t \in Threads |-> IF container[t] = b /\ t # x THEN None ELSE container[t]]
  /\ Take(a, SelectSeq(waiters[b], Woken))
  /\ UNCHANGED <<value, lock, state, sleepId, sig, metaVars, ready, pc, callVars, timerVars, seen, limit>>

\* One waiter is woken, the others wait on m instead.
ButexRequeue(a, b, m) ==
  LET moved == Tail(waiters[b]) IN
  /\ at[a] = "idle" /\ ops[a] < limit[a] /\ b # m
  /\ lock[b] = None /\ lock[m] = None /\ waiters[b] # <<>>
  /\ waiters' = [waiters EXCEPT ![b] = <<>>, ![m] = @ \o moved]
  /\ container' = [t \in Threads |->
       IF ThreadOf(Head(waiters[b])) = t THEN None
       ELSE IF \E i \in DOMAIN moved : ThreadOf(moved[i]) = t THEN m ELSE container[t]]
  /\ Take(a, <<Head(waiters[b])>>)
  /\ UNCHANGED <<value, lock, state, sleepId, sig, metaVars, ready, pc, callVars, timerVars, seen, limit>>

\* unsleep_if_necessary and ready_to_run of the next waiter taken, or its wakeup_pthread.
WakeNext(a) ==
  LET w == Head(hold[a])
      t == ThreadOf(w) IN
  /\ at[a] = "waking"
  /\ IF t \in Bthreads /\ sleepId[t] /\ ~Running(w)
     THEN Unschedule(w) /\ sleepId' = [sleepId EXCEPT ![t] = FALSE]
     ELSE UNCHANGED <<tasks, sleepId>>
  /\ Wakeup(t)
  /\ hold' = [hold EXCEPT ![a] = Tail(@)]
  /\ at' = [at EXCEPT ![a] = IF Len(hold[a]) = 1 THEN "idle" ELSE "waking"]
  /\ UNCHANGED <<value, waiters, lock, container, state, cause, metaVars, pc, callVars, adders,
                 seen, ops, limit>>

-----------------------------------------------------------------------------
(* TaskGroup::interrupt *)

\* interrupt_and_consume_waiters, under version_lock.
Interrupt(a, t) ==
  /\ at[a] = "idle" /\ ops[a] < limit[a] /\ ops' = [ops EXCEPT ![a] = @ + 1]
  /\ interrupted' = [interrupted EXCEPT ![t] = TRUE]
  /\ currentWaiter' = [currentWaiter EXCEPT ![t] = FALSE]
  /\ currentSleep' = [currentSleep EXCEPT ![t] = 0]
  /\ \/ /\ currentWaiter[t]
        /\ hold' = [hold EXCEPT ![a] = <<Waiter(t)>>] /\ at' = [at EXCEPT ![a] = "load"]
     \/ /\ ~currentWaiter[t] /\ currentSleep[t] # 0
        /\ hold' = [hold EXCEPT ![a] = << <<t, currentSleep[t]>> >>]
        /\ at' = [at EXCEPT ![a] = "unsleep"]
     \/ ~currentWaiter[t] /\ currentSleep[t] = 0 /\ UNCHANGED <<hold, at>>
  /\ UNCHANGED <<value, waiters, lock, waiterVars, ready, pc, callVars, timerVars, seen, limit>>

\* set_butex_waiter, after the waiter was erased or found erased.
SetBack(a) ==
  /\ at[a] = "back"
  /\ currentWaiter' = [currentWaiter EXCEPT ![ThreadOf(Head(hold[a]))] = TRUE]
  /\ hold' = [hold EXCEPT ![a] = <<>>] /\ at' = [at EXCEPT ![a] = "idle"]
  /\ UNCHANGED <<value, waiters, lock, waiterVars, currentSleep, interrupted, ready, pc, callVars,
                 timerVars, seen, ops, limit>>

\* The task of a sleeping bthread is unscheduled; if it had not run, the bthread is made ready.
InterruptSleep(a) ==
  LET w == Head(hold[a]) IN
  /\ at[a] = "unsleep"
  /\ Unschedule(w)
  /\ IF Pending(w) THEN ReadyToRun(ThreadOf(w)) ELSE UNCHANGED ready
  /\ hold' = [hold EXCEPT ![a] = <<>>] /\ at' = [at EXCEPT ![a] = "idle"]
  /\ UNCHANGED <<value, waiters, lock, waiterVars, metaVars, pc, callVars, adders, seen, ops, limit>>

-----------------------------------------------------------------------------
(* TaskGroup::usleep *)

SleepStart(t) ==
  /\ pc[t] = "out" /\ calls[t] < limit[t]
  /\ calls' = [calls EXCEPT ![t] = @ + 1]
  /\ pc' = [pc EXCEPT ![t] = "sleep"]
  /\ UNCHANGED <<value, waiters, lock, waiterVars, metaVars, ready, arg, rc, timerVars, eraserVars,
                 ops, limit>>

\* _add_sleep_event, which runs on the worker after it has left the bthread.  When the task
\* cannot be scheduled the bthread is made ready again.
AddSleepEvent(t) ==
  LET w == Waiter(t) IN
  /\ pc[t] = "sleep" /\ pc' = [pc EXCEPT ![t] = "asleep"]
  /\ \/ /\ tasks' = tasks \cup {[w |-> w, fn |-> "ready_to_run_from_timer_thread"]}
        /\ adders' = adders \cup {[w |-> w, step |-> "check"]}
        /\ UNCHANGED <<ready, state>>
     \/ ReadyToRun(t) /\ state' = [state EXCEPT ![t] = "sleep_failed"] /\ UNCHANGED timerVars
  /\ UNCHANGED <<value, waiters, lock, container, sleepId, sig, cause, metaVars, callVars,
                 eraserVars, ops, limit>>

\* Its rest races with the bthread, which the timer may have woken already.
AddSleepCheck(k) ==
  LET t == ThreadOf(k.w) IN
  /\ k.step = "check"
  /\ IF interrupted[t]
     THEN /\ adders' = (adders \ {k}) \cup {[k EXCEPT !.step = "unschedule"]}
          /\ UNCHANGED currentSleep
     ELSE /\ currentSleep' = [currentSleep EXCEPT ![t] = k.w[2]]
          /\ adders' = adders \ {k}
  /\ UNCHANGED <<value, waiters, lock, waiterVars, currentWaiter, interrupted, ready, pc, callVars,
                 tasks, eraserVars, ops, limit>>

AddSleepCancel(k) ==
  /\ k.step = "unschedule" /\ adders' = adders \ {k}
  /\ Unschedule(k.w)
  /\ IF Pending(k.w) THEN ReadyToRun(ThreadOf(k.w)) ELSE UNCHANGED ready
  /\ UNCHANGED <<value, waiters, lock, waiterVars, metaVars, pc, callVars, eraserVars, ops, limit>>

\* usleep goes on when the bthread runs again.  What it returns is left out.
SleepEnd(t) ==
  /\ pc[t] = "awake" /\ pc' = [pc EXCEPT ![t] = "leave"]
  /\ IF state[t] = "sleep_failed"
     THEN UNCHANGED <<currentSleep, interrupted>>
     ELSE /\ currentSleep' = [currentSleep EXCEPT ![t] = 0]
          /\ interrupted' = [interrupted EXCEPT ![t] = FALSE]
  /\ UNCHANGED <<value, waiters, lock, waiterVars, currentWaiter, ready, callVars, timerVars,
                 eraserVars, ops, limit>>

-----------------------------------------------------------------------------

Erase(e) == EraseLoad(e) \/ EraseLock(e) \/ EraseWakeup(e)
WaitStep(t) ==
  \/ LockAndCompare(t) \/ EnqueueInterrupted(t) \/ Enqueue(t) \/ EnqueueNoTimer(t)
  \/ Resume(t) \/ Unsleep(t) \/ Exchange(t) \/ Result(t) \/ Leave(t)
  \/ FutexReturn(t) \/ FutexTimeout(t)
SleepStep(t) == AddSleepEvent(t) \/ SleepEnd(t)
ThreadStep(t) == WaitStep(t) \/ SleepStep(t) \/ (t \in Erasers /\ Erase(t))
ActorStep(a) == WakeNext(a) \/ SetBack(a) \/ InterruptSleep(a) \/ Erase(a)
TimerStep == TimerRun \/ Erase(TimerThread)
AdderStep == \E k \in adders : AddSleepCheck(k) \/ AddSleepCancel(k)

Next ==
  \/ \E t \in Threads : WaitStart(t) \/ ThreadStep(t)
  \/ \E t \in Sleepers : SleepStart(t)
  \/ \E a \in Actors : ActorStep(a)
  \/ TimerStep
  \/ AdderStep
  \/ \E a \in Interrupters, t \in Interruptible : Interrupt(a, t)
  \/ \E a \in Wakers, b \in Butexes :
       \/ b \in WaitButexes /\ \E v \in Values : Store(a, b, v)
       \/ ButexWake(a, b)
       \/ \E x \in Bthreads \cup {None} : ButexWakeExcept(a, b, x)
       \/ \E m \in Butexes \ WaitButexes : ButexRequeue(a, b, m)

\* A thread that can go on does so, and the timer thread runs its tasks: the kernel runs every
\* pthread, and a bthread in a run queue is picked up by some worker.
Fairness ==
  /\ \A t \in Threads : WF_vars(ThreadStep(t))
  /\ \A a \in Actors : WF_vars(ActorStep(a))
  /\ WF_vars(TimerStep) /\ WF_vars(AdderStep)

Spec == Init /\ [][Next]_vars /\ Fairness

-----------------------------------------------------------------------------
(* Properties *)

Codes == {"OK", "EWOULDBLOCK", "ETIMEDOUT", "EINTR"}

\* Types of the variables, and a waiter is in the queue of its container and in no other.
TypeOK ==
  /\ value \in [Butexes -> Values] /\ lock \in [Butexes -> Threads \cup {None}]
  /\ \A b \in Butexes : \A i \in DOMAIN waiters[b] : waiters[b][i][2] \in 1..calls[ThreadOf(waiters[b][i])]
  /\ container \in [Threads -> Butexes \cup {None}]
  /\ \A b \in Butexes, t \in Threads : container[t] = b <=> Contains(waiters[b], Waiter(t))
  /\ rc \in [Threads -> Codes] /\ \A t \in Threads : calls[t] \in 0..limit[t]
  /\ \A t \in Interruptible : currentSleep[t] \in 0..calls[t]
  /\ interrupted \in [Interruptible -> BOOLEAN] /\ currentWaiter \in [Interruptible -> BOOLEAN]

\* A bthread that was switched out, in butex_wait or in usleep, is put in a run queue at most once
\* before it runs again, whichever of the waker, the timer thread, the interruption and its own
\* worker come first: two workers would run it on one stack.
ReadyOnce ==
  \A t \in Bthreads : ready[t] > 0 =>
    ready[t] = 1 /\ pc[t] \in {"suspended", "asleep"} /\ container[t] = None

Live(w) == calls[ThreadOf(w)] = w[2] /\ pc[ThreadOf(w)] # "out"

\* Whoever holds a pointer to a waiter, a queue, a waker, an interruption or a task of the timer
\* thread, holds one whose call has not returned: the object is on the stack of that call.
NoDanglingWaiter ==
  /\ \A b \in Butexes : \A i \in DOMAIN waiters[b] : Live(waiters[b][i])
  /\ \A k \in tasks : Live(k.w)
  /\ \A e \in Erasers : at[e] # "unsleep" => \A i \in DOMAIN hold[e] : Live(hold[e][i])

\* The abstract view: a thread that has compared the value and holds waiter_lock is in the queue.
Status(t) ==
  CASE pc[t] \in {"out", "sleep", "asleep", "awake"} -> "out"
    [] pc[t] = "leave" -> IF arg[t] = NoArg THEN "out" ELSE "returned"
    [] pc[t] = "lock" -> "calling"
    [] OTHER -> IF cause[t] = "none" THEN "waiting" ELSE cause[t]
Queue(b) ==
  LET queued == [i \in DOMAIN waiters[b] |-> ThreadOf(waiters[b][i])] IN
  IF lock[b] = None THEN queued
  ELSE IF arg[lock[b]].prepend THEN <<lock[b]>> \o queued ELSE Append(queued, lock[b])

F == INSTANCE Futex WITH
       Exact <- Bthreads, NoWant <- NoArg, want <- arg,
       queue <- [b \in Butexes |-> Queue(b)],
       status <- [t \in Threads |-> Status(t)],
       interrupted <- [t \in Threads |-> t \in Interruptible /\ interrupted[t]],
       result <- [t \in Threads |-> IF pc[t] = "leave" THEN rc[t] ELSE "OK"]

\* The butex implements the atomic futex: no store and wake fall between the comparison of the
\* value and the entry into the queue, a waiter is removed once, by its waker, its timer or its
\* interruption, and what butex_wait returns tells which.
ImplementsFutex == F!Spec

Inside(t) == pc[t] # "out"

\* The call of t has a deadline, or t has been interrupted.
Due(t) ==
  /\ Inside(t)
  /\ arg[t].timed \/ pc[t] = "asleep" \/ (t \in Interruptible /\ interrupted[t])

\* A call with a deadline returns, and so does one that is interrupted: neither of the two is lost
\* between the check and the sleep, and the spinning at the end of butex_wait ends.
DueWaitReturns == \A t \in Threads : Due(t) ~> ~Inside(t)
=============================================================================
