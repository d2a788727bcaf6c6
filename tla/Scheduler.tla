------------------------------ MODULE Scheduler ------------------------------
(***************************************************************************)
(* How ready bthreads reach worker pthreads: TaskGroup (run queues, sched, *)
(* wait_task), TaskControl (steal_task, signal_task, growth, stop) and     *)
(* ParkingLot, where idle workers sleep (bthread/task_group.cpp,           *)
(* task_control.cpp, parking_lot.h, remote_task_queue.h), for one tag.     *)
(*                                                                         *)
(* A step is one access to shared memory.  The run queue of a worker is    *)
(* the deque that WorkStealingQueue.tla implements; the fences of          *)
(* ParkingLot make its two words sequentially consistent.  Steps of stack  *)
(* switching touch nothing shared and are left out.                        *)
(***************************************************************************)
EXTENDS Integers, Sequences, SequencesExt

CONSTANTS Workers,        \* worker pthreads, running or to be added by signal_task
          Clients,        \* pthreads that are not workers
          NLots,          \* _pl_num_of_each_tag
          RqCap, RemoteCap,
          NTasks,         \* bound on the bthreads ever created
          Plans,          \* what the program does: see Init
          None

ASSUME SchedulerAssumption ==
  /\ NLots \in Nat \ {0}
  /\ NTasks \in Nat /\ RqCap \in Nat \ {0} /\ RemoteCap \in Nat \ {0}
  /\ \A p \in Plans : /\ p.noSignal \in BOOLEAN /\ p.stop \in BOOLEAN
                      /\ p.initial \subseteq Workers /\ p.initial # {}
                      /\ p.home \in [Workers \cup Clients -> 0..(NLots - 1)]

Lots == 0..(NLots - 1)
Tasks == 1..NTasks
Threads == Workers \cup Clients

VARIABLES plan,                \* the plan of this behaviour
          groups,              \* _tagged_groups[0 .. ngroup - 1]: their workers
          stopping,            \* how far stop_and_join has come, 0 when it was not called
          rq, remote,          \* _rq and _remote_rq of each group
          nosig, rnosig,       \* _num_nosignal and _remote_num_nosignal
          pending, waiters,    \* _pending_signal and _waiter_num of each lot
          pc,                  \* what each thread does next
          cur,                 \* the bthread a worker runs, None in its main task
          job,                 \* the bthread a thread is to make ready, and how
          sig,                 \* signal_task: workers still to wake, lots tried
          last,                \* _last_pl_state
          todo, at,            \* steal_task: groups to visit; the group whose _rq was empty
          cached,              \* tls_task_group_nosignal of a client
          made,                \* bthreads created so far
          budget               \* how often each call may still be made

queues == <<rq, remote, nosig, rnosig>>
lotVars == <<pending, waiters>>
local == <<cur, job, last, todo, at>>
env == <<plan, cached, made, budget>>
vars == <<env, groups, stopping, queues, lotVars, pc, local, sig>>

\* A plan says how often each call is made at most, with which workers
\* TaskControl::init starts, at which lot each thread is at home, whether
\* stop_and_join is called, and what FLAGS_parking_lot_no_signal_when_no_waiter is.
Init ==
  /\ plan \in Plans
  /\ groups = plan.initial /\ stopping = 0
  /\ rq = [w \in Workers |-> <<>>] /\ remote = [w \in Workers |-> <<>>]
  /\ nosig = [w \in Workers |-> 0] /\ rnosig = [w \in Workers |-> 0]
  /\ pending = [l \in Lots |-> 0] /\ waiters = [l \in Lots |-> 0]
  /\ pc = [p \in Threads |-> IF p \in plan.initial THEN "wait" ELSE IF p \in Workers THEN "none" ELSE "idle"]
  /\ cur = [w \in Workers |-> None] /\ job = [p \in Threads |-> None]
  /\ sig = [p \in Threads |-> None]
  /\ last = [w \in Workers |-> 0]
  /\ todo = [w \in Workers |-> {}] /\ at = [w \in Workers |-> None]
  /\ cached = [c \in Clients |-> None] /\ made = 0 /\ budget = plan.calls

Home == plan.home                          \* fmix64(pthread_numeric_id()) % NLots of each thread
Goto(p, step) == pc' = [pc EXCEPT ![p] = step]
Stopped(state) == state % 2 = 1

\* A worker goes on with the bthread next, or with wait_task in its main task.
Resume(next) == IF next = None THEN "wait" ELSE "run"
-----------------------------------------------------------------------------
(* ParkingLot::wait, from wait_task *)

WaitCheck(w) ==
  /\ pc[w] = "wait"
  /\ Goto(w, CASE Stopped(last[w]) -> "gone"
               [] ~Stopped(last[w]) /\ pending[Home[w]] # last[w] -> "own"
               [] OTHER -> IF plan.noSignal THEN "publish" ELSE "futex")
  /\ groups' = IF Stopped(last[w]) THEN groups \ {w} ELSE groups
  /\ UNCHANGED <<env, stopping, queues, lotVars, local, sig>>

Publish(w) ==
  /\ pc[w] = "publish"
  /\ waiters' = [waiters EXCEPT ![Home[w]] = @ + 1]
  /\ Goto(w, "recheck")
  /\ UNCHANGED <<env, groups, stopping, queues, pending, local, sig>>

Recheck(w) ==
  /\ pc[w] = "recheck"
  /\ Goto(w, IF pending[Home[w]] = last[w] THEN "futex" ELSE "leave")
  /\ UNCHANGED <<env, groups, stopping, queues, lotVars, local, sig>>

AfterFutex == IF plan.noSignal THEN "leave" ELSE "own"

\* The kernel compares the word and puts the thread to sleep in one step.
FutexWait(w) ==
  /\ pc[w] = "futex"
  /\ Goto(w, IF pending[Home[w]] = last[w] THEN "asleep" ELSE AfterFutex)
  /\ UNCHANGED <<env, groups, stopping, queues, lotVars, local, sig>>

Leave(w) ==
  /\ pc[w] = "leave"
  /\ waiters' = [waiters EXCEPT ![Home[w]] = @ - 1]
  /\ Goto(w, "own")
  /\ UNCHANGED <<env, groups, stopping, queues, pending, local, sig>>

Park(w) == WaitCheck(w) \/ Publish(w) \/ Recheck(w) \/ FutexWait(w) \/ Leave(w)
-----------------------------------------------------------------------------
(* Looking for a bthread to run: sched, ending_sched and steal_task *)

\* The search of w is over; a bthread that w left by yielding is made ready first.
Switch(w, next) ==
  /\ cur' = [cur EXCEPT ![w] = next]
  /\ Goto(w, IF job[w] # None THEN "push" ELSE Resume(next))
  /\ todo' = [todo EXCEPT ![w] = {}] /\ at' = [at EXCEPT ![w] = None]

PopOwn(w) ==
  /\ pc[w] = "pop"
  /\ IF rq[w] = <<>>
       THEN Goto(w, "own") /\ UNCHANGED <<rq, cur, todo, at>>
       ELSE /\ Switch(w, rq[w][Len(rq[w])])
            /\ rq' = [rq EXCEPT ![w] = SubSeq(@, 1, Len(@) - 1)]
  /\ UNCHANGED <<env, groups, stopping, remote, nosig, rnosig, lotVars, job, last, sig>>

PopOwnRemote(w) ==
  /\ pc[w] = "own"
  /\ IF remote[w] = <<>>
       THEN Goto(w, "state") /\ UNCHANGED <<remote, cur, todo, at>>
       ELSE /\ Switch(w, Head(remote[w]))
            /\ remote' = [remote EXCEPT ![w] = Tail(@)]
  /\ UNCHANGED <<env, groups, stopping, rq, nosig, rnosig, lotVars, job, last, sig>>

SaveState(w) ==
  /\ pc[w] = "state"
  /\ last' = [last EXCEPT ![w] = pending[Home[w]]]
  /\ Goto(w, "ngroup")
  /\ UNCHANGED <<env, groups, stopping, queues, lotVars, cur, job, todo, at, sig>>

LoadNgroup(w) ==
  /\ pc[w] = "ngroup"
  /\ todo' = [todo EXCEPT ![w] = groups]
  /\ Goto(w, "scan")
  /\ UNCHANGED <<env, groups, stopping, queues, lotVars, cur, job, last, at, sig>>

\* The seed and the stride are random: the groups are visited in any order.
StealRq(w, g) ==
  /\ pc[w] = "scan" /\ at[w] = None /\ g \in todo[w]
  /\ IF rq[g] = <<>>
       THEN /\ at' = [at EXCEPT ![w] = g] /\ todo' = [todo EXCEPT ![w] = @ \ {g}]
            /\ UNCHANGED <<rq, cur, pc>>
       ELSE Switch(w, Head(rq[g])) /\ rq' = [rq EXCEPT ![g] = Tail(@)]
  /\ UNCHANGED <<env, groups, stopping, remote, nosig, rnosig, lotVars, job, last, sig>>

StealRemote(w) ==
  /\ pc[w] = "scan" /\ at[w] # None
  /\ LET g == at[w] IN
       IF remote[g] = <<>>
         THEN at' = [at EXCEPT ![w] = None] /\ UNCHANGED <<remote, cur, todo, pc>>
         ELSE Switch(w, Head(remote[g])) /\ remote' = [remote EXCEPT ![g] = Tail(@)]
  /\ UNCHANGED <<env, groups, stopping, rq, nosig, rnosig, lotVars, job, last, sig>>

\* (mutant) the state of the lot is taken after the search
NothingFoundLate(w) ==
  /\ pc[w] = "scan" /\ at[w] = None /\ todo[w] = {}
  /\ Switch(w, None)
  /\ last' = [last EXCEPT ![w] = pending[Home[w]]]
  /\ UNCHANGED <<env, groups, stopping, queues, lotVars, job, sig>>

NothingFound(w) ==
  /\ pc[w] = "scan" /\ at[w] = None /\ todo[w] = {}
  /\ Switch(w, None)
  /\ UNCHANGED <<env, groups, stopping, queues, lotVars, job, last, sig>>

Search(w) ==
  \/ PopOwn(w) \/ PopOwnRemote(w) \/ SaveState(w) \/ LoadNgroup(w)
  \/ StealRemote(w) \/ NothingFound(w)
  \/ \E g \in Workers : StealRq(w, g)
-----------------------------------------------------------------------------
(* TaskControl::signal_task and ParkingLot::signal *)

Signalling(n) == [num |-> IF n > 2 THEN 2 ELSE n, tried |-> 0]

SignalTask(p, n) == sig' = [sig EXCEPT ![p] = Signalling(n)] /\ Goto(p, "add")

\* Where p returns to from signal_task: a full queue is tried again.
After(p) ==
  CASE job[p] # None -> "push"
    [] job[p] = None /\ p \in Clients -> "idle"
    [] OTHER -> Resume(cur[p])

Target(p) == (Home[p] + sig[p].tried) % NLots

\* The lot is done, having woken these workers.
NextLot(p, woken) ==
  LET s == [num |-> sig[p].num - Cardinality(woken), tried |-> sig[p].tried + 1]
      step == IF s.num = 0 THEN After(p) ELSE IF s.tried = NLots THEN "grow" ELSE "add"
  IN  /\ sig' = [sig EXCEPT ![p] = IF s.num = 0 THEN None ELSE s]
      /\ pc' = [q \in Threads |-> IF q = p THEN step ELSE IF q \in woken THEN AfterFutex ELSE pc[q]]

\* (mutant) the waiters are looked at before the signal is stored
SignalAddUnordered(p) ==
  /\ pc[p] = "add"
  /\ IF plan.noSignal /\ waiters[Target(p)] = 0
       THEN NextLot(p, {}) /\ UNCHANGED pending
       ELSE /\ pending' = [pending EXCEPT ![Target(p)] = @ + 2]
            /\ Goto(p, "wake") /\ UNCHANGED sig
  /\ UNCHANGED <<env, groups, stopping, queues, waiters, local>>

SignalAdd(p) ==
  /\ pc[p] = "add"
  /\ pending' = [pending EXCEPT ![Target(p)] = @ + 2]
  /\ Goto(p, IF plan.noSignal THEN "load" ELSE "wake")
  /\ UNCHANGED <<env, groups, stopping, queues, waiters, local, sig>>

SignalLoad(p) ==
  /\ pc[p] = "load"
  /\ IF waiters[Target(p)] = 0 THEN NextLot(p, {}) ELSE Goto(p, "wake") /\ UNCHANGED sig
  /\ UNCHANGED <<env, groups, stopping, queues, lotVars, local>>

Asleep(l) == {w \in Workers : pc[w] = "asleep" /\ Home[w] = l}

\* futex_wake of one worker of the lot, if one sleeps there.
SignalWake(p) ==
  /\ pc[p] = "wake"
  /\ \/ Asleep(Target(p)) = {} /\ NextLot(p, {})
     \/ \E w \in Asleep(Target(p)) : NextLot(p, {w})
  /\ UNCHANGED <<env, groups, stopping, queues, lotVars, local>>

\* add_workers(1) as long as there are fewer workers than FLAGS_bthread_concurrency.
Grow(p) ==
  /\ pc[p] = "grow"
  /\ LET free == {w \in Workers : pc[w] = "none"} IN
       pc' = [q \in Threads |-> IF q = p THEN After(p)
                                ELSE IF free # {} /\ q = (CHOOSE w \in free : TRUE) THEN "new" ELSE pc[q]]
  /\ sig' = [sig EXCEPT ![p] = None]
  /\ UNCHANGED <<env, groups, stopping, queues, lotVars, local>>

\* worker_thread of a new worker: _add_group refuses it once _stop is set.
AddGroup(w) ==
  /\ pc[w] = "new"
  /\ IF stopping > 0 THEN Goto(w, "gone") /\ UNCHANGED groups
                     ELSE Goto(w, "wait") /\ groups' = groups \cup {w}
  /\ UNCHANGED <<env, stopping, queues, lotVars, local, sig>>

Signal(p) == SignalAdd(p) \/ SignalLoad(p) \/ SignalWake(p) \/ Grow(p)
-----------------------------------------------------------------------------
(* Making bthreads ready.  A nosignal bthread is only counted; ignore is the   *)
(* parent of an urgent bthread that is about to quit.                          *)

Job(t, how, g) == [task |-> t, how |-> how, group |-> g]
NewTask == made + 1

\* One of the calls that the plan allows
Spend(call, how) ==
  /\ <<call, how>> \in DOMAIN budget /\ budget[<<call, how>>] > 0
  /\ budget' = [budget EXCEPT ![<<call, how>>] = @ - 1]
Create(call, how) == Spend(call, how) /\ made < NTasks /\ made' = NewTask

\* ready_to_run and push_rq, by a worker, on its own group
ReadyToRun(w) ==
  /\ pc[w] = "push" /\ w \in Workers
  /\ IF Len(rq[w]) < RqCap
       THEN /\ rq' = [rq EXCEPT ![w] = Append(@, job[w].task)]
            /\ job' = [job EXCEPT ![w] = None]
            /\ IF job[w].how = "signal"
                 THEN SignalTask(w, 1 + nosig[w]) /\ nosig' = [nosig EXCEPT ![w] = 0]
                 ELSE /\ Goto(w, Resume(cur[w])) /\ UNCHANGED sig
                      /\ nosig' = [nosig EXCEPT ![w] = @ + (IF job[w].how = "nosignal" THEN 1 ELSE 0)]
       ELSE /\ nosig[w] > 0                     \* full: flush, then try again
            /\ SignalTask(w, nosig[w]) /\ nosig' = [nosig EXCEPT ![w] = 0]
            /\ UNCHANGED <<rq, job>>
  /\ UNCHANGED <<env, groups, stopping, remote, rnosig, lotVars, cur, last, todo, at>>

\* (mutant) waits for space in a full queue without waking those who make it
ReadyToRunRemoteSpins(c) ==
  /\ pc[c] = "push" /\ c \in Clients /\ Len(remote[job[c].group]) < RemoteCap
  /\ LET g == job[c].group IN
       /\ remote' = [remote EXCEPT ![g] = Append(@, job[c].task)]
       /\ job' = [job EXCEPT ![c] = None]
       /\ IF job[c].how = "signal"
            THEN SignalTask(c, 1 + rnosig[g]) /\ rnosig' = [rnosig EXCEPT ![g] = 0]
            ELSE Goto(c, "idle") /\ rnosig' = [rnosig EXCEPT ![g] = @ + 1] /\ UNCHANGED sig
  /\ UNCHANGED <<env, groups, stopping, rq, nosig, lotVars, cur, last, todo, at>>

\* ready_to_run_remote, under the mutex of _remote_rq
ReadyToRunRemote(c) ==
  /\ pc[c] = "push" /\ c \in Clients
  /\ LET g == job[c].group IN
       IF Len(remote[g]) < RemoteCap
         THEN /\ remote' = [remote EXCEPT ![g] = Append(@, job[c].task)]
              /\ job' = [job EXCEPT ![c] = None]
              /\ IF job[c].how = "signal"
                   THEN SignalTask(c, 1 + rnosig[g]) /\ rnosig' = [rnosig EXCEPT ![g] = 0]
                   ELSE Goto(c, "idle") /\ rnosig' = [rnosig EXCEPT ![g] = @ + 1] /\ UNCHANGED sig
         ELSE /\ rnosig[g] > 0
              /\ SignalTask(c, rnosig[g]) /\ rnosig' = [rnosig EXCEPT ![g] = 0]
              /\ UNCHANGED <<remote, job>>
  /\ UNCHANGED <<env, groups, stopping, rq, nosig, lotVars, cur, last, todo, at>>

\* bthread_start_background in a worker
StartBackground(w, how) ==
  /\ pc[w] = "run" /\ Create("background", how)
  /\ job' = [job EXCEPT ![w] = Job(NewTask, how, w)]
  /\ Goto(w, "push")
  /\ UNCHANGED <<plan, cached, groups, stopping, queues, lotVars, cur, last, todo, at, sig>>

\* bthread_start_urgent in a worker: the new bthread runs, its parent is made ready.
StartForeground(w, how) ==
  /\ pc[w] = "run" /\ Create("urgent", how)
  /\ cur' = [cur EXCEPT ![w] = NewTask]
  /\ job' = [job EXCEPT ![w] = Job(cur[w], how, w)]
  /\ Goto(w, "push")
  /\ UNCHANGED <<plan, cached, groups, stopping, queues, lotVars, last, todo, at, sig>>

\* start_from_non_worker
StartFromNonWorker(c, how, g) ==
  /\ pc[c] = "idle" /\ g \in groups /\ Create("remote", how)
  /\ how = "nosignal" => cached[c] \in {None, g}
  /\ cached' = [cached EXCEPT ![c] = IF how = "nosignal" THEN g ELSE @]
  /\ job' = [job EXCEPT ![c] = Job(NewTask, how, g)]
  /\ Goto(c, "push")
  /\ UNCHANGED <<plan, groups, stopping, queues, lotVars, cur, last, todo, at, sig>>

\* bthread_flush in a worker, and in another thread
Flush(w) ==
  /\ pc[w] = "run" /\ nosig[w] > 0
  /\ SignalTask(w, nosig[w]) /\ nosig' = [nosig EXCEPT ![w] = 0]
  /\ UNCHANGED <<env, groups, stopping, rq, remote, rnosig, lotVars, local>>

FlushRemote(c) ==
  /\ pc[c] = "idle" /\ cached[c] # None
  /\ cached' = [cached EXCEPT ![c] = None]
  /\ IF rnosig[cached[c]] > 0
       THEN SignalTask(c, rnosig[cached[c]]) /\ rnosig' = [rnosig EXCEPT ![cached[c]] = 0]
       ELSE UNCHANGED <<sig, pc, rnosig>>
  /\ UNCHANGED <<plan, made, budget, groups, stopping, rq, remote, nosig, lotVars, local>>

\* The bthread leaves the worker: it yields, to be made ready after the switch, or ends.
Yield(w) ==
  /\ pc[w] = "run" /\ Spend("yield", "signal")
  /\ job' = [job EXCEPT ![w] = Job(cur[w], "signal", w)]
  /\ cur' = [cur EXCEPT ![w] = None]
  /\ Goto(w, "pop")
  /\ UNCHANGED <<plan, cached, made, groups, stopping, queues, lotVars, last, todo, at, sig>>

End(w) ==
  /\ pc[w] = "run"
  /\ cur' = [cur EXCEPT ![w] = None]
  /\ Goto(w, "pop")
  /\ UNCHANGED <<env, groups, stopping, queues, lotVars, job, last, todo, at, sig>>
-----------------------------------------------------------------------------
(* TaskControl::stop_and_join *)

Stop ==
  /\ plan.stop /\ stopping = 0
  /\ stopping' = 1 /\ groups' = {}
  /\ UNCHANGED <<env, queues, lotVars, pc, local, sig>>

\* ParkingLot::stop of one lot after the other
StopLot ==
  /\ stopping \in {2 * l + 1 : l \in Lots}
  /\ stopping' = stopping + 1
  /\ LET l == (stopping - 1) \div 2 IN
       pending' = [pending EXCEPT ![l] = IF Stopped(@) THEN @ ELSE @ + 1]
  /\ UNCHANGED <<env, groups, queues, waiters, pc, local, sig>>

\* (mutant) wakes one worker of the lot
StopWakeOne ==
  /\ stopping \in {2 * l + 2 : l \in Lots}
  /\ stopping' = stopping + 1
  /\ LET asleep == Asleep((stopping - 2) \div 2) IN
       pc' = [q \in Threads |-> IF asleep # {} /\ q = (CHOOSE w \in asleep : TRUE) THEN AfterFutex ELSE pc[q]]
  /\ UNCHANGED <<env, groups, queues, lotVars, local, sig>>

StopWake ==
  /\ stopping \in {2 * l + 2 : l \in Lots}
  /\ stopping' = stopping + 1
  /\ LET woken == Asleep((stopping - 2) \div 2) IN
       pc' = [q \in Threads |-> IF q \in woken THEN AfterFutex ELSE pc[q]]
  /\ UNCHANGED <<env, groups, queues, lotVars, local, sig>>
-----------------------------------------------------------------------------
\* What the library does by itself in a thread
Step(p) ==
  \/ Signal(p)
  \/ p \in Workers /\ (Park(p) \/ Search(p) \/ AddGroup(p) \/ ReadyToRun(p))
  \/ p \in Clients /\ ReadyToRunRemote(p)

Hows == {"signal", "nosignal", "ignore"}

\* What user code does in a bthread and in another thread
Run(w) ==
  \/ End(w) \/ Yield(w) \/ Flush(w)
  \/ \E how \in Hows : StartBackground(w, how) \/ StartForeground(w, how)
Call(c) == FlushRemote(c) \/ \E how \in Hows, g \in Workers : StartFromNonWorker(c, how, g)

Stopper == StopLot \/ StopWake

Next ==
  \/ \E p \in Threads : Step(p)
  \/ \E w \in Workers : Run(w)
  \/ \E c \in Clients : Call(c)
  \/ Stop \/ Stopper

\* Threads run, a bthread's function returns, and a thread that made bthreads
\* ready without a signal calls bthread_flush, as BTHREAD_NOSIGNAL asks for.
Fairness ==
  /\ \A p \in Threads : WF_vars(Step(p))
  /\ \A w \in Workers : WF_vars(End(w))
  /\ \A c \in Clients : WF_vars(FlushRemote(c))
  /\ WF_vars(Stopper)

Spec == Init /\ [][Next]_vars /\ Fairness
-----------------------------------------------------------------------------
Queued == UNION {Range(rq[w]) \cup Range(remote[w]) : w \in Workers}

TypeOK ==
  /\ plan \in Plans /\ groups \subseteq Workers /\ stopping \in 0..(2 * NLots + 1)
  /\ rq \in [Workers -> Seq(Tasks)] /\ remote \in [Workers -> Seq(Tasks)]
  /\ pending \in [Lots -> Nat] /\ waiters \in [Lots -> Nat]
  /\ cur \in [Workers -> Tasks \cup {None}] /\ made \in 0..NTasks

\* When every worker sleeps and no signal is on its way, no ready bthread is
\* left in a queue: signal() and wait() of the ParkingLot and the state saved
\* before steal_task lose no wake-up, whatever lot the signal went to.
NoTaskStranded ==
  /\ stopping = 0
  /\ \A w \in Workers : pc[w] \in {"asleep", "none"}
  /\ \A c \in Clients : pc[c] = "idle" /\ cached[c] = None
  => Queued = {}

\* Every thread signals, and every worker sleeps, at one lot, and every bthread
\* was made ready with a signal: then no worker sleeps while a bthread waits for
\* a worker that is running another one, for as long as that one may take.
\* (With several lots a signal that wakes a worker at one lot leaves the state of
\* the others as it was, and a worker that has looked too early goes to sleep.)
NoIdleWhileReady ==
  /\ \A p, q \in Threads : Home[p] = Home[q]
  /\ \A call \in DOMAIN plan.calls : call[2] = "signal"
  /\ \A p \in Threads : pc[p] \in {"asleep", "run", "idle", "none"}
  /\ \E w \in Workers : pc[w] = "asleep"
  => stopping > 0 \/ Queued = {}

\* Ready bthreads are taken out of the queues and run, down to the last one,
\* unless the workers are stopped.
ReadyRuns == Queued # {} ~> (Queued = {} \/ stopping > 0)

\* Once stop_and_join has been called every worker thread ends, so that the
\* pthread_join of each returns.
WorkersEnd == stopping > 0 ~> \A w \in Workers : pc[w] \in {"gone", "none"}
=============================================================================
