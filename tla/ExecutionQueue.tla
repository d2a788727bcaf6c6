--------------------------- MODULE ExecutionQueue ---------------------------
(***************************************************************************)
(* bthread::ExecutionQueue: the wait-free multi-producer queue whose       *)
(* consumer is started by the producer that finds it empty and quits when  *)
(* it is empty again.  Modelled: execute (normal, high-priority and        *)
(* in-place tasks), cancel, stop and join, on one slot of the resource     *)
(* pool, with the reference counting that decides when the stop task is    *)
(* pushed.  ExecutionQueuePthread models the use_pthread option.           *)
(*                                                                         *)
(* A TaskNode is numbered when the exchange on _head pushes it.  Each      *)
(* atomic operation on shared state is a step, and so is each node the     *)
(* consumer looks at.  The callback iterates to the end, as documented.    *)
(***************************************************************************)
EXTENDS Integers, FiniteSets

CONSTANTS Callers,      \* threads using the queue
          Workers,      \* bthreads that run _execute_tasks
          MaxCalls,     \* bound: calls to execute and stop
          MaxId         \* bound: the last id created on the slot (0, 2, ...)

ASSUME BoundsAssumption == MaxCalls \in Nat /\ MaxId \in Nat
ASSUME RolesAssumption == Callers \cap Workers = {}

Procs == Callers \cup Workers
Ids == {v \in 0..MaxId : v % 2 = 0}
Nodes == 1..(MaxCalls + Cardinality(Ids))
Null == 0               \* nullptr
Unconnected == -1       \* TaskNode::UNCONNECTED

VARIABLES head,         \* _head
          high,         \* _high_priority_tasks
          stopped,      \* _stopped
          ver, nref,    \* _versioned_ref
          thisId,       \* _this_id
          joinButex,    \* _join_butex
          free,         \* the slot is in the resource pool
          node,         \* the pushed TaskNodes
          npush, ncalls,\* nodes pushed, calls made
          pc, lver, owed, arg, mine,   \* callers: see Address, Deref, Execute, Push
          ex            \* locals of _execute_tasks, _execute and the iterator

queue == <<head, high, stopped, joinButex, free, thisId>>
caller == <<lver, owed, arg, mine>>
vars == <<queue, ver, nref, node, npush, ncalls, pc, caller, ex>>

NewNode(a) == [next |-> Unconnected, status |-> "unexecuted", iterated |-> FALSE,
               high |-> a.high, stop |-> a.stop, q |-> thisId,
               ran |-> 0, cancelled |-> FALSE, returned |-> FALSE, late |-> 0]
NoNode == [next |-> Null, status |-> "unexecuted", iterated |-> FALSE,
           high |-> FALSE, stop |-> FALSE, q |-> 0,
           ran |-> 0, cancelled |-> FALSE, returned |-> FALSE, late |-> 0]
NoPush == [node |-> Null, prev |-> Null]
NoArg == [high |-> FALSE, inPlace |-> FALSE, stop |-> FALSE]

\* The locals of a consumer that starts at node n.
Start(n, hp, inPlace) ==
  [head |-> n, tail |-> Null, cur |-> n, hp |-> hp, nit |-> 0, destroy |-> FALSE,
   inPlace |-> inPlace, p |-> Null, t |-> Null, newTail |-> Null]

Init ==
  /\ head = Null /\ high = 0 /\ stopped = FALSE /\ joinButex = 0 /\ free = TRUE
  /\ ver = 0 /\ nref = 0 /\ thisId = 0
  /\ node = [n \in Nodes |-> NoNode] /\ npush = 0 /\ ncalls = 0
  /\ pc = [p \in Procs |-> "idle"]
  /\ lver = [p \in Procs |-> 0] /\ owed = [p \in Procs |-> 0]
  /\ arg = [p \in Procs |-> NoArg] /\ mine = [p \in Procs |-> NoPush]
  /\ ex = [p \in Procs |-> Start(Null, FALSE, FALSE)]

Goto(p, l) == pc' = [pc EXCEPT ![p] = l]

(***************************************************************************)
(* Creation, references and stop.                                          *)
(***************************************************************************)
Create(p) ==
  /\ pc[p] = "idle" /\ free /\ ver <= MaxId
  /\ free' = FALSE /\ stopped' = FALSE /\ thisId' = ver /\ nref' = nref + 1
  /\ UNCHANGED <<head, high, joinButex, ver, node, npush, ncalls, pc, caller, ex>>

\* fetch_add of address(), by execution_queue_execute or execution_queue_stop.
Address(p, next) ==
  /\ pc[p] = "idle" /\ ncalls < MaxCalls
  /\ ncalls' = ncalls + 1
  /\ \E id \in Ids :
       /\ id <= thisId /\ (id = thisId => ~free \/ ver > id)
       /\ nref' = nref + 1
       /\ Goto(p, IF ver = id THEN next ELSE "unref")
  /\ UNCHANGED <<queue, ver, node, npush, caller, ex>>

\* address() of another version takes its reference back, and may be the one
\* that has to recycle the queue.
Unref(p) ==
  /\ pc[p] = "unref"
  /\ nref' = nref - 1
  /\ lver' = [lver EXCEPT ![p] = IF nref = 1 THEN ver ELSE 0]
  /\ Goto(p, IF nref = 1 /\ ver % 2 = 1 THEN "cas" ELSE "idle")
  /\ UNCHANGED <<queue, ver, node, npush, ncalls, owed, arg, mine, ex>>

\* execute_impl fails once the queue is stopped.
Execute(p) ==
  /\ pc[p] = "execute"
  /\ owed' = [owed EXCEPT ![p] = 1]
  /\ IF stopped
       THEN Goto(p, "deref") /\ UNCHANGED <<high, arg>>
       ELSE \E hp \in BOOLEAN, inPlace \in BOOLEAN :
            /\ arg' = [arg EXCEPT ![p] = [high |-> hp, inPlace |-> inPlace, stop |-> FALSE]]
            /\ high' = IF hp THEN high + 1 ELSE high
            /\ Goto(p, "push")
  /\ UNCHANGED <<head, stopped, joinButex, free, thisId, ver, nref, node, npush, ncalls, lver, mine, ex>>

\* The CAS of stop(); a second stop() finds another version.
Stop(p) ==
  /\ pc[p] = "stop"
  /\ IF ver = thisId
       THEN ver' = thisId + 1 /\ owed' = [owed EXCEPT ![p] = 2] /\ Goto(p, "setstopped")
       ELSE UNCHANGED ver /\ owed' = [owed EXCEPT ![p] = 1] /\ Goto(p, "deref")
  /\ UNCHANGED <<queue, nref, node, npush, ncalls, lver, arg, mine, ex>>

SetStopped(p) ==
  /\ pc[p] = "setstopped"
  /\ stopped' = TRUE
  /\ Goto(p, "deref")
  /\ UNCHANGED <<head, high, joinButex, free, thisId, ver, nref, node, npush, ncalls, caller, ex>>

Deref(p) ==
  /\ pc[p] = "deref"
  /\ nref' = nref - 1
  /\ lver' = [lver EXCEPT ![p] = IF nref = 1 THEN ver ELSE 0]
  /\ owed' = [owed EXCEPT ![p] = @ - 1]
  /\ Goto(p, CASE nref = 1 -> "cas"
               [] nref # 1 /\ owed[p] > 1 -> "deref"
               [] OTHER -> "idle")
  /\ UNCHANGED <<queue, ver, node, npush, ncalls, arg, mine, ex>>

RecycleAlways(p) ==
  /\ pc[p] = "cas"
  /\ ver' = thisId + 2
  /\ arg' = [arg EXCEPT ![p] = [NoArg EXCEPT !.stop = TRUE]]
  /\ Goto(p, "push")
  /\ lver' = [lver EXCEPT ![p] = 0]
  /\ UNCHANGED <<queue, nref, node, npush, ncalls, owed, mine, ex>>

\* One of those who saw the last reference go pushes the stop task
\* (_on_recycle).
Recycle(p) ==
  /\ pc[p] = "cas"
  /\ IF <<ver, nref>> = <<lver[p], 0>>
       THEN /\ ver' = thisId + 2
            /\ arg' = [arg EXCEPT ![p] = [NoArg EXCEPT !.stop = TRUE]]
            /\ Goto(p, "push")
       ELSE UNCHANGED <<ver, arg>> /\ Goto(p, IF owed[p] > 0 THEN "deref" ELSE "idle")
  /\ lver' = [lver EXCEPT ![p] = 0]
  /\ UNCHANGED <<queue, nref, node, npush, ncalls, owed, mine, ex>>

(***************************************************************************)
(* start_execute.                                                          *)
(***************************************************************************)
AfterPush(p) == IF owed[p] > 0 THEN "deref" ELSE "idle"

\* Starts a bthread for _execute_tasks(n), while p goes on to l.
Spawn(p, l, n) ==
  \E w \in Workers :
    /\ pc[w] = "idle"
    /\ pc' = [pc EXCEPT ![p] = l, ![w] = "pick"]
    /\ ex' = [ex EXCEPT ![w] = Start(n, FALSE, FALSE), ![p] = Start(Null, FALSE, FALSE)]

\* The exchange on _head.  Whoever finds it null has the right to execute.
Push(p) ==
  /\ pc[p] = "push"
  /\ npush' = npush + 1
  /\ head' = npush'
  /\ arg' = [arg EXCEPT ![p] = NoArg]
  /\ LET a == arg[p]
         n == npush' IN
     /\ node' = [node EXCEPT ![n] = [NewNode(a) EXCEPT !.next = IF head = Null THEN Null ELSE @]]
     /\ mine' = [mine EXCEPT ![p] = IF head = Null THEN NoPush ELSE [node |-> n, prev |-> head]]
     /\ CASE head # Null -> Goto(p, "link") /\ UNCHANGED ex
          [] head = Null /\ a.inPlace -> /\ ex' = [ex EXCEPT ![p] = Start(n, a.high, TRUE)]
                                         /\ Goto(p, "step")
          [] OTHER -> Spawn(p, AfterPush(p), n)
  /\ UNCHANGED <<high, stopped, joinButex, free, thisId, ver, nref, ncalls, lver, owed>>

\* node->next = prev_head.
Link(p) ==
  /\ pc[p] = "link"
  /\ node' = [node EXCEPT ![mine[p].node].next = mine[p].prev]
  /\ mine' = [mine EXCEPT ![p] = NoPush]
  /\ Goto(p, AfterPush(p))
  /\ UNCHANGED <<queue, ver, nref, npush, ncalls, lver, owed, arg, ex>>

\* execution_queue_cancel of a task that was not returned yet: only one that
\* is neither executing nor executed is cancelled.
Cancel(n) ==
  /\ n <= npush /\ ~node[n].stop /\ ~node[n].returned /\ node[n].status = "unexecuted"
  /\ node' = [node EXCEPT ![n].status = "executed", ![n].cancelled = TRUE]
  /\ UNCHANGED <<queue, ver, nref, npush, ncalls, pc, caller, ex>>

(***************************************************************************)
(* _execute_tasks and, in place, the same calls by start_execute.          *)
(***************************************************************************)
Set(p, f) == ex' = [ex EXCEPT ![p] = f]

\* Top of the loop: skip an iterated head, choose the priority to execute, and
\* run the stop task when it is the head.
Pick(p) ==
  /\ pc[p] = "pick"
  /\ LET old == ex[p].head
         h == IF node[old].iterated THEN node[old].next ELSE old
         hp == high > 0
         nodes == IF h = old THEN node ELSE [node EXCEPT ![old].returned = TRUE] IN
     IF node[h].stop
       THEN /\ node' = [nodes EXCEPT ![h].iterated = TRUE, ![h].status = "executed", ![h].ran = @ + 1]
            /\ high' = IF hp THEN high - 1 ELSE high
            /\ Set(p, [ex[p] EXCEPT !.head = h, !.destroy = TRUE])
            /\ Goto(p, "release")
       ELSE /\ node' = nodes /\ UNCHANGED high
            /\ Set(p, [ex[p] EXCEPT !.head = h, !.cur = h, !.hp = hp, !.nit = 0])
            /\ Goto(p, "step")
  /\ UNCHANGED <<head, stopped, joinButex, free, thisId, ver, nref, npush, ncalls, caller>>

StepNoBreak(p) ==
  /\ pc[p] = "step"
  /\ LET cur == ex[p].cur
         next == IF node[cur].iterated THEN node[cur].next ELSE cur IN
       Set(p, [ex[p] EXCEPT !.cur = next])
  /\ Goto(p, "scan")
  /\ UNCHANGED <<queue, ver, nref, node, npush, ncalls, caller>>

\* operator++ up to its loop: a normal iteration breaks for high-priority tasks.
Step(p) ==
  /\ pc[p] = "step"
  /\ LET cur == ex[p].cur
         next == IF node[cur].iterated THEN node[cur].next ELSE cur IN
       Set(p, [ex[p] EXCEPT !.cur = next])
  /\ Goto(p, IF ~ex[p].hp /\ high > 0 THEN "end" ELSE "scan")
  /\ UNCHANGED <<queue, ver, nref, node, npush, ncalls, caller>>

\* Task n starts: the high-priority tasks that are pushed and wait are delayed
\* by it.
Run(n) ==
  node' = [m \in Nodes |->
    IF m = n THEN [node[n] EXCEPT !.status = "executing", !.iterated = TRUE, !.ran = @ + 1]
    ELSE IF m <= npush /\ node[m].high /\ ~node[m].iterated /\ ~node[n].high
      THEN [node[m] EXCEPT !.late = @ + 1]
    ELSE node[m]]

ScanNoPeek(p) ==
  /\ pc[p] = "scan"
  /\ LET c == ex[p].cur IN
     CASE c = Null \/ node[c].stop ->
            Goto(p, "end") /\ UNCHANGED <<node, ex>>
       [] c # Null /\ ~node[c].stop /\ node[c].high = ex[p].hp /\ ~node[c].iterated ->
            Run(c) /\ Set(p, [ex[p] EXCEPT !.nit = @ + 1]) /\ Goto(p, "step")
       [] OTHER ->
            /\ Set(p, [ex[p] EXCEPT !.cur = node[c].next])
            /\ UNCHANGED <<node, pc>>
  /\ UNCHANGED <<queue, ver, nref, npush, ncalls, caller>>

\* One turn of the loop in operator++: run the node (peek_to_execute), or step
\* over it when it was cancelled, iterated before or of the other priority.
Scan(p) ==
  /\ pc[p] = "scan"
  /\ LET c == ex[p].cur
         fresh == node[c].high = ex[p].hp /\ ~node[c].iterated IN
     CASE c = Null \/ node[c].stop ->
            Goto(p, "end") /\ UNCHANGED <<node, ex>>
       [] c # Null /\ ~node[c].stop /\ fresh /\ node[c].status = "unexecuted" ->
            Run(c) /\ Set(p, [ex[p] EXCEPT !.nit = @ + 1]) /\ Goto(p, "step")
       [] OTHER ->
            /\ node' = IF fresh THEN [node EXCEPT ![c].iterated = TRUE] ELSE node
            /\ Set(p, [ex[p] EXCEPT !.cur = node[c].next, !.nit = IF fresh THEN @ + 1 ELSE @])
            /\ UNCHANGED pc
  /\ UNCHANGED <<queue, ver, nref, npush, ncalls, caller>>

EndCountRun(p) ==
  /\ pc[p] = "end"
  /\ node' = [n \in Nodes |->
       IF node[n].status = "executing" THEN [node[n] EXCEPT !.status = "executed"] ELSE node[n]]
  /\ high' = IF ex[p].hp
               THEN high - Cardinality({n \in Nodes : node[n].status = "executing"}) ELSE high
  /\ Goto(p, IF ex[p].inPlace THEN "more" ELSE "release")
  /\ UNCHANGED <<head, stopped, joinButex, free, thisId, ver, nref, npush, ncalls, caller, ex>>

\* ~TaskIteratorBase marks what it iterated, and _high_priority_tasks drops by
\* num_iterated, cancelled tasks included.
End(p) ==
  /\ pc[p] = "end"
  /\ node' = [n \in Nodes |->
       IF node[n].status = "executing" THEN [node[n] EXCEPT !.status = "executed"] ELSE node[n]]
  /\ high' = IF ex[p].hp THEN high - ex[p].nit ELSE high
  /\ Goto(p, IF ex[p].inPlace THEN "more" ELSE "release")
  /\ UNCHANGED <<head, stopped, joinButex, free, thisId, ver, nref, npush, ncalls, caller, ex>>

\* Return the iterated nodes at the front of the list, keeping the last one.
Release(p) ==
  /\ pc[p] = "release"
  /\ LET h == ex[p].head IN
     IF node[h].iterated /\ node[h].next # Null
       THEN /\ node' = [node EXCEPT ![h].returned = TRUE]
            /\ Set(p, [ex[p] EXCEPT !.head = node[h].next])
            /\ UNCHANGED pc
       ELSE Goto(p, "more") /\ UNCHANGED <<node, ex>>
  /\ UNCHANGED <<queue, ver, nref, npush, ncalls, caller>>

\* The consumer found the queue not empty: go round again, or hand the list of
\* an in-place task over to a bthread.
Again(p, e) ==
  IF e.inPlace THEN Spawn(p, AfterPush(p), e.head) ELSE Goto(p, "pick") /\ Set(p, e)

NoneAddedBlind(tail) == TRUE
NoneAdded(tail) == head = tail

\* rc == ESTOP
EndsQueue(e) == e.destroy

\* The CAS of _more_tasks: _head becomes null unless a task is left.
More(p) ==
  /\ pc[p] = "more"
  /\ LET e == ex[p]
         last == CHOOSE n \in 1..npush : ~node[n].returned /\ node[n].next = Null
         tail == IF e.tail = Null THEN last ELSE e.tail
         uniterated == ~node[e.head].iterated IN
     CASE NoneAdded(tail) /\ uniterated ->
            Again(p, [e EXCEPT !.tail = tail]) /\ UNCHANGED <<head, node>>
       [] NoneAdded(tail) /\ ~uniterated ->
            /\ head' = Null
            /\ node' = [node EXCEPT ![e.head].returned = TRUE]
            /\ Goto(p, CASE e.inPlace -> AfterPush(p)
                         [] ~e.inPlace /\ EndsQueue(e) -> "destroy"
                         [] OTHER -> "idle")
            /\ Set(p, Start(Null, FALSE, FALSE))
       [] OTHER ->
            /\ Set(p, [e EXCEPT !.tail = tail, !.p = head, !.t = Null, !.newTail = head])
            /\ Goto(p, "reverse") /\ UNCHANGED <<head, node>>
  /\ UNCHANGED <<high, stopped, joinButex, free, thisId, ver, nref, npush, ncalls, caller>>

ReverseNot(p) ==
  /\ pc[p] = "reverse" /\ node[ex[p].p].next # Unconnected
  /\ LET e == ex[p]
         next == node[e.p].next IN
     IF next # e.tail
       THEN UNCHANGED <<node, pc>> /\ Set(p, [e EXCEPT !.p = next, !.t = e.p])
       ELSE /\ node' = [node EXCEPT ![e.p].next = Null, ![e.tail].next = e.newTail]
            /\ Again(p, [e EXCEPT !.tail = e.p])
  /\ UNCHANGED <<queue, ver, nref, npush, ncalls, caller>>

\* Reverse the new nodes one by one, waiting for those not yet connected, and
\* append them to the list.
Reverse(p) ==
  /\ pc[p] = "reverse" /\ node[ex[p].p].next # Unconnected
  /\ LET e == ex[p]
         next == node[e.p].next IN
     IF next # e.tail
       THEN /\ node' = [node EXCEPT ![e.p].next = e.t]
            /\ Set(p, [e EXCEPT !.p = next, !.t = e.p])
            /\ UNCHANGED pc
       ELSE /\ node' = [node EXCEPT ![e.p].next = e.t, ![e.tail].next = e.p]
            /\ Again(p, [e EXCEPT !.tail = e.newTail])
  /\ UNCHANGED <<queue, ver, nref, npush, ncalls, caller>>

\* The stop task was executed: release the joiners, then the slot.
Destroy(p) ==
  /\ pc[p] = "destroy"
  /\ joinButex' = joinButex + 2
  /\ Goto(p, "return")
  /\ UNCHANGED <<head, high, stopped, free, thisId, ver, nref, node, npush, ncalls, caller, ex>>

Return(p) ==
  /\ pc[p] = "return"
  /\ free' = TRUE
  /\ Goto(p, "idle")
  /\ UNCHANGED <<head, high, stopped, joinButex, thisId, ver, nref, node, npush, ncalls, caller, ex>>

\* execution_queue_join(id) waits on _join_butex while it is the version of id.
Joined(id) == joinButex > id

-----------------------------------------------------------------------------
\* What a caller does after the first step of a call, and what a consumer does.
Consume(p) ==
  \/ Pick(p) \/ Step(p) \/ Scan(p) \/ End(p) \/ Release(p) \/ More(p) \/ Reverse(p)
  \/ Destroy(p) \/ Return(p)
Progress(p) ==
  \/ Unref(p) \/ Execute(p) \/ Stop(p) \/ SetStopped(p) \/ Deref(p) \/ Recycle(p)
  \/ Push(p) \/ Link(p) \/ Consume(p)

Next ==
  \/ \E p \in Callers : Create(p) \/ Address(p, "execute") \/ Address(p, "stop")
  \/ \E p \in Procs : Progress(p)
  \/ \E n \in Nodes : Cancel(n)

Spec == Init /\ [][Next]_vars

-----------------------------------------------------------------------------
ConsumerPcs == {"pick", "step", "scan", "end", "release", "more", "reverse", "destroy", "return"}
PcValues == ConsumerPcs \cup
  {"idle", "unref", "execute", "stop", "setstopped", "deref", "cas", "push", "link"}
Links == Nodes \cup {Null}
TaskNode == [next : Links \cup {Unconnected}, status : {"unexecuted", "executing", "executed"},
             iterated : BOOLEAN, high : BOOLEAN, stop : BOOLEAN, q : Ids, ran : 0..1,
             cancelled : BOOLEAN, returned : BOOLEAN, late : Nat]
Pushed == 1..npush
Same(m, n) == node[m].q = node[n].q /\ node[m].high = node[n].high

\* Counters do not underflow, nodes run at most once.
TypeOK ==
  /\ head \in Links /\ high \in 0..MaxCalls /\ stopped \in BOOLEAN /\ free \in BOOLEAN
  /\ ver \in 0..(MaxId + 2) /\ nref \in Nat /\ thisId \in Ids /\ joinButex \in 0..(MaxId + 2)
  /\ node \in [Nodes -> TaskNode]
  /\ npush \in 0..Cardinality(Nodes) /\ ncalls \in 0..MaxCalls
  /\ pc \in [Procs -> PcValues]
  /\ lver \in [Procs -> 0..(MaxId + 2)] /\ owed \in [Procs -> 0..2]
  /\ arg \in [Procs -> [high : BOOLEAN, inPlace : BOOLEAN, stop : BOOLEAN]]
  /\ mine \in [Procs -> [node : Links, prev : Links]]

\* Tasks run serially: one thread at a time has the right to execute.
OneConsumer == Cardinality({p \in Procs : pc[p] \in ConsumerPcs}) <= 1

\* Tasks of one priority are iterated in the order in which they were pushed.
InOrder == \A m, n \in Pushed :
  m < n /\ Same(m, n) /\ node[n].iterated => node[m].iterated

\* A task is run or cancelled, never both, and is returned only after that.
RunOrCancelled == \A n \in Pushed :
  /\ ~(node[n].ran = 1 /\ node[n].cancelled)
  /\ node[n].returned => node[n].ran = 1 \/ node[n].cancelled

\* A high-priority task that is in the queue waits for at most one normal task
\* to start ("delayed for at most one task").
HighPriorityFirst == \A n \in Pushed : node[n].late <= 1

\* The stop task ends a queue: no task follows it, when it runs every other task
\* was iterated, execution_queue_join returns only after it, and the slot goes
\* back without a task and without a count of high-priority tasks, as the CHECKs
\* of create() and of the end of _execute_tasks say.
StopIsLast ==
  /\ \A s \in Pushed : node[s].stop =>
       \A n \in Pushed \ {s} : node[n].q = node[s].q =>
         n < s /\ ~node[n].stop /\ (node[s].ran = 1 => node[n].iterated)
  /\ \A id \in Ids : Joined(id) =>
       \E s \in Pushed : node[s].stop /\ node[s].q = id /\ node[s].ran = 1
  /\ free => head = Null /\ high = 0
  /\ \A p \in Procs : pc[p] = "destroy" => head = Null /\ stopped

\* A thread with no step to take: outside every call, spinning on a node that is
\* not connected, or with a consumer to start and no bthread for it.
Waiting(p) ==
  \/ pc[p] = "idle"
  \/ pc[p] = "reverse" /\ node[ex[p].p].next = Unconnected
  \/ pc[p] = "push" /\ head = Null /\ ~arg[p].inPlace /\ \A w \in Workers : pc[w] # "idle"

\* Nothing is left behind or stuck: when no thread has a step to take, every
\* task was executed or cancelled and its node returned, no urgent task is
\* counted, and every stopped queue has released its joiners.
NothingLeft == (\A p \in Procs : Waiting(p)) =>
  /\ head = Null /\ high = 0
  /\ \A n \in Pushed : node[n].returned
  /\ \A id \in Ids : ver > id => Joined(id)
=============================================================================
