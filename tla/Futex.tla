-------------------------------- MODULE Futex --------------------------------
(***************************************************************************)
(* What a butex promises (bthread/butex.h): comparing the word and         *)
(* entering the queue is one step, every removal from a queue is one step, *)
(* and a removed thread returns with the reason of its removal.  This is   *)
(* the interface that bthread_id, the execution queue and the mutexes rely *)
(* on.                                                                     *)
(***************************************************************************)
EXTENDS Sequences, SequencesExt

CONSTANTS Threads,
          Exact,          \* threads whose result always is the reason of the removal
          Butexes, Values,
          NoWant,         \* what a thread that is not in wait wants
          None

VARIABLES value, queue,   \* of each butex
          status,         \* of each thread: "out", "calling", "waiting", why it left the
                          \*   queue, "returned"
          want,           \* its arguments: b, v, timed, prepend
          interrupted, result

vars == <<value, queue, status, want, interrupted, result>>

Init ==
  /\ value = [b \in Butexes |-> 0] /\ queue = [b \in Butexes |-> <<>>]
  /\ status = [t \in Threads |-> "out"] /\ want = [t \in Threads |-> NoWant]
  /\ interrupted = [t \in Threads |-> FALSE] /\ result = [t \in Threads |-> "OK"]

Store(b, v) ==
  /\ value' = [value EXCEPT ![b] = v]
  /\ UNCHANGED <<queue, status, want, interrupted, result>>

Call(t, b, timed, prepend) ==
  /\ status[t] = "out" /\ status' = [status EXCEPT ![t] = "calling"]
  /\ want' = [want EXCEPT ![t] = [b |-> b, v |-> value[b], timed |-> timed, prepend |-> prepend]]
  /\ UNCHANGED <<value, queue, interrupted, result>>

\* The compare-and-enqueue.
Wait(t) ==
  LET b == want[t].b IN
  /\ status[t] = "calling" /\ value[b] = want[t].v
  /\ queue' = [queue EXCEPT ![b] = IF want[t].prepend THEN <<t>> \o @ ELSE Append(@, t)]
  /\ status' = [status EXCEPT ![t] = "waiting"]
  /\ UNCHANGED <<value, want, interrupted, result>>

Mismatch(t) ==
  /\ status[t] = "calling" /\ value[want[t].b] # want[t].v
  /\ status' = [status EXCEPT ![t] = "EWOULDBLOCK"]
  /\ UNCHANGED <<value, queue, want, interrupted, result>>

Wake(b) ==
  /\ queue[b] # <<>> /\ queue' = [queue EXCEPT ![b] = Tail(@)]
  /\ status' = [status EXCEPT ![Head(queue[b])] = "OK"]
  /\ UNCHANGED <<value, want, interrupted, result>>

WakeExcept(b, x) ==
  LET Left(t) == t = x IN
  /\ queue' = [queue EXCEPT ![b] = SelectSeq(@, Left)]
  /\ status' = [t \in Threads |-> IF Contains(queue[b], t) /\ t # x THEN "OK" ELSE status[t]]
  /\ UNCHANGED <<value, want, interrupted, result>>

Requeue(b, m) ==
  /\ queue[b] # <<>> /\ queue' = [queue EXCEPT ![b] = <<>>, ![m] = @ \o Tail(queue[b])]
  /\ status' = [status EXCEPT ![Head(queue[b])] = "OK"]
  /\ UNCHANGED <<value, want, interrupted, result>>

RemoveFor(t, r) ==
  /\ status[t] = "waiting" /\ status' = [status EXCEPT ![t] = r]
  /\ queue' = [b \in Butexes |-> Remove(queue[b], t)]
  /\ UNCHANGED <<value, want, result>>

Timeout(t) == want[t].timed /\ RemoveFor(t, "ETIMEDOUT") /\ UNCHANGED interrupted

\* An interruption may be consumed by the removal or by the return.
Cancel(t) ==
  /\ interrupted[t] /\ RemoveFor(t, "EINTR")
  /\ interrupted' \in {interrupted, [interrupted EXCEPT ![t] = FALSE]}

Interrupt(t) ==
  /\ interrupted' = [interrupted EXCEPT ![t] = TRUE]
  /\ UNCHANGED <<value, queue, status, want, result>>

\* Woken threads report an interruption that came as well.  A pthread that was removed by
\* somebody else may also report its deadline, or the value of its own futex.
Results(t) ==
  {status[t]}
    \cup (IF status[t] = "OK" /\ interrupted[t] THEN {"EINTR"} ELSE {})
    \cup (IF t \notin Exact /\ status[t] = "OK" THEN {"EWOULDBLOCK"} ELSE {})
    \cup (IF t \notin Exact /\ status[t] \in {"OK", "EINTR"} /\ want[t].timed
          THEN {"ETIMEDOUT"} ELSE {})

Return(t) ==
  /\ status[t] \notin {"out", "calling", "waiting", "returned"}
  /\ \E r \in Results(t) : result' = [result EXCEPT ![t] = r]
  /\ status' = [status EXCEPT ![t] = "returned"]
  /\ interrupted' = [interrupted EXCEPT ![t] = FALSE]
  /\ UNCHANGED <<value, queue, want>>

\* The caller has seen the result.
Done(t) ==
  /\ status[t] = "returned" /\ status' = [status EXCEPT ![t] = "out"]
  /\ want' = [want EXCEPT ![t] = NoWant] /\ result' = [result EXCEPT ![t] = "OK"]
  /\ UNCHANGED <<value, queue, interrupted>>

\* Another blocking call consumes the interruption.
Consume(t) ==
  /\ status[t] = "out" /\ interrupted' = [interrupted EXCEPT ![t] = FALSE]
  /\ UNCHANGED <<value, queue, status, want, result>>

Next ==
  \/ \E t \in Threads :
       \/ \E b \in Butexes, timed, prepend \in BOOLEAN : Call(t, b, timed, prepend)
       \/ Wait(t) \/ Mismatch(t) \/ Timeout(t) \/ Cancel(t) \/ Interrupt(t) \/ Return(t) \/ Done(t)
       \/ Consume(t)
  \/ \E b \in Butexes :
       \/ \E v \in Values : Store(b, v)
       \/ Wake(b)
       \/ \E x \in Threads \cup {None} : WakeExcept(b, x)
       \/ \E m \in Butexes \ {b} : Requeue(b, m)

Spec == Init /\ [][Next]_vars
=============================================================================
