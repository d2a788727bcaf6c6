----------------------------- MODULE TaskDeque -----------------------------
(***************************************************************************)
(* What WorkStealingQueue promises: a deque of tasks with atomic           *)
(* operations.  push() appends, pop() removes the newest, steal() removes  *)
(* the oldest.  An operation that fails (full, empty, lost race) changes   *)
(* nothing.                                                                *)
(***************************************************************************)
EXTENDS Integers, Sequences

CONSTANTS Capacity, MaxPush

VARIABLES deque, taken

Push(x) ==
  /\ Len(deque) < Capacity
  /\ deque' = Append(deque, x)
  /\ UNCHANGED taken

TakeFrom(i) ==
  /\ taken' = [taken EXCEPT ![deque[i]] = @ + 1]
  /\ deque' = SubSeq(deque, 1, i - 1) \o SubSeq(deque, i + 1, Len(deque))

Pop == deque # <<>> /\ TakeFrom(Len(deque))

Steal == deque # <<>> /\ TakeFrom(1)

Init ==
  /\ deque = <<>>
  /\ taken = [x \in 1..MaxPush |-> 0]

Next == (\E x \in 1..MaxPush : Push(x)) \/ Pop \/ Steal

Spec == Init /\ [][Next]_<<deque, taken>>
============================================================================
