------------------------------ MODULE MCButex ------------------------------
(* Instances of Butex for TLC. *)
EXTENDS Butex

\* At most b, q and p calls of the bthread, the bthread on a pthread and the pthread, w of the
\* waker and i of the interrupter.
Plan(b, q, p, w, i) ==
  [c \in Threads \cup Actors |->
     CASE c \in Bthreads -> b [] c \in PthreadTasks -> q [] c \in Pthreads -> p
       [] c \in Wakers -> w [] c \in Interrupters -> i]

Plans == {Plan(2, 0, 0, 2, 2), Plan(0, 2, 0, 2, 2), Plan(1, 1, 0, 1, 1), Plan(1, 0, 1, 2, 0)}
=============================================================================
