------------------------------ MODULE BthreadId ------------------------------
(***************************************************************************)
(* bthread_id (bthread/id.cpp): a versioned, lockable and joinable handle, *)
(* on one slot of the resource pool.  A critical section of meta->mutex is *)
(* one step; what a function does after meta->mutex.unlock() (butex_wait,  *)
(* butex_wake, return_resource) is a step of its own, since the id may be  *)
(* unlocked, destroyed and created again in between.                       *)
(*                                                                         *)
(* A handle is its version.  Whoever holds the lock, on_error included,    *)
(* runs caller code that ends by unlocking or destroying the id.           *)
(***************************************************************************)
EXTENDS Integers, Sequences, FiniteSets

CONSTANTS Procs,        \* the threads calling bthread_id functions
          IdMaxRange,   \* ID_MAX_RANGE
          CreateRange,  \* the range ids are created with
          ResetRanges,  \* ranges passed to lock_and_reset_range (0: plain lock)
          Undo,         \* callers may unlock after bthread_id_about_to_destroy
          Modulus,      \* versions are numbers below Modulus (2^32)
          StartVers,    \* versions the slot may have reached before (0: never used)
          MaxCalls, MaxErrors, MaxCreates    \* bounds

ASSUME RangeAssumption ==
  /\ IdMaxRange \in Nat /\ CreateRange \in 1..IdMaxRange /\ ResetRanges \subseteq 0..IdMaxRange
  /\ Undo \in BOOLEAN
  /\ Modulus \in Nat /\ Modulus > IdMaxRange + 4 /\ StartVers \subseteq 0..(Modulus - 1)
ASSUME BoundAssumption == MaxCalls \in Nat /\ MaxErrors \in Nat /\ MaxCreates \in Nat

VARIABLES first, locked,        \* first_ver, locked_ver
          butex, joinButex,     \* the words threads wait on
          pending,              \* pending_q
          free,                 \* the slot is in the resource pool
          lockers, joiners,     \* threads asleep on butex and join_butex, in order
          pc, ver, range,       \* each thread's function and its arguments
          contended,            \* ever_contended
          expected,             \* expected_ver
          issued, used,         \* versions handed out; the id was passed to some call
          ncalls, nerrors, ncreates,
          lastError             \* the last error given to on_error

word == <<first, locked, butex, joinButex>>
queues == <<lockers, joiners>>
local == <<ver, range, contended, expected>>
counters == <<ncalls, nerrors, ncreates, lastError>>
vars == <<word, pending, free, queues, pc, local, issued, used, counters>>

Add(a, b) == (a + b) % Modulus
ContendedVer == Add(locked, 1)
UnlockableVer == Add(locked, 2)
EndVer == Add(UnlockableVer, 1)
HasVersion(v) == v >= first /\ v < locked

Init ==
  /\ butex \in StartVers /\ first = butex /\ locked = butex /\ joinButex = butex
  /\ pending = <<>> /\ free = TRUE
  /\ lockers = <<>> /\ joiners = <<>>
  /\ pc = [p \in Procs |-> "idle"]
  /\ ver = [p \in Procs |-> 0]
  /\ range = [p \in Procs |-> 0]
  /\ contended = [p \in Procs |-> FALSE]
  /\ expected = [p \in Procs |-> 0]
  /\ issued = {} /\ used = FALSE
  /\ ncalls = 0 /\ nerrors = 0 /\ ncreates = 0 /\ lastError = 0

Goto(p, l) == pc' = [pc EXCEPT ![p] = l]

\* The locals of bthread_id_lock go out of scope.
Leave(p) ==
  /\ range' = [range EXCEPT ![p] = 0]
  /\ contended' = [contended EXCEPT ![p] = FALSE]

\* p calls a function on one of the versions it may know.
Call(p, l) ==
  /\ pc[p] = "idle" /\ ncalls < MaxCalls
  /\ ncalls' = ncalls + 1
  /\ \E v \in issued : ver' = [ver EXCEPT ![p] = v] /\ used' = (used \/ HasVersion(v))
  /\ Goto(p, l)

(***************************************************************************)
(* Creation and cancellation.                                              *)
(***************************************************************************)
FirstVerShort(b) == IF b = 0 \/ Add(b, IdMaxRange) < b THEN 1 ELSE b

\* Skips 0 and the versions whose end would overflow.
FirstVer(b) == IF b = 0 \/ Add(b, IdMaxRange + 2) < b THEN 1 ELSE b

Create(p) ==
  /\ pc[p] = "idle" /\ free /\ ncreates < MaxCreates
  /\ LET b == FirstVer(butex) IN
       /\ butex' = b /\ joinButex' = b /\ first' = b /\ locked' = b + CreateRange
       /\ issued' = issued \cup b..(b + CreateRange - 1)
  /\ free' = FALSE /\ used' = FALSE /\ ncreates' = ncreates + 1
  /\ UNCHANGED <<pending, queues, pc, local, ncalls, nerrors, lastError>>

\* The caller's part of the contract: the id was never used.
Cancel(p) ==
  /\ pc[p] = "idle" /\ ~used /\ first < locked /\ butex = first
  /\ butex' = EndVer /\ first' = EndVer /\ locked' = EndVer
  /\ Goto(p, "return")
  /\ UNCHANGED <<joinButex, pending, free, queues, local, issued, used, counters>>

ReturnResource(p) ==
  /\ pc[p] = "return"
  /\ free' = TRUE
  /\ Goto(p, "idle")
  /\ UNCHANGED <<word, pending, queues, local, issued, used, counters>>

(***************************************************************************)
(* Locking.                                                                *)
(***************************************************************************)
Lock(p) ==
  /\ Call(p, "lock")
  /\ \E r \in ResetRanges : range' = [range EXCEPT ![p] = r]
  /\ contended' = [contended EXCEPT ![p] = FALSE]
  /\ UNCHANGED <<word, pending, free, queues, expected, issued, nerrors, ncreates, lastError>>

TakenVerForget(p, l) == l

\* A thread that ever waited marks the id contended again: others may wait.
TakenVer(p, l) == IF contended[p] THEN Add(l, 1) ELSE l

\* The id is free: lock it, extending its range if the new one is larger.
Take(p) ==
  /\ pc[p] = "lock" /\ HasVersion(ver[p]) /\ butex = first
  /\ LET l == IF first + range[p] <= locked THEN locked ELSE first + range[p] IN
       /\ locked' = l
       /\ butex' = TakenVer(p, l)
       /\ issued' = issued \cup first..(l - 1)
  /\ Goto(p, "own") /\ Leave(p)
  /\ UNCHANGED <<first, joinButex, pending, free, queues, ver, expected, used, counters>>

\* The id is locked: mark it contended and go to wait.
Contend(p) ==
  /\ pc[p] = "lock" /\ HasVersion(ver[p]) /\ butex \notin {first, UnlockableVer}
  /\ butex' = ContendedVer
  /\ expected' = [expected EXCEPT ![p] = ContendedVer]
  /\ contended' = [contended EXCEPT ![p] = TRUE]
  /\ Goto(p, "wait")
  /\ UNCHANGED <<first, locked, joinButex, pending, free, queues, ver, range, issued, used, counters>>

\* EPERM when the id is about to be destroyed, EINVAL when it was.
LockFail(p) ==
  /\ pc[p] = "lock" /\ (HasVersion(ver[p]) => butex = UnlockableVer /\ butex # first)
  /\ Goto(p, "idle") /\ Leave(p)
  /\ UNCHANGED <<word, pending, free, queues, ver, expected, issued, used, counters>>

\* butex_wait compares the word and enqueues the waiter under the waiter lock.
LockWait(p) ==
  /\ pc[p] = "wait"
  /\ IF butex = expected[p] THEN lockers' = Append(lockers, p) /\ Goto(p, "asleep")
     ELSE UNCHANGED lockers /\ Goto(p, "lock")
  /\ expected' = [expected EXCEPT ![p] = 0]
  /\ UNCHANGED <<word, pending, free, joiners, ver, range, contended, issued, used, counters>>

\* trylock: EINVAL and EBUSY leave the id alone.
TryLock(p) ==
  /\ pc[p] = "idle" /\ ncalls < MaxCalls
  /\ ncalls' = ncalls + 1
  /\ \E v \in issued :
       /\ ver' = [ver EXCEPT ![p] = v]
       /\ used' = (used \/ HasVersion(v))
       /\ IF HasVersion(v) /\ butex = first
            THEN butex' = locked /\ Goto(p, "own")
            ELSE UNCHANGED <<butex, pc>>
  /\ UNCHANGED <<first, locked, joinButex, pending, free, queues, range, contended, expected,
                 issued, nerrors, ncreates, lastError>>

Without(s, i) == [j \in 1..(Len(s) - 1) |-> IF j < i THEN s[j] ELSE s[j + 1]]

\* EINTR: the waiter leaves its queue and tries again.
Interrupt(p) ==
  /\ \/ /\ \E i \in 1..Len(lockers) : lockers[i] = p /\ lockers' = Without(lockers, i)
        /\ Goto(p, "lock") /\ UNCHANGED joiners
     \/ /\ \E i \in 1..Len(joiners) : joiners[i] = p /\ joiners' = Without(joiners, i)
        /\ Goto(p, "join") /\ UNCHANGED lockers
  /\ UNCHANGED <<word, pending, free, local, issued, used, counters>>

(***************************************************************************)
(* Errors.                                                                 *)
(***************************************************************************)
PushedFront(e) == <<e>> \o pending
Pushed(e) == Append(pending, e)

\* Locks a free id and runs on_error (the thread holds the lock from here on),
\* or leaves the error to the holder.
Error(p) ==
  /\ pc[p] = "idle" /\ ncalls < MaxCalls /\ nerrors < MaxErrors
  /\ ncalls' = ncalls + 1
  /\ \E v \in issued :
       /\ ver' = [ver EXCEPT ![p] = v]
       /\ used' = (used \/ HasVersion(v))
       /\ nerrors' = IF HasVersion(v) THEN nerrors + 1 ELSE nerrors
       /\ CASE ~HasVersion(v) -> UNCHANGED <<butex, pending, pc, lastError>>
            [] HasVersion(v) /\ butex = first ->
                 butex' = locked /\ lastError' = nerrors' /\ Goto(p, "own") /\ UNCHANGED pending
            [] HasVersion(v) /\ butex # first ->
                 pending' = Pushed(nerrors') /\ UNCHANGED <<butex, pc, lastError>>
  /\ UNCHANGED <<first, locked, joinButex, free, queues, range, contended, expected,
                 issued, ncreates>>

(***************************************************************************)
(* What the holder of the lock does.                                       *)
(***************************************************************************)
\* Lockers that wait are woken to fail, later ones fail at once.
AboutToDestroy(p) ==
  /\ pc[p] = "own" /\ butex # UnlockableVer
  /\ butex' = UnlockableVer
  /\ Goto(p, IF butex = ContendedVer THEN "aboutwake" ELSE "own")
  /\ UNCHANGED <<first, locked, joinButex, pending, free, queues, local, issued, used, counters>>

WakeLockers(l) ==
  /\ pc' = [p \in Procs |-> IF pc[p] = "asleep" THEN "lock" ELSE l[p]]
  /\ lockers' = <<>>

AboutWake(p) ==
  /\ pc[p] = "aboutwake"
  /\ WakeLockers([pc EXCEPT ![p] = "own"])
  /\ UNCHANGED <<word, pending, free, joiners, local, issued, used, counters>>

UnlockDropErrors(p) ==
  /\ pc[p] = "own" /\ (Undo \/ butex # UnlockableVer)
  /\ butex' = first
  /\ Goto(p, IF butex = ContendedVer THEN "wake" ELSE "idle")
  /\ UNCHANGED <<first, locked, joinButex, pending, lastError, free, queues, local, issued, used,
                 ncalls, nerrors, ncreates>>

\* A pending error is run by the holder, which keeps the lock; without one the
\* id is unlocked.
Unlock(p) ==
  /\ pc[p] = "own" /\ (Undo \/ butex # UnlockableVer)
  /\ IF pending # <<>>
       THEN /\ lastError' = Head(pending) /\ pending' = Tail(pending)
            /\ UNCHANGED <<butex, pc>>
       ELSE /\ butex' = first
            /\ Goto(p, IF butex = ContendedVer THEN "wake" ELSE "idle")
            /\ UNCHANGED <<pending, lastError>>
  /\ UNCHANGED <<first, locked, joinButex, free, queues, local, issued, used,
                 ncalls, nerrors, ncreates>>

\* butex_wake wakes the first waiter, possibly of a later id on the slot.
UnlockWake(p) ==
  /\ pc[p] = "wake"
  /\ IF lockers = <<>> THEN Goto(p, "idle") /\ UNCHANGED lockers
     ELSE /\ pc' = [pc EXCEPT ![p] = "idle", ![Head(lockers)] = "lock"]
          /\ lockers' = Tail(lockers)
  /\ UNCHANGED <<word, pending, free, joiners, local, issued, used, counters>>

DestroyedJoinButexStale == joinButex
DestroyedJoinButex == EndVer

UnlockAndDestroyFree(p) ==
  /\ pc[p] = "own"
  /\ butex' = first /\ UNCHANGED <<first, locked>>
  /\ joinButex' = DestroyedJoinButex
  /\ pending' = <<>>
  /\ Goto(p, "destroy")
  /\ UNCHANGED <<free, queues, local, issued, used, counters>>

UnlockAndDestroy(p) ==
  /\ pc[p] = "own"
  /\ butex' = EndVer /\ first' = EndVer /\ locked' = EndVer
  /\ joinButex' = DestroyedJoinButex
  /\ pending' = <<>>
  /\ Goto(p, "destroy")
  /\ UNCHANGED <<free, queues, local, issued, used, counters>>

\* butex_wake_except(butex, 0).
DestroyWake(p) ==
  /\ pc[p] = "destroy"
  /\ WakeLockers([pc EXCEPT ![p] = "joinwake"])
  /\ UNCHANGED <<word, pending, free, joiners, local, issued, used, counters>>

\* butex_wake_all(join_butex).
JoinWake(p) ==
  /\ pc[p] = "joinwake"
  /\ pc' = [q \in Procs |-> CASE q = p -> "return"
                              [] q # p /\ pc[q] = "joining" -> "join"
                              [] OTHER -> pc[q]]
  /\ joiners' = <<>>
  /\ UNCHANGED <<word, pending, free, lockers, local, issued, used, counters>>

(***************************************************************************)
(* Joining.                                                                *)
(***************************************************************************)
Join(p) ==
  /\ Call(p, "join")
  /\ UNCHANGED <<word, pending, free, queues, range, contended, expected, issued, nerrors,
                 ncreates, lastError>>

JoinCheck(p) ==
  /\ pc[p] = "join"
  /\ IF HasVersion(ver[p])
       THEN expected' = [expected EXCEPT ![p] = joinButex] /\ Goto(p, "joinwait")
       ELSE UNCHANGED expected /\ Goto(p, "idle")
  /\ UNCHANGED <<word, pending, free, queues, ver, range, contended, issued, used, counters>>

JoinWait(p) ==
  /\ pc[p] = "joinwait"
  /\ IF joinButex = expected[p] THEN joiners' = Append(joiners, p) /\ Goto(p, "joining")
     ELSE UNCHANGED joiners /\ Goto(p, "join")
  /\ expected' = [expected EXCEPT ![p] = 0]
  /\ UNCHANGED <<word, pending, free, lockers, ver, range, contended, issued, used, counters>>

-----------------------------------------------------------------------------
\* What a thread inside a function, or holding the lock, goes on to do.
Progress(p) ==
  \/ Take(p) \/ Contend(p) \/ LockFail(p) \/ LockWait(p)
  \/ AboutWake(p) \/ Unlock(p) \/ UnlockWake(p)
  \/ UnlockAndDestroy(p) \/ DestroyWake(p) \/ JoinWake(p) \/ ReturnResource(p)
  \/ JoinCheck(p) \/ JoinWait(p)

Next == \E p \in Procs :
  \/ Create(p) \/ Cancel(p) \/ Lock(p) \/ TryLock(p) \/ Error(p) \/ Join(p)
  \/ AboutToDestroy(p) \/ Interrupt(p)
  \/ Progress(p)

Spec == Init /\ [][Next]_vars
FairSpec == Spec /\ \A p \in Procs : WF_vars(Progress(p))

-----------------------------------------------------------------------------
PcValues == {"idle", "lock", "wait", "asleep", "own", "aboutwake", "wake", "destroy",
             "joinwake", "return", "join", "joinwait", "joining"}
Versions == 0..(Modulus - 1)
Alive == first < locked
Owners == {p \in Procs : pc[p] \in {"own", "aboutwake"}}

\* The queue s holds the threads at l, each of them once.
Queue(s, l) ==
  /\ s \in Seq(Procs)
  /\ \A p \in Procs : pc[p] = l <=> \E i \in 1..Len(s) : s[i] = p
  /\ \A i, j \in 1..Len(s) : s[i] = s[j] => i = j

FieldTypes ==
  /\ first \in Versions /\ locked \in Versions /\ butex \in Versions /\ joinButex \in Versions
  /\ pending \in Seq(1..MaxErrors) /\ free \in BOOLEAN
  /\ pc \in [Procs -> PcValues]
  /\ ver \in [Procs -> Versions] /\ range \in [Procs -> 0..IdMaxRange]
  /\ contended \in [Procs -> BOOLEAN] /\ expected \in [Procs -> Versions]
  /\ issued \subseteq Versions /\ used \in BOOLEAN
  /\ ncalls \in 0..MaxCalls /\ nerrors \in 0..MaxErrors /\ ncreates \in 0..MaxCreates
  /\ lastError \in 0..MaxErrors

\* State of the slot and of each thread; the queues hold exactly the sleepers.
TypeOK == FieldTypes /\ Queue(lockers, "asleep") /\ Queue(joiners, "joining")

\* The id is locked exactly when one thread holds it, and that thread's version
\* is valid: its unlock and unlock_and_destroy never reach their LOG(FATAL).
LockHeldByOne ==
  /\ Cardinality(Owners) <= 1
  /\ Alive => (butex # first <=> Owners # {})
  /\ \A p \in Owners : HasVersion(ver[p])

\* An error accepted while the id was locked is run or dropped before the id is
\* unlocked: a free id has no pending error.
NoErrorForgotten == butex = first => pending = <<>>

\* on_error runs in the order in which the errors were accepted.
ErrorsInOrder == [][lastError' # lastError => lastError' > lastError]_vars

\* A thread about to wake somebody, or one that was woken and will look at the
\* id again.
WakeInFlight == \E p \in Procs :
  \/ pc[p] \in {"wake", "aboutwake", "destroy"}
  \/ pc[p] \in {"lock", "wait"} /\ contended[p]

\* No lost wakeup: while a thread sleeps in bthread_id_lock, the holder knows
\* that it must wake it, or a wakeup is on its way.
NoLostWakeup == lockers # <<>> => butex \in {ContendedVer, UnlockableVer} \/ WakeInFlight

\* A thread sleeps in bthread_id_join only while its id exists, or the destroyer
\* is about to wake it.
NoLostJoin == \A p \in Procs : pc[p] = "joining" =>
  HasVersion(ver[p]) \/ \E q \in Procs : pc[q] \in {"destroy", "joinwake"}

\* The versions of a live id do not overflow, so has_version compares properly.
VersionsOrdered == Alive =>
  0 < first /\ first < locked /\ locked < ContendedVer /\ ContendedVer < UnlockableVer

\* bthread_id_lock returns once the id is unlocked or destroyed.
LockReturns == \A p \in Procs :
  pc[p] \in {"lock", "wait", "asleep"} ~> pc[p] \notin {"lock", "wait", "asleep"}
=============================================================================
