--------------------------- MODULE BthreadIdProofs ---------------------------
(***************************************************************************)
(* Proofs about BthreadId for every number of threads, range and modulus.  *)
(***************************************************************************)
EXTENDS BthreadId, FiniteSetTheorems, TLAPS

Owner(p) == pc[p] \in {"own", "aboutwake"}
Destroyer(p) == pc[p] \in {"destroy", "joinwake", "return"}

\* A live id has room for its four special versions below Modulus; a dead one
\* has a single version.
VersionInv ==
  /\ Alive => 0 < first /\ locked <= first + IdMaxRange /\ first + IdMaxRange + 2 < Modulus
  /\ ~Alive => first = locked /\ butex = first

\* The lock word of a live id.
WordInv == Alive => butex \in {first, locked, locked + 1, locked + 2}

\* The word tells whether there is a holder; a holder's version is valid.
OwnerInv ==
  /\ \A p, q \in Procs : Owner(p) /\ Owner(q) => p = q
  /\ butex # first => \E p \in Procs : Owner(p)
  /\ \A p \in Procs : Owner(p) => butex # first /\ HasVersion(ver[p])

\* The slot goes back to the pool once, after the id is dead.
SlotInv ==
  /\ free => ~Alive
  /\ \A p \in Procs : Destroyer(p) => ~free /\ ~Alive
  /\ \A p, q \in Procs : Destroyer(p) /\ Destroyer(q) => p = q

IInv == TypeOK /\ VersionInv /\ WordInv /\ OwnerInv /\ SlotInv /\ NoErrorForgotten

-----------------------------------------------------------------------------
(* Versions. *)

\* Versions stay below Modulus.
LEMMA AddType ==
  ASSUME NEW a \in Nat, NEW b \in Nat
  PROVE  Add(a, b) \in Versions
BY RangeAssumption DEF Add, Versions

\* contended_ver and unlockable_ver of a live id do not overflow.
LEMMA LiveVersions ==
  ASSUME FieldTypes, VersionInv, Alive
  PROVE  ContendedVer = locked + 1 /\ UnlockableVer = locked + 2
<1>1. ASSUME NEW a \in Nat, NEW b \in Nat, a + b < Modulus
      PROVE  Add(a, b) = a + b
  BY <1>1, RangeAssumption DEF Add
<1> HIDE DEF Add
<1> QED BY <1>1, RangeAssumption DEF FieldTypes, VersionInv, Versions, ContendedVer, UnlockableVer

\* The special versions are versions.
LEMMA SpecialVersions ==
  ASSUME FieldTypes
  PROVE  ContendedVer \in Versions /\ UnlockableVer \in Versions /\ EndVer \in Versions
<1>1. locked \in Nat
  BY RangeAssumption DEF FieldTypes, Versions
<1>2. UnlockableVer \in Versions
  BY <1>1, AddType DEF UnlockableVer
<1>3. UnlockableVer \in Nat
  BY <1>2, RangeAssumption DEF Versions
<1> QED BY <1>1, <1>2, <1>3, AddType DEF ContendedVer, EndVer

\* An id that has a valid version is alive.
LEMMA ValidAlive ==
  ASSUME FieldTypes, NEW v \in Versions, HasVersion(v)
  PROVE  Alive /\ first \in Nat /\ locked \in Nat /\ v \in Nat /\ first <= v /\ v < locked
<1>1. first \in Nat /\ locked \in Nat /\ v \in Nat
  BY RangeAssumption DEF FieldTypes, Versions
<1>2. first <= v /\ v < locked
  BY <1>1 DEF HasVersion
<1> QED BY <1>1, <1>2 DEF Alive

\* id_create_impl leaves room for the largest range.
LEMMA FirstVerRoom ==
  ASSUME NEW b \in Versions
  PROVE  /\ FirstVer(b) \in Versions /\ 0 < FirstVer(b)
         /\ FirstVer(b) + IdMaxRange + 2 < Modulus
<1>1. ASSUME b + (IdMaxRange + 2) >= Modulus
      PROVE  Add(b, IdMaxRange + 2) < b
  BY <1>1, RangeAssumption DEF Add, Versions
<1> HIDE DEF Add
<1> QED BY <1>1, RangeAssumption DEF FirstVer, Versions

-----------------------------------------------------------------------------
(* Queues of waiters. *)
QueueOf(f, s, l) ==
  /\ s \in Seq(Procs)
  /\ \A p \in Procs : f[p] = l <=> \E i \in 1..Len(s) : s[i] = p
  /\ \A i, j \in 1..Len(s) : s[i] = s[j] => i = j

\* Threads that are not at l before and after a step do not matter to its queue.
LEMMA QueueKept ==
  ASSUME NEW f, NEW g, NEW s, NEW l, QueueOf(f, s, l),
         \A q \in Procs : f[q] = l <=> g[q] = l
  PROVE  QueueOf(g, s, l)
BY DEF QueueOf

\* Emptying a queue wakes all its sleepers.
LEMMA QueueEmptied ==
  ASSUME NEW g, NEW l, \A q \in Procs : g[q] # l
  PROVE  QueueOf(g, <<>>, l)
BY DEF QueueOf

\* A thread that falls asleep goes to the end of the queue.
LEMMA QueueAppend ==
  ASSUME NEW f \in [Procs -> PcValues], NEW s, NEW l \in PcValues, QueueOf(f, s, l),
         NEW p \in Procs, f[p] # l
  PROVE  QueueOf([f EXCEPT ![p] = l], Append(s, p), l)
<1> DEFINE g == [f EXCEPT ![p] = l]
           t == Append(s, p)
<1>1. s \in Seq(Procs) /\ t \in Seq(Procs) /\ Len(t) = Len(s) + 1 /\ Len(s) \in Nat
  BY DEF QueueOf
<1>2. \A i \in 1..Len(s) : t[i] = s[i] /\ s[i] # p
  BY <1>1 DEF QueueOf
<1>3. t[Len(t)] = p
  BY <1>1
<1>4. \A q \in Procs : g[q] = l <=> \E i \in 1..Len(t) : t[i] = q
  <2> SUFFICES ASSUME NEW q \in Procs PROVE g[q] = l <=> \E i \in 1..Len(t) : t[i] = q
    OBVIOUS
  <2> HIDE DEF t
  <2>1. CASE q = p
    BY <2>1, <1>1, <1>3
  <2>2. CASE q # p
    BY <2>2, <1>1, <1>2, <1>3 DEF QueueOf
  <2> QED BY <2>1, <2>2
<1>5. \A i, j \in 1..Len(t) : t[i] = t[j] => i = j
  <2> HIDE DEF t
  <2> QED BY <1>1, <1>2, <1>3 DEF QueueOf
<1> QED BY <1>1, <1>4, <1>5 DEF QueueOf

\* A waiter leaves the queue and goes on at m.
LEMMA QueueWithout ==
  ASSUME NEW f \in [Procs -> PcValues], NEW s, NEW l, QueueOf(f, s, l),
         NEW k \in 1..Len(s), NEW m \in PcValues, m # l
  PROVE  QueueOf([f EXCEPT ![s[k]] = m], Without(s, k), l)
<1> DEFINE g == [f EXCEPT ![s[k]] = m]
           t == Without(s, k)
<1>1. s \in Seq(Procs) /\ Len(s) \in Nat /\ s[k] \in Procs
  BY DEF QueueOf
<1>2. t \in Seq(Procs) /\ Len(t) = Len(s) - 1
  <2>1. t \in [1..(Len(s) - 1) -> Procs]
    BY <1>1 DEF Without
  <2> HIDE DEF t
  <2> QED BY <2>1, <1>1
<1>3. \A i \in 1..Len(t) : t[i] = IF i < k THEN s[i] ELSE s[i + 1]
  BY <1>1, <1>2 DEF Without
<1> HIDE DEF t
<1>4. \A q \in Procs : g[q] = l <=> \E i \in 1..Len(t) : t[i] = q
  <2> SUFFICES ASSUME NEW q \in Procs PROVE g[q] = l <=> \E i \in 1..Len(t) : t[i] = q
    OBVIOUS
  <2>1. CASE q = s[k]
    <3>1. \A i \in 1..Len(t) : t[i] # q
      BY <2>1, <1>1, <1>2, <1>3 DEF QueueOf
    <3> QED BY <2>1, <3>1
  <2>2. CASE q # s[k]
    <3>1. ASSUME NEW i \in 1..Len(s), s[i] = q PROVE \E j \in 1..Len(t) : t[j] = q
      <4>1. i # k
        BY <2>2, <3>1
      <4>2. CASE i < k
        BY <4>2, <3>1, <1>1, <1>2, <1>3
      <4>3. CASE i > k
        <5>1. i - 1 \in 1..Len(t) /\ t[i - 1] = s[i]
          BY <4>3, <1>1, <1>2, <1>3
        <5> QED BY <5>1, <3>1
      <4> QED BY <4>1, <4>2, <4>3, <1>1
    <3>2. ASSUME NEW j \in 1..Len(t), t[j] = q PROVE \E i \in 1..Len(s) : s[i] = q
      BY <3>2, <1>1, <1>2, <1>3
    <3> QED BY <2>2, <3>1, <3>2 DEF QueueOf
  <2> QED BY <2>1, <2>2
<1>5. \A i, j \in 1..Len(t) : t[i] = t[j] => i = j
  <2> SUFFICES ASSUME NEW i \in 1..Len(t), NEW j \in 1..Len(t), t[i] = t[j] PROVE i = j
    OBVIOUS
  <2> DEFINE ii == IF i < k THEN i ELSE i + 1
             jj == IF j < k THEN j ELSE j + 1
  <2>0. ii \in 1..Len(s) /\ jj \in 1..Len(s)
    BY <1>1, <1>2
  <2>1. ii \in 1..Len(s) /\ jj \in 1..Len(s) /\ s[ii] = s[jj]
    <3>1. t[i] = s[ii]
      BY <1>1, <1>2, <1>3
    <3>2. t[j] = s[jj]
      BY <1>1, <1>2, <1>3
    <3> QED BY <2>0, <3>1, <3>2
  <2>2. ii = jj
    BY <2>1 DEF QueueOf
  <2> QED BY <2>2, <1>1, <1>2
<1> QED BY <1>2, <1>4, <1>5 DEF QueueOf, t

\* butex_wake takes the first waiter.
LEMMA QueueTail ==
  ASSUME NEW f \in [Procs -> PcValues], NEW s, NEW l, QueueOf(f, s, l), s # <<>>,
         NEW m \in PcValues, m # l
  PROVE  QueueOf([f EXCEPT ![Head(s)] = m], Tail(s), l)
<1>1. s \in Seq(Procs) /\ Len(s) \in Nat /\ Len(s) > 0
  BY DEF QueueOf
<1>2. Head(s) = s[1]
  BY <1>1
<1>3. Tail(s) = Without(s, 1)
  <2>1. Tail(s) \in Seq(Procs) /\ Len(Tail(s)) = Len(s) - 1
    BY <1>1
  <2>2. \A i \in 1..(Len(s) - 1) : Tail(s)[i] = s[i + 1]
    BY <1>1
  <2>3. Tail(s) = [i \in 1..(Len(s) - 1) |-> Tail(s)[i]]
    <3>1. ASSUME NEW t \in Seq(Procs) PROVE t \in [1..Len(t) -> Procs]
      OBVIOUS
    <3>2. Tail(s) \in [1..(Len(s) - 1) -> Procs]
      BY <2>1, <3>1
    <3> QED BY <3>2
  <2>4. ~(\E i \in 1..(Len(s) - 1) : i < 1)
    OBVIOUS
  <2> QED BY <2>2, <2>3, <2>4 DEF Without
<1>4. QueueOf([f EXCEPT ![s[1]] = m], Without(s, 1), l)
  <2>1. 1 \in 1..Len(s)
    BY <1>1
  <2> QED BY <2>1, QueueWithout, Zenon
<1> QED BY <1>2, <1>3, <1>4

-----------------------------------------------------------------------------
(* Steps. *)

\* Every step keeps the types of the variables.
LEMMA FieldTypesStep ==
  ASSUME FieldTypes, VersionInv, NEW p \in Procs,
         \/ Create(p) \/ Cancel(p) \/ Lock(p) \/ TryLock(p) \/ Error(p) \/ Join(p)
         \/ AboutToDestroy(p) \/ Interrupt(p) \/ Progress(p)
  PROVE  FieldTypes'
<1>0. ContendedVer \in Versions /\ UnlockableVer \in Versions /\ EndVer \in Versions
  BY SpecialVersions
<1> HIDE DEF ContendedVer, UnlockableVer, EndVer
<1>1. CASE Create(p)
  <2> DEFINE b == FirstVer(butex)
  <2>1. b \in Versions /\ 0 < b /\ b + IdMaxRange + 2 < Modulus
    BY FirstVerRoom DEF FieldTypes
  <2>2. b \in Versions /\ b + CreateRange \in Versions /\ b..(b + CreateRange - 1) \subseteq Versions
    BY <2>1, RangeAssumption DEF Versions
  <2> HIDE DEF b
  <2>3. /\ butex' = b /\ joinButex' = b /\ first' = b /\ locked' = b + CreateRange
        /\ issued' = issued \cup b..(b + CreateRange - 1)
    BY <1>1 DEF Create, b
  <2>4. ncreates' \in 0..MaxCreates
    BY <1>1, BoundAssumption DEF Create, FieldTypes
  <2>5. issued' \subseteq Versions
    BY <2>2, <2>3 DEF FieldTypes
  <2>6. UNCHANGED <<pending, pc, ver, range, contended, expected, ncalls, nerrors, lastError>>
        /\ free' = FALSE /\ used' = FALSE
    BY <1>1 DEF Create, local
  <2> QED BY <2>2, <2>3, <2>4, <2>5, <2>6 DEF FieldTypes
<1>2. CASE Cancel(p)
  BY <1>2, <1>0, RangeAssumption, BoundAssumption DEF Cancel, FieldTypes, PcValues, word, queues, local, counters, Goto
<1>3. CASE ReturnResource(p)
  BY <1>3, <1>0, RangeAssumption, BoundAssumption DEF ReturnResource, FieldTypes, PcValues, word, queues, local, counters, Goto
<1>4. CASE Lock(p)
  BY <1>4, <1>0, RangeAssumption, BoundAssumption DEF Lock, Call, FieldTypes, PcValues, word, queues, local, counters, Goto
<1>5. CASE Take(p)
  <2> DEFINE l == IF first + range[p] <= locked THEN locked ELSE first + range[p]
  <2>1. l \in Nat /\ first \in Nat /\ l + 1 < Modulus
    <3>1. HasVersion(ver[p]) /\ ver[p] \in Versions /\ range[p] \in 0..IdMaxRange
      BY <1>5 DEF Take, FieldTypes
    <3>2. Alive /\ first \in Nat /\ locked \in Nat
      BY <3>1, ValidAlive
    <3> QED BY <3>1, <3>2, RangeAssumption DEF VersionInv
  <2>2. l \in Versions /\ first..(l - 1) \subseteq Versions
    BY <2>1, RangeAssumption DEF Versions
  <2>3. TakenVer(p, l) \in Versions
    BY <2>1, <2>2, AddType DEF TakenVer
  <2> HIDE DEF l
  <2>4. locked' = l /\ butex' = TakenVer(p, l) /\ issued' = issued \cup first..(l - 1)
    BY <1>5 DEF Take, l
  <2>5. pc' \in [Procs -> PcValues]
    BY <1>5 DEF Take, Goto, FieldTypes, PcValues
  <2>6. range' \in [Procs -> 0..IdMaxRange] /\ contended' \in [Procs -> BOOLEAN]
    BY <1>5, RangeAssumption DEF Take, Leave, FieldTypes
  <2>7. UNCHANGED <<first, joinButex, pending, free, ver, expected, used, ncalls, nerrors, ncreates, lastError>>
    BY <1>5 DEF Take, counters
  <2> QED BY <2>2, <2>3, <2>4, <2>5, <2>6, <2>7 DEF FieldTypes
<1>6. CASE Contend(p)
  BY <1>6, <1>0, RangeAssumption, BoundAssumption DEF Contend, FieldTypes, PcValues, word, queues, local, counters, Goto
<1>7. CASE LockFail(p)
  BY <1>7, <1>0, RangeAssumption, BoundAssumption DEF LockFail, Leave, FieldTypes, PcValues, word, queues, local, counters, Goto
<1>8. CASE LockWait(p)
  <2>1. pc' \in [Procs -> PcValues]
    BY <1>8 DEF LockWait, Goto, FieldTypes, PcValues
  <2>2. expected' \in [Procs -> Versions]
    BY <1>8, RangeAssumption DEF LockWait, FieldTypes, Versions
  <2> QED BY <1>8, <2>1, <2>2 DEF LockWait, FieldTypes, word, counters
<1>9. CASE TryLock(p)
  <2>1. PICK v \in issued : TryLock(p)!3!(v)
    BY <1>9 DEF TryLock
  <2>2. ver' \in [Procs -> Versions] /\ used' \in BOOLEAN
    BY <2>1 DEF FieldTypes
  <2>3. butex' \in Versions /\ pc' \in [Procs -> PcValues]
    <3>1. CASE HasVersion(v) /\ butex = first
      BY <2>1, <3>1 DEF FieldTypes, Goto, PcValues
    <3>2. CASE ~(HasVersion(v) /\ butex = first)
      BY <2>1, <3>2 DEF FieldTypes
    <3> QED BY <3>1, <3>2
  <2>4. ncalls' \in 0..MaxCalls
    BY <1>9, BoundAssumption DEF TryLock, FieldTypes
  <2> QED BY <1>9, <2>2, <2>3, <2>4 DEF TryLock, FieldTypes
<1>10. CASE Interrupt(p)
  BY <1>10, <1>0, RangeAssumption, BoundAssumption DEF Interrupt, FieldTypes, PcValues, word, queues, local, counters, Goto
<1>11. CASE Error(p)
  <2>1. PICK v \in issued : Error(p)!3!(v)
    BY <1>11 DEF Error
  <2>2. ver' \in [Procs -> Versions] /\ used' \in BOOLEAN
    BY <2>1 DEF FieldTypes
  <2>3. nerrors' \in 0..MaxErrors /\ (HasVersion(v) => nerrors' \in 1..MaxErrors)
    <3>1. nerrors \in Nat /\ nerrors < MaxErrors /\ MaxErrors \in Nat
      BY <1>11, BoundAssumption DEF Error, FieldTypes
    <3>2. nerrors' = IF HasVersion(v) THEN nerrors + 1 ELSE nerrors
      BY <2>1
    <3> QED BY <3>1, <3>2
  <2>4. /\ butex' \in Versions /\ pc' \in [Procs -> PcValues]
        /\ lastError' \in 0..MaxErrors /\ pending' \in Seq(1..MaxErrors)
    <3>1. CASE ~HasVersion(v)
      BY <2>1, <3>1 DEF FieldTypes
    <3>2. CASE HasVersion(v) /\ butex = first
      BY <2>1, <2>3, <3>2 DEF FieldTypes, Goto, PcValues
    <3>3. CASE HasVersion(v) /\ butex # first
      <4>1. pending' = Append(pending, nerrors') /\ UNCHANGED <<butex, pc, lastError>>
        BY <2>1, <3>3 DEF Pushed
      <4> QED BY <4>1, <2>3, <3>3 DEF FieldTypes
    <3> QED BY <3>1, <3>2, <3>3
  <2>5. ncalls' \in 0..MaxCalls
    BY <1>11, BoundAssumption DEF Error, FieldTypes
  <2> QED BY <1>11, <2>2, <2>3, <2>4, <2>5 DEF Error, FieldTypes, queues
<1>12. CASE AboutToDestroy(p)
  BY <1>12, <1>0, RangeAssumption, BoundAssumption DEF AboutToDestroy, FieldTypes, PcValues, word, queues, local, counters, Goto
<1>13. CASE AboutWake(p)
  BY <1>13, <1>0, RangeAssumption, BoundAssumption DEF AboutWake, WakeLockers, FieldTypes, PcValues, word, queues, local, counters, Goto
<1>14. CASE Unlock(p)
  <2>1. CASE pending # <<>>
    <3>1. ASSUME NEW S, NEW s \in Seq(S), s # <<>> PROVE Head(s) \in S /\ Tail(s) \in Seq(S)
      BY <3>1
    <3>2. Head(pending) \in 1..MaxErrors /\ Tail(pending) \in Seq(1..MaxErrors)
      BY <2>1, <3>1 DEF FieldTypes
    <3>3. lastError' = Head(pending) /\ pending' = Tail(pending) /\ UNCHANGED <<butex, pc>>
      BY <1>14, <2>1 DEF Unlock
    <3>4. lastError' \in 0..MaxErrors /\ pending' \in Seq(1..MaxErrors)
      BY <3>2, <3>3, BoundAssumption
    <3> QED BY <1>14, <3>3, <3>4 DEF Unlock, FieldTypes, local
  <2>2. CASE pending = <<>>
    BY <1>14, <2>2 DEF Unlock, FieldTypes, PcValues, Goto, local, queues
  <2> QED BY <2>1, <2>2
<1>15. CASE UnlockWake(p)
  BY <1>15, <1>0, RangeAssumption, BoundAssumption DEF UnlockWake, FieldTypes, PcValues, word, queues, local, counters, Goto
<1>16. CASE UnlockAndDestroy(p)
  BY <1>16, <1>0, RangeAssumption, BoundAssumption DEF UnlockAndDestroy, DestroyedJoinButex, FieldTypes, PcValues, word, queues, local, counters, Goto
<1>17. CASE DestroyWake(p)
  BY <1>17, <1>0, RangeAssumption, BoundAssumption DEF DestroyWake, WakeLockers, FieldTypes, PcValues, word, queues, local, counters, Goto
<1>18. CASE JoinWake(p)
  BY <1>18, <1>0, RangeAssumption, BoundAssumption DEF JoinWake, FieldTypes, PcValues, word, queues, local, counters, Goto
<1>19. CASE Join(p)
  BY <1>19, <1>0, RangeAssumption, BoundAssumption DEF Join, Call, FieldTypes, PcValues, word, queues, local, counters, Goto
<1>20. CASE JoinCheck(p)
  BY <1>20, <1>0, RangeAssumption, BoundAssumption DEF JoinCheck, FieldTypes, PcValues, word, queues, local, counters, Goto
<1>21. CASE JoinWait(p)
  <2>1. pc' \in [Procs -> PcValues]
    BY <1>21 DEF JoinWait, Goto, FieldTypes, PcValues
  <2>2. expected' \in [Procs -> Versions]
    BY <1>21, RangeAssumption DEF JoinWait, FieldTypes, Versions
  <2> QED BY <1>21, <2>1, <2>2 DEF JoinWait, FieldTypes, word, counters
<1> QED BY <1>1, <1>2, <1>3, <1>4, <1>5, <1>6, <1>7, <1>8, <1>9, <1>10, <1>11, <1>12, <1>13, <1>14, <1>15, <1>16, <1>17, <1>18, <1>19, <1>20, <1>21 DEF Progress

\* Every step leaves exactly the sleepers in the two queues.
LEMMA QueuesStep ==
  ASSUME TypeOK, NEW p \in Procs,
         \/ Create(p) \/ Cancel(p) \/ Lock(p) \/ TryLock(p) \/ Error(p) \/ Join(p)
         \/ AboutToDestroy(p) \/ Interrupt(p) \/ Progress(p)
  PROVE  Queue(lockers, "asleep")' /\ Queue(joiners, "joining")'
<1>1. /\ pc \in [Procs -> PcValues] /\ QueueOf(pc, lockers, "asleep") /\ QueueOf(pc, joiners, "joining")
      /\ lockers \in Seq(Procs) /\ joiners \in Seq(Procs)
  BY DEF TypeOK, FieldTypes, Queue, QueueOf
<1> SUFFICES QueueOf(pc', lockers', "asleep") /\ QueueOf(pc', joiners', "joining")
  BY DEF Queue, QueueOf
<1>2. ASSUME UNCHANGED queues, NEW m \in PcValues \ {"asleep", "joining"},
             pc[p] \notin {"asleep", "joining"}, pc' = [pc EXCEPT ![p] = m] \/ UNCHANGED pc
      PROVE  QueueOf(pc', lockers', "asleep") /\ QueueOf(pc', joiners', "joining")
  <2>1. \A q \in Procs : (pc[q] = "asleep" <=> pc'[q] = "asleep") /\ (pc[q] = "joining" <=> pc'[q] = "joining")
    BY <1>1, <1>2
  <2>2. lockers' = lockers /\ joiners' = joiners
    BY <1>2 DEF queues
  <2> QED BY <1>1, <2>1, <2>2, QueueKept
<1>3. CASE \/ Create(p) \/ Cancel(p) \/ Lock(p) \/ TryLock(p) \/ Error(p) \/ Join(p)
           \/ AboutToDestroy(p) \/ ReturnResource(p) \/ Take(p) \/ Contend(p) \/ LockFail(p)
           \/ Unlock(p) \/ UnlockAndDestroy(p) \/ JoinCheck(p)
  <2>1. UNCHANGED queues
    BY <1>3 DEF Create, Cancel, Lock, TryLock, Error, Join, AboutToDestroy, ReturnResource,
                Take, Contend, LockFail, Unlock, UnlockAndDestroy, JoinCheck
  <2>2. pc[p] \notin {"asleep", "joining"}
    BY <1>3 DEF Create, Cancel, Lock, TryLock, Error, Join, AboutToDestroy, ReturnResource,
                Take, Contend, LockFail, Unlock, UnlockAndDestroy, JoinCheck, Call
  <2>3. UNCHANGED pc \/ \E m \in PcValues \ {"asleep", "joining"} : pc' = [pc EXCEPT ![p] = m]
    BY <1>3 DEF Create, Cancel, Lock, TryLock, Error, Join, AboutToDestroy, ReturnResource,
                Take, Contend, LockFail, Unlock, UnlockAndDestroy, JoinCheck, Call, Goto, PcValues
  <2>4. "idle" \in PcValues \ {"asleep", "joining"}
    BY DEF PcValues
  <2> QED BY <1>2, <2>1, <2>2, <2>3, <2>4
<1>4. CASE LockWait(p)
  <2>1. pc[p] = "wait" /\ joiners' = joiners
    BY <1>4 DEF LockWait
  <2>2. CASE butex = expected[p]
    <3>1. lockers' = Append(lockers, p) /\ pc' = [pc EXCEPT ![p] = "asleep"]
      BY <1>4, <2>2 DEF LockWait, Goto
    <3>2. QueueOf(pc', lockers', "asleep")
      BY <1>1, <2>1, <3>1, QueueAppend DEF PcValues
    <3>3. \A q \in Procs : pc[q] = "joining" <=> pc'[q] = "joining"
      BY <1>1, <2>1, <3>1
    <3> QED BY <1>1, <2>1, <3>2, <3>3, QueueKept
  <2>3. CASE butex # expected[p]
    <3>1. UNCHANGED queues /\ pc' = [pc EXCEPT ![p] = "lock"]
      BY <1>4, <2>3 DEF LockWait, Goto, queues
    <3> QED BY <1>2, <2>1, <3>1 DEF PcValues
  <2> QED BY <2>2, <2>3
<1>5. CASE JoinWait(p)
  <2>1. pc[p] = "joinwait" /\ lockers' = lockers
    BY <1>5 DEF JoinWait
  <2>2. CASE joinButex = expected[p]
    <3>1. joiners' = Append(joiners, p) /\ pc' = [pc EXCEPT ![p] = "joining"]
      BY <1>5, <2>2 DEF JoinWait, Goto
    <3>2. QueueOf(pc', joiners', "joining")
      BY <1>1, <2>1, <3>1, QueueAppend DEF PcValues
    <3>3. \A q \in Procs : pc[q] = "asleep" <=> pc'[q] = "asleep"
      BY <1>1, <2>1, <3>1
    <3> QED BY <1>1, <2>1, <3>2, <3>3, QueueKept
  <2>3. CASE joinButex # expected[p]
    <3>1. UNCHANGED queues /\ pc' = [pc EXCEPT ![p] = "join"]
      BY <1>5, <2>3 DEF JoinWait, Goto, queues
    <3> QED BY <1>2, <2>1, <3>1 DEF PcValues
  <2> QED BY <2>2, <2>3
<1>6. CASE Interrupt(p)
  <2>1. ASSUME NEW i \in 1..Len(lockers), lockers[i] = p, lockers' = Without(lockers, i),
               pc' = [pc EXCEPT ![p] = "lock"], joiners' = joiners
        PROVE  QueueOf(pc', lockers', "asleep") /\ QueueOf(pc', joiners', "joining")
    <3>1. QueueOf([pc EXCEPT ![lockers[i]] = "lock"], Without(lockers, i), "asleep")
      BY <1>1, QueueWithout DEF PcValues
    <3>2. pc[p] = "asleep"
      BY <1>1, <2>1 DEF QueueOf
    <3>3. \A q \in Procs : pc[q] = "joining" <=> pc'[q] = "joining"
      BY <1>1, <2>1, <3>2
    <3> QED BY <1>1, <2>1, <3>1, <3>3, QueueKept
  <2>2. ASSUME NEW i \in 1..Len(joiners), joiners[i] = p, joiners' = Without(joiners, i),
               pc' = [pc EXCEPT ![p] = "join"], lockers' = lockers
        PROVE  QueueOf(pc', lockers', "asleep") /\ QueueOf(pc', joiners', "joining")
    <3>1. QueueOf([pc EXCEPT ![joiners[i]] = "join"], Without(joiners, i), "joining")
      BY <1>1, QueueWithout DEF PcValues
    <3>2. pc[p] = "joining"
      BY <1>1, <2>2 DEF QueueOf
    <3>3. \A q \in Procs : pc[q] = "asleep" <=> pc'[q] = "asleep"
      BY <1>1, <2>2, <3>2
    <3> QED BY <1>1, <2>2, <3>1, <3>3, QueueKept
  <2> QED BY <1>6, <2>1, <2>2 DEF Interrupt, Goto
<1>7. CASE AboutWake(p) \/ DestroyWake(p)
  <2>1. lockers' = <<>> /\ joiners' = joiners /\ pc[p] \in {"aboutwake", "destroy"}
    BY <1>7 DEF AboutWake, DestroyWake, WakeLockers
  <2>2. \A q \in Procs : pc'[q] # "asleep" /\ (pc[q] = "joining" <=> pc'[q] = "joining")
    BY <1>1, <1>7 DEF AboutWake, DestroyWake, WakeLockers
  <2>3. QueueOf(pc', <<>>, "asleep")
    BY <2>2, QueueEmptied
  <2>4. QueueOf(pc', joiners, "joining")
    BY <1>1, <2>2, QueueKept
  <2> QED BY <2>1, <2>3, <2>4
<1>8. CASE JoinWake(p)
  <2>1. joiners' = <<>> /\ lockers' = lockers
    BY <1>8 DEF JoinWake
  <2>2. \A q \in Procs : pc'[q] # "joining" /\ (pc[q] = "asleep" <=> pc'[q] = "asleep")
    BY <1>1, <1>8 DEF JoinWake
  <2>3. QueueOf(pc', <<>>, "joining")
    BY <2>2, QueueEmptied
  <2>4. QueueOf(pc', lockers, "asleep")
    BY <1>1, <2>2, QueueKept
  <2> QED BY <2>1, <2>3, <2>4
<1>9. CASE UnlockWake(p)
  <2>1. CASE lockers = <<>>
    <3>1. UNCHANGED queues /\ pc' = [pc EXCEPT ![p] = "idle"] /\ pc[p] = "wake"
      BY <1>9, <2>1 DEF UnlockWake, Goto, queues
    <3> QED BY <1>2, <3>1 DEF PcValues
  <2>2. CASE lockers # <<>>
    <3> DEFINE h == Head(lockers)
               f == [pc EXCEPT ![h] = "lock"]
    <3>1. h \in Procs /\ pc[h] = "asleep"
      <4>1. 1 \in 1..Len(lockers) /\ h = lockers[1]
        BY <1>1, <2>2
      <4> QED BY <1>1, <4>1 DEF QueueOf
    <3>2. /\ pc' = [pc EXCEPT ![p] = "idle", ![h] = "lock"] /\ lockers' = Tail(lockers)
          /\ joiners' = joiners /\ pc[p] = "wake"
      BY <1>9, <2>2 DEF UnlockWake
    <3>3. QueueOf(f, Tail(lockers), "asleep")
      BY <1>1, <2>2, QueueTail DEF PcValues
    <3> HIDE DEF h
    <3>4. \A q \in Procs : f[q] = "asleep" <=> pc'[q] = "asleep"
      BY <1>1, <3>1, <3>2
    <3>5. \A q \in Procs : pc[q] = "joining" <=> pc'[q] = "joining"
      BY <1>1, <3>1, <3>2
    <3> HIDE DEF f
    <3> QED BY <1>1, <3>2, <3>3, <3>4, <3>5, QueueKept
  <2> QED BY <2>1, <2>2
<1> QED BY <1>3, <1>4, <1>5, <1>6, <1>7, <1>8, <1>9 DEF Progress

\* The part of the invariant that is about the id itself.
WInv == VersionInv /\ WordInv /\ OwnerInv /\ SlotInv /\ NoErrorForgotten

\* A step that touches neither the id nor its holder.
LEMMA QuietStep ==
  ASSUME TypeOK, WInv, UNCHANGED <<first, locked, butex, pending, free>>,
         \A q \in Procs : Owner(q)' <=> Owner(q),
         \A q \in Procs : Destroyer(q)' => Destroyer(q),
         \A q \in Procs : Owner(q) => ver'[q] = ver[q]
  PROVE  WInv'
BY DEF WInv, VersionInv, WordInv, OwnerInv, SlotInv, NoErrorForgotten, Alive, HasVersion

\* Every step keeps the id, its holder and its pending errors consistent.
LEMMA WordStep ==
  ASSUME IInv, FieldTypes', NEW p \in Procs,
         \/ Create(p) \/ Cancel(p) \/ Lock(p) \/ TryLock(p) \/ Error(p) \/ Join(p)
         \/ AboutToDestroy(p) \/ Interrupt(p) \/ Progress(p)
  PROVE  WInv'
<1> USE DEF Owner, Destroyer
<1>0. WInv /\ TypeOK /\ FieldTypes /\ pc \in [Procs -> PcValues] /\ ver \in [Procs -> Versions]
  BY DEF IInv, WInv, TypeOK, FieldTypes
<1>1. CASE Lock(p) \/ LockFail(p) \/ Join(p) \/ JoinCheck(p) \/ LockWait(p) \/ JoinWait(p)
  <2>1. /\ UNCHANGED <<first, locked, butex, pending, free>> /\ ~Owner(p) /\ ~Destroyer(p)
        /\ \E l \in {"lock", "idle", "join", "joinwait", "asleep", "joining"} : pc' = [pc EXCEPT ![p] = l]
    BY <1>1 DEF Lock, LockFail, Leave, Join, JoinCheck, LockWait, JoinWait, Call, Goto, word
  <2>2. \A q \in Procs : q # p => ver'[q] = ver[q]
    BY <1>0, <1>1 DEF Lock, LockFail, Leave, Join, JoinCheck, LockWait, JoinWait, Call, local
  <2>3. \A q \in Procs : (Owner(q)' <=> Owner(q)) /\ (Destroyer(q)' <=> Destroyer(q))
    BY <1>0, <2>1
  <2> QED BY <1>0, <2>1, <2>2, <2>3, QuietStep
<1>2. CASE Interrupt(p)
  <2>1. pc[p] \in {"asleep", "joining"} /\ \E l \in {"lock", "join"} : pc' = [pc EXCEPT ![p] = l]
    BY <1>0, <1>2 DEF Interrupt, TypeOK, Queue, Goto
  <2>2. UNCHANGED <<first, locked, butex, pending, free, ver>>
    BY <1>2 DEF Interrupt, word, local
  <2>3. \A q \in Procs : (Owner(q)' <=> Owner(q)) /\ (Destroyer(q)' <=> Destroyer(q))
    BY <1>0, <2>1
  <2> QED BY <1>0, <2>2, <2>3, QuietStep
<1>3. CASE UnlockWake(p)
  <2>1. pc[p] = "wake" /\ UNCHANGED <<first, locked, butex, pending, free, ver>>
    BY <1>3 DEF UnlockWake, word, local
  <2>2. CASE lockers = <<>>
    <3>1. \A q \in Procs : (Owner(q)' <=> Owner(q)) /\ (Destroyer(q)' <=> Destroyer(q))
      BY <1>0, <1>3, <2>1, <2>2 DEF UnlockWake, Goto
    <3> QED BY <1>0, <2>1, <3>1, QuietStep
  <2>3. CASE lockers # <<>>
    <3>1. Head(lockers) \in Procs /\ pc[Head(lockers)] = "asleep"
      <4>1. lockers \in Seq(Procs) /\ 1 \in 1..Len(lockers) /\ Head(lockers) = lockers[1]
        BY <1>0, <2>3 DEF TypeOK, Queue
      <4>2. lockers[1] \in Procs
        BY <4>1
      <4>3. \A q \in Procs : (\E i \in 1..Len(lockers) : lockers[i] = q) => pc[q] = "asleep"
        BY <1>0 DEF TypeOK, Queue
      <4> QED BY <4>1, <4>2, <4>3
    <3>2. \A q \in Procs : (Owner(q)' <=> Owner(q)) /\ (Destroyer(q)' <=> Destroyer(q))
      BY <1>0, <1>3, <2>1, <2>3, <3>1 DEF UnlockWake
    <3> QED BY <1>0, <2>1, <3>2, QuietStep
  <2> QED BY <2>2, <2>3
<1>4. CASE AboutWake(p) \/ DestroyWake(p) \/ JoinWake(p)
  <2>1. UNCHANGED <<first, locked, butex, pending, free, ver>>
    BY <1>4 DEF AboutWake, DestroyWake, JoinWake, word, local
  <2>2. \A q \in Procs : (Owner(q)' <=> Owner(q)) /\ (Destroyer(q)' <=> Destroyer(q))
    BY <1>0, <1>4 DEF AboutWake, DestroyWake, JoinWake, WakeLockers
  <2> QED BY <1>0, <2>1, <2>2, QuietStep
<1>5. CASE ReturnResource(p)
  BY <1>0, <1>5 DEF ReturnResource, Goto, word, local, WInv, VersionInv, WordInv, OwnerInv, SlotInv,
                    NoErrorForgotten, Alive, HasVersion
<1>6. CASE Create(p)
  <2> DEFINE b == FirstVer(butex)
  <2>1. b \in Versions /\ 0 < b /\ b + IdMaxRange + 2 < Modulus
    BY <1>0, FirstVerRoom DEF FieldTypes
  <2>2. /\ butex' = b /\ first' = b /\ locked' = b + CreateRange /\ free' = FALSE /\ free
        /\ UNCHANGED <<pending, pc, ver>>
    BY <1>6 DEF Create, local
  <2> HIDE DEF b
  <2>3. ~Alive /\ butex = first /\ pending = <<>>
    BY <1>0, <2>2 DEF WInv, SlotInv, VersionInv, NoErrorForgotten
  <2>4. \A q \in Procs : ~Owner(q) /\ ~Destroyer(q)
    BY <1>0, <2>2, <2>3 DEF WInv, SlotInv, OwnerInv
  <2>5. b \in Int /\ b + CreateRange \in Int /\ b < b + CreateRange
    BY <2>1, RangeAssumption DEF Versions
  <2>6. VersionInv' /\ WordInv'
    BY <2>1, <2>2, <2>5, RangeAssumption DEF VersionInv, WordInv, Alive, Versions
  <2> QED BY <2>2, <2>3, <2>4, <2>6, <2>5 DEF WInv, OwnerInv, SlotInv, NoErrorForgotten
<1>7. CASE Cancel(p)
  <2>1. /\ butex' = EndVer /\ first' = EndVer /\ locked' = EndVer /\ UNCHANGED <<pending, free, ver>>
        /\ Alive /\ butex = first /\ pc' = [pc EXCEPT ![p] = "return"] /\ pc[p] = "idle"
    BY <1>7 DEF Cancel, Alive, Goto, local
  <2>2. (\A q \in Procs : ~Owner(q) /\ ~Destroyer(q)) /\ ~free /\ pending = <<>>
    BY <1>0, <2>1 DEF WInv, SlotInv, OwnerInv, NoErrorForgotten
  <2>3. EndVer \in Int
    BY <1>0, SpecialVersions DEF Versions
  <2>4. ~Alive'
    BY <2>1, <2>3 DEF Alive
  <2> HIDE DEF EndVer
  <2> QED BY <1>0, <2>1, <2>2, <2>4 DEF WInv, VersionInv, WordInv, OwnerInv, SlotInv, NoErrorForgotten
<1>8. CASE UnlockAndDestroy(p)
  <2>1. /\ butex' = EndVer /\ first' = EndVer /\ locked' = EndVer /\ UNCHANGED <<free, ver>>
        /\ pending' = <<>> /\ pc' = [pc EXCEPT ![p] = "destroy"] /\ pc[p] = "own"
    BY <1>8 DEF UnlockAndDestroy, Goto, local
  <2>2. Alive /\ \A q \in Procs : Owner(q) => q = p
    BY <1>0, <2>1, ValidAlive DEF WInv, OwnerInv
  <2>3. (\A q \in Procs : ~Destroyer(q)) /\ ~free
    BY <1>0, <2>2 DEF WInv, SlotInv
  <2>4. EndVer \in Int
    BY <1>0, SpecialVersions DEF Versions
  <2>5. ~Alive'
    BY <2>1, <2>4 DEF Alive
  <2> HIDE DEF EndVer
  <2> QED BY <1>0, <2>1, <2>2, <2>3, <2>5 DEF WInv, VersionInv, WordInv, OwnerInv, SlotInv, NoErrorForgotten
<1>9. CASE AboutToDestroy(p)
  <2>1. /\ butex' = UnlockableVer /\ UNCHANGED <<first, locked, free, ver, pending>>
        /\ pc[p] = "own" /\ \E l \in {"own", "aboutwake"} : pc' = [pc EXCEPT ![p] = l]
    BY <1>9 DEF AboutToDestroy, Goto, local
  <2>2. Alive /\ first \in Int /\ locked \in Int
    BY <1>0, <2>1, ValidAlive DEF WInv, OwnerInv
  <2>3. butex' = locked + 2 /\ butex' # first
    BY <1>0, <2>1, <2>2, LiveVersions DEF WInv, Alive
  <2> HIDE DEF UnlockableVer
  <2>4. \A q \in Procs : (Owner(q)' <=> Owner(q)) /\ (Destroyer(q)' <=> Destroyer(q))
    BY <1>0, <2>1
  <2>5. VersionInv' /\ WordInv' /\ NoErrorForgotten'
    BY <1>0, <2>1, <2>2, <2>3 DEF WInv, VersionInv, WordInv, NoErrorForgotten, Alive
  <2> QED BY <1>0, <2>1, <2>3, <2>4, <2>5 DEF WInv, OwnerInv, SlotInv, Alive, HasVersion
<1>10. CASE Unlock(p)
  <2>1. CASE pending # <<>>
    <3>1. UNCHANGED <<first, locked, butex, free, pc, ver>> /\ pc[p] = "own"
      BY <1>10, <2>1 DEF Unlock, local
    <3>2. butex # first
      BY <1>0, <3>1 DEF WInv, OwnerInv
    <3> QED BY <1>0, <3>1, <3>2 DEF WInv, VersionInv, WordInv, OwnerInv, SlotInv, NoErrorForgotten,
                                    Alive, HasVersion
  <2>2. CASE pending = <<>>
    <3>1. /\ UNCHANGED <<first, locked, free, pending, ver>> /\ butex' = first /\ pc[p] = "own"
          /\ \E l \in {"wake", "idle"} : pc' = [pc EXCEPT ![p] = l]
      BY <1>10, <2>2 DEF Unlock, Goto, local
    <3>2. Alive /\ \A q \in Procs : Owner(q) => q = p
      BY <1>0, <3>1, ValidAlive DEF WInv, OwnerInv
    <3>3. \A q \in Procs : ~Owner(q)' /\ (Destroyer(q)' <=> Destroyer(q))
      BY <1>0, <3>1, <3>2
    <3> QED BY <1>0, <2>2, <3>1, <3>2, <3>3 DEF WInv, VersionInv, WordInv, OwnerInv, SlotInv,
                                                NoErrorForgotten, Alive
  <2> QED BY <2>1, <2>2
<1>11. CASE Contend(p)
  <2>1. /\ butex' = ContendedVer /\ UNCHANGED <<first, locked, free, ver, pending>>
        /\ pc[p] = "lock" /\ pc' = [pc EXCEPT ![p] = "wait"] /\ HasVersion(ver[p]) /\ butex # first
    BY <1>11 DEF Contend, Goto
  <2>2. Alive /\ first \in Int /\ locked \in Int
    BY <1>0, <2>1, ValidAlive
  <2>3. butex' = locked + 1 /\ butex' # first
    BY <1>0, <2>1, <2>2, LiveVersions DEF WInv, Alive
  <2> HIDE DEF ContendedVer
  <2>4. \A q \in Procs : (Owner(q)' <=> Owner(q)) /\ (Destroyer(q)' <=> Destroyer(q))
    BY <1>0, <2>1
  <2>5. VersionInv' /\ WordInv' /\ NoErrorForgotten'
    BY <1>0, <2>1, <2>2, <2>3 DEF WInv, VersionInv, WordInv, NoErrorForgotten, Alive
  <2> QED BY <1>0, <2>1, <2>3, <2>4, <2>5 DEF WInv, OwnerInv, SlotInv, Alive, HasVersion
<1>12. CASE Take(p)
  <2> DEFINE l == IF first + range[p] <= locked THEN locked ELSE first + range[p]
  <2>1. /\ first \in Nat /\ locked \in Nat /\ ver[p] \in Nat /\ Alive /\ HasVersion(ver[p])
        /\ range[p] \in 0..IdMaxRange /\ butex = first /\ IdMaxRange \in Nat
    <3>1. HasVersion(ver[p]) /\ butex = first
      BY <1>12 DEF Take
    <3> QED BY <1>0, <3>1, ValidAlive, RangeAssumption DEF FieldTypes
  <2>2. l \in Nat /\ locked <= l /\ l <= first + IdMaxRange /\ l + 2 < Modulus /\ 0 < first /\ Modulus \in Nat
    BY <1>0, <2>1, RangeAssumption DEF WInv, VersionInv
  <2>3. locked' = l /\ butex' = TakenVer(p, l) /\ UNCHANGED <<first, pending, free, ver>>
        /\ pc[p] = "lock" /\ pc' = [pc EXCEPT ![p] = "own"]
    BY <1>12 DEF Take, Goto, local
  <2> HIDE DEF l
  <2>4. TakenVer(p, l) \in {l, l + 1}
    BY <2>2 DEF TakenVer, Add
  <2>5. first < l /\ butex' # first /\ ver[p] < l /\ first <= ver[p]
    <3>1. first <= ver[p] /\ ver[p] < locked
      BY <1>0, <2>1, ValidAlive
    <3>2. first < l /\ ver[p] < l
      BY <2>1, <2>2, <3>1
    <3>3. TakenVer(p, l) # first
      BY <2>1, <2>2, <2>4, <3>2
    <3> QED BY <2>3, <3>1, <3>2, <3>3
  <2>6. VersionInv' /\ WordInv' /\ NoErrorForgotten' /\ Alive'
    BY <1>0, <2>1, <2>2, <2>3, <2>4, <2>5, RangeAssumption DEF WInv, VersionInv, WordInv, NoErrorForgotten, Alive
  <2>7. \A q \in Procs : (Owner(q)' <=> q = p) /\ (Destroyer(q)' => Destroyer(q))
    BY <1>0, <2>1, <2>3 DEF WInv, OwnerInv
  <2>8. OwnerInv'
    BY <2>3, <2>5, <2>7 DEF OwnerInv, HasVersion
  <2>9. SlotInv'
    BY <1>0, <2>1, <2>3, <2>7 DEF WInv, SlotInv
  <2> QED BY <2>6, <2>8, <2>9 DEF WInv
<1>13. ASSUME NEW v \in issued, HasVersion(v), butex = first, butex' = locked,
              pc[p] = "idle", pc' = [pc EXCEPT ![p] = "own"], ver' = [ver EXCEPT ![p] = v],
              UNCHANGED <<first, locked, pending, free>>
       PROVE  WInv'
  <2>1. Alive /\ first \in Nat /\ locked \in Nat
    BY <1>0, <1>13, ValidAlive DEF FieldTypes
  <2>2. butex' # first /\ VersionInv' /\ WordInv' /\ NoErrorForgotten'
    BY <1>0, <1>13, <2>1 DEF WInv, VersionInv, WordInv, NoErrorForgotten, Alive
  <2>3. \A q \in Procs : (Owner(q)' <=> q = p) /\ (Destroyer(q)' => Destroyer(q))
    BY <1>0, <1>13 DEF WInv, OwnerInv
  <2>4. OwnerInv'
    BY <1>0, <1>13, <2>2, <2>3 DEF OwnerInv, HasVersion
  <2>5. SlotInv'
    BY <1>0, <1>13, <2>1, <2>3 DEF WInv, SlotInv, Alive
  <2> QED BY <2>2, <2>4, <2>5 DEF WInv
<1>14. CASE TryLock(p)
  <2>1. PICK v \in issued : TryLock(p)!3!(v)
    BY <1>14 DEF TryLock
  <2>2. pc[p] = "idle" /\ UNCHANGED <<first, locked, pending, free>> /\ ver' = [ver EXCEPT ![p] = v]
    BY <1>14, <2>1 DEF TryLock
  <2>3. CASE HasVersion(v) /\ butex = first
    BY <1>13, <2>1, <2>2, <2>3 DEF Goto
  <2>4. CASE ~(HasVersion(v) /\ butex = first)
    <3>1. UNCHANGED <<butex, pc>>
      BY <2>1, <2>4
    <3> QED BY <1>0, <2>2, <3>1, QuietStep
  <2> QED BY <2>3, <2>4
<1>15. CASE Error(p)
  <2>1. PICK v \in issued : Error(p)!3!(v)
    BY <1>15 DEF Error
  <2>2. pc[p] = "idle" /\ UNCHANGED <<first, locked, free>> /\ ver' = [ver EXCEPT ![p] = v]
    BY <1>15, <2>1 DEF Error
  <2>3. CASE ~HasVersion(v)
    <3>1. UNCHANGED <<butex, pc, pending>>
      BY <2>1, <2>3
    <3> QED BY <1>0, <2>2, <3>1, QuietStep
  <2>4. CASE HasVersion(v) /\ butex = first
    <3>1. butex' = locked /\ pc' = [pc EXCEPT ![p] = "own"] /\ UNCHANGED pending
      BY <2>1, <2>4 DEF Goto
    <3> QED BY <1>13, <2>2, <2>4, <3>1
  <2>5. CASE HasVersion(v) /\ butex # first
    <3>1. UNCHANGED <<butex, pc>>
      BY <2>1, <2>5
    <3>2. \A q \in Procs : Owner(q) => ver'[q] = ver[q]
      BY <1>0, <2>2
    <3>3. NoErrorForgotten' /\ VersionInv' /\ WordInv'
      BY <1>0, <2>2, <2>5, <3>1 DEF WInv, NoErrorForgotten, VersionInv, WordInv, Alive
    <3>4. OwnerInv' /\ SlotInv'
      BY <1>0, <2>2, <3>1, <3>2 DEF WInv, OwnerInv, SlotInv, Alive, HasVersion
    <3> QED BY <3>3, <3>4 DEF WInv
  <2> QED BY <2>3, <2>4, <2>5
<1> QED BY <1>1, <1>2, <1>3, <1>4, <1>5, <1>6, <1>7, <1>8, <1>9, <1>10, <1>11, <1>12, <1>14, <1>15 DEF Progress

-----------------------------------------------------------------------------
(* The invariant. *)

\* A slot that is in the pool satisfies the invariant.
LEMMA InitInv == Init => IInv
<1> SUFFICES ASSUME Init PROVE IInv
  OBVIOUS
<1>1. FieldTypes
  <2>1. butex \in Versions /\ 0 \in Versions /\ 0 \in 0..IdMaxRange /\ "idle" \in PcValues
    BY RangeAssumption DEF Init, Versions, PcValues
  <2>2. first \in Versions /\ locked \in Versions /\ joinButex \in Versions
    BY <2>1 DEF Init
  <2>3. ncalls \in 0..MaxCalls /\ nerrors \in 0..MaxErrors /\ ncreates \in 0..MaxCreates /\ lastError \in 0..MaxErrors
    BY BoundAssumption DEF Init
  <2>4. pending \in Seq(1..MaxErrors)
    BY DEF Init
  <2> QED BY <2>1, <2>2, <2>3, <2>4 DEF Init, FieldTypes
<1>2. Queue(lockers, "asleep") /\ Queue(joiners, "joining")
  BY DEF Init, Queue
<1>3. ~Alive
  BY <1>1, RangeAssumption DEF Init, Alive, FieldTypes, Versions
<1> QED BY <1>1, <1>2, <1>3 DEF Init, IInv, TypeOK, VersionInv, WordInv, OwnerInv, SlotInv, NoErrorForgotten,
                                Owner, Destroyer

\* Every function of id.cpp keeps the invariant.
LEMMA StepInv == IInv /\ [Next]_vars => IInv'
<1> SUFFICES ASSUME IInv, [Next]_vars PROVE IInv'
  OBVIOUS
<1>1. ASSUME NEW p \in Procs,
             \/ Create(p) \/ Cancel(p) \/ Lock(p) \/ TryLock(p) \/ Error(p) \/ Join(p)
             \/ AboutToDestroy(p) \/ Interrupt(p) \/ Progress(p)
      PROVE  IInv'
  <2>1. FieldTypes'
    BY <1>1, FieldTypesStep DEF IInv, TypeOK
  <2>2. Queue(lockers, "asleep")' /\ Queue(joiners, "joining")'
    BY <1>1, QueuesStep DEF IInv
  <2>3. WInv'
    BY <1>1, <2>1, WordStep
  <2> QED BY <2>1, <2>2, <2>3 DEF IInv, WInv, TypeOK
<1>2. CASE UNCHANGED vars
  <2>1. /\ UNCHANGED <<first, locked, butex, joinButex, pending, free, lockers, joiners, pc>>
        /\ UNCHANGED <<ver, range, contended, expected, issued, used, ncalls, nerrors, ncreates, lastError>>
    BY <1>2 DEF vars, word, queues, local, counters
  <2>2. TypeOK'
    <3>1. FieldTypes'
      <4>1. FieldTypes
        BY DEF IInv, TypeOK
      <4> QED BY <2>1, <4>1 DEF FieldTypes
    <3>2. Queue(lockers, "asleep")'
      <4>1. Queue(lockers, "asleep")
        BY DEF IInv, TypeOK
      <4> QED BY <2>1, <4>1 DEF Queue
    <3>3. Queue(joiners, "joining")'
      <4>1. Queue(joiners, "joining")
        BY DEF IInv, TypeOK
      <4> QED BY <2>1, <4>1 DEF Queue
    <3> QED BY <3>1, <3>2, <3>3 DEF TypeOK
  <2>3. WInv'
    BY <2>1, QuietStep DEF IInv, WInv, Owner, Destroyer
  <2> QED BY <2>2, <2>3 DEF IInv, WInv
<1> QED BY <1>1, <1>2 DEF Next

\* The inductive invariant: versions, lock word, holder, slot and pending errors
\* of a bthread_id stay consistent.
THEOREM Inductive == Spec => []IInv
BY InitInv, StepInv, PTL DEF Spec

-----------------------------------------------------------------------------
(* Theorems. *)

\* Every variable keeps its type, and the two butex queues hold exactly the
\* sleeping threads, each of them once.
THEOREM TypeCorrect == Spec => []TypeOK
<1>1. IInv => TypeOK
  BY DEF IInv
<1> QED BY <1>1, Inductive, PTL

\* A bthread_id is locked exactly when one thread holds it, and the version that
\* thread passes to unlock or unlock_and_destroy is valid.
THEOREM MutualExclusion == Spec => []LockHeldByOne
<1>1. IInv => LockHeldByOne
  <2> SUFFICES ASSUME IInv PROVE LockHeldByOne
    OBVIOUS
  <2>1. \A p \in Procs : p \in Owners <=> Owner(p)
    BY DEF Owners, Owner
  <2>2. Cardinality(Owners) <= 1
    <3>1. CASE Owners = {}
      BY <3>1, FS_EmptySet
    <3>2. CASE Owners # {}
      <4>1. PICK p \in Owners : TRUE
        BY <3>2
      <4>2. Owners = {p}
        BY <2>1, <4>1 DEF IInv, OwnerInv, Owners
      <4> QED BY <4>2, FS_Singleton
    <3> QED BY <3>1, <3>2
  <2>3. (butex # first <=> Owners # {}) /\ \A p \in Owners : HasVersion(ver[p])
    BY <2>1 DEF IInv, OwnerInv, Owners
  <2> QED BY <2>2, <2>3 DEF LockHeldByOne
<1> QED BY <1>1, Inductive, PTL

\* No error accepted by bthread_id_error is left behind when the id is unlocked.
THEOREM ErrorsHandled == Spec => []NoErrorForgotten
<1>1. IInv => NoErrorForgotten
  BY DEF IInv
<1> QED BY <1>1, Inductive, PTL

\* The versions of a live id never wrap, for any modulus that leaves room for
\* one id of the largest range.
THEOREM VersionsDoNotWrap == Spec => []VersionsOrdered
<1>1. IInv => VersionsOrdered
  <2> SUFFICES ASSUME IInv, Alive PROVE VersionsOrdered
    BY DEF VersionsOrdered
  <2>1. ContendedVer = locked + 1 /\ UnlockableVer = locked + 2
    BY LiveVersions DEF IInv, TypeOK
  <2>2. locked \in Int
    BY RangeAssumption DEF IInv, TypeOK, FieldTypes, Versions
  <2> HIDE DEF ContendedVer, UnlockableVer
  <2> QED BY <2>1, <2>2 DEF IInv, VersionInv, VersionsOrdered, Alive
<1> QED BY <1>1, Inductive, PTL
=============================================================================
