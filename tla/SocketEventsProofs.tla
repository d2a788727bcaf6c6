------------------------- MODULE SocketEventsProofs -------------------------
(***************************************************************************)
(* A socket is read by one bthread at a time and no input is forgotten,    *)
(* for any number of dispatchers and bthreads.                             *)
(***************************************************************************)
EXTENDS SocketEvents, TLAPS

\* The reader has counted at least one event and never more than there were.
ProgressInv ==
  \A r \in Readers : Reading(r) => progress[r] >= 1 /\ progress[r] <= nevent

\* A reader that leaves without giving _nevent back leaves a socket that is to
\* be reset.
LeftInv == nevent = 0 \/ failed \/ over \/ \E r \in Readers : Reading(r)

\* Between WaitAndReset and the revival nobody has a reference.
ResetInv ==
  /\ fd = "reset" => failed /\ nevent = 0 /\ ~over /\ ~Referenced
  /\ over => failed \/ fd \in {"stored", "unregistered", "open"}
  /\ unread => fd \in {"stored", "open"}
  /\ ready => fd = "open"

IInv == TypeOK /\ OneReader /\ ProgressInv /\ LeftInv /\ ResetInv /\ InputNoticed

-----------------------------------------------------------------------------
\* A socket that was never connected has no input and no reader.
LEMMA InitIInv == Init => IInv
<1> SUFFICES ASSUME Init PROVE IInv
  OBVIOUS
<1>1. TypeOK
  BY DEF Init, TypeOK, PROGRESS_INIT
<1>2. OneReader /\ ProgressInv /\ LeftInv
  BY DEF Init, OneReader, ProgressInv, LeftInv, Reading
<1>3. ResetInv /\ InputNoticed
  BY DEF Init, ResetInv, InputNoticed
<1> QED BY <1>1, <1>2, <1>3 DEF IInv

\* Steps of the connection preserve the invariant.
LEMMA ConnectionStep == ASSUME IInv, Connection PROVE IInv'
<1> USE DEF IInv, TypeOK, OneReader, ProgressInv, LeftInv, ResetInv, InputNoticed, Reading, kernel
<1>1. CASE Connect
  BY <1>1 DEF Connect
<1>2. CASE NotConnected
  BY <1>2 DEF NotConnected
<1>3. CASE StoreFd
  BY <1>3 DEF StoreFd
<1>4. CASE AddConsumer
  <2>1. CASE fd' = "open"
    <3>1. /\ ready' = unread /\ unread' = unread
          /\ UNCHANGED <<failed, over, nevent, dpc, rpc, progress>>
      BY <1>4, <2>1 DEF AddConsumer
    <3>2. TypeOK' /\ OneReader' /\ ProgressInv' /\ LeftInv'
      BY <2>1, <3>1
    <3>3. ResetInv'
      BY <2>1, <3>1
    <3>4. InputNoticed'
      BY <3>1
    <3> QED BY <3>2, <3>3, <3>4
  <2>2. CASE fd' # "open"
    <3>1. /\ fd = "stored" /\ fd' = "unregistered" /\ unread' = FALSE
          /\ UNCHANGED <<ready, failed, over, nevent, dpc, rpc, progress>>
      BY <1>4, <2>2 DEF AddConsumer
    <3>2. TypeOK' /\ OneReader' /\ ProgressInv' /\ LeftInv'
      BY <3>1
    <3>3. ResetInv' /\ InputNoticed'
      BY <3>1
    <3> QED BY <3>2, <3>3
  <2> QED BY <2>1, <2>2
<1>5. CASE Arrive
  BY <1>5 DEF Arrive
<1>6. CASE SetFailed
  BY <1>6 DEF SetFailed, Referenced
<1>7. CASE WaitAndReset
  BY <1>7 DEF WaitAndReset, Referenced
<1>8. CASE Revive
  BY <1>8 DEF Revive, Referenced
<1> QED BY <1>1, <1>2, <1>3, <1>4, <1>5, <1>6, <1>7, <1>8 DEF Connection

\* Steps of a dispatcher preserve the invariant.
LEMMA DispatchStep == ASSUME IInv, NEW d \in Dispatchers, Dispatch(d) PROVE IInv'
<1> USE DEF IInv, TypeOK, OneReader, ProgressInv, LeftInv, ResetInv, InputNoticed, Reading, kernel,
            Goto
<1>1. CASE EpollWait(d)
  BY <1>1 DEF EpollWait, Referenced
<1>2. CASE EventAddress(d)
  BY <1>2 DEF EventAddress, Referenced
<1>3. CASE EventCheckFd(d)
  BY <1>3 DEF EventCheckFd, Referenced
<1>4. CASE EventCount(d)
  <2>1. CASE nevent = 0
    BY <1>4, <2>1 DEF EventCount, Referenced, PROGRESS_INIT
  <2>2. CASE nevent # 0
    BY <1>4, <2>2 DEF EventCount, Referenced
  <2> QED BY <2>1, <2>2
<1> QED BY <1>1, <1>2, <1>3, <1>4 DEF Dispatch

\* Steps of the reader preserve the invariant.
LEMMA ReadStep == ASSUME IInv, NEW r \in Readers, Read(r) PROVE IInv'
<1> USE DEF IInv, TypeOK, OneReader, ProgressInv, LeftInv, ResetInv, InputNoticed, Reading, kernel
<1>0. Reading(r)
  BY DEF Read, ReadSome, ReadAgain, ReadFails, ReadEof, MoreReadEvents
<1>1. CASE ReadSome(r)
  BY <1>1 DEF ReadSome, Referenced
<1>2. CASE ReadAgain(r)
  BY <1>2 DEF ReadAgain, Referenced
<1>3. CASE ReadFails(r)
  <2>1. CASE unread' = unread
    BY <1>3, <2>1 DEF ReadFails, Referenced
  <2>2. CASE unread' = FALSE
    BY <1>3, <2>2 DEF ReadFails, Referenced
  <2> QED BY <1>3, <2>1, <2>2 DEF ReadFails
<1>4. CASE ReadEof(r)
  BY <1>4 DEF ReadEof, Referenced
<1>5. CASE MoreReadEvents(r)
  <2>1. CASE nevent = progress[r]
    BY <1>5, <2>1 DEF MoreReadEvents, Referenced
  <2>2. CASE nevent # progress[r]
    BY <1>5, <2>2 DEF MoreReadEvents, Referenced
  <2> QED BY <2>1, <2>2
<1> QED BY <1>1, <1>2, <1>3, <1>4, <1>5 DEF Read

\* The invariant holds always.
LEMMA Invariance == Spec => []IInv
<1>1. IInv /\ UNCHANGED vars => IInv'
  BY DEF vars, IInv, TypeOK, OneReader, ProgressInv, LeftInv, ResetInv, InputNoticed, Reading,
         Referenced
<1>2. IInv /\ [Next]_vars => IInv'
  BY <1>1, ConnectionStep, DispatchStep, ReadStep DEF Next
<1> QED BY InitIInv, <1>2, PTL DEF Spec

\* At most one bthread reads a socket, whatever events arrive, the ones of a
\* previous fd included.
THEOREM ReadByOne == Spec => []OneReader
<1>1. IInv => OneReader
  BY DEF IInv
<1> QED BY <1>1, Invariance, PTL

\* An edge-triggered event is never lost: input on a healthy connection is
\* read, or somebody is on the way to read it.
THEOREM NoInputForgotten == Spec => []InputNoticed
<1>1. IInv => InputNoticed
  BY DEF IInv
<1> QED BY <1>1, Invariance, PTL
=============================================================================
