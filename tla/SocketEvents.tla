---------------------------- MODULE SocketEvents ----------------------------
(***************************************************************************)
(* Input of one socket: edge-triggered events of its fd, fetched by the    *)
(* event dispatchers, and the bthread that reads until EAGAIN.  _nevent    *)
(* gives one bthread the right to read and tells it, when it is about to   *)
(* leave, whether more events came.  The socket may fail at any time, be   *)
(* reset once nobody has a reference to it, be revived and connected       *)
(* again, with events of its previous fd still on their way.               *)
(*                                                                         *)
(* The references are those of VersionedRef: Address fails on a failed     *)
(* socket, and WaitAndReset waits for dispatchers and readers to leave.    *)
(***************************************************************************)
EXTENDS Integers

CONSTANTS Dispatchers,  \* threads that run EventDispatcher::Run
          Readers       \* bthreads that can be started for OnEdge

VARIABLES failed,       \* Failed()
          fd,           \* _fd: open, or why it is not
          unread,       \* the kernel has input on the fd that was not read
          ready,        \* epoll has an event of the fd to report
          over,         \* the reader has met the end of the input
          nevent,       \* _nevent
          dpc,          \* where each dispatcher is
          rpc,          \* where each reader is in OnNewMessages
          progress      \* each reader's progress

kernel == <<unread, ready>>
vars == <<failed, fd, unread, ready, over, nevent, dpc, rpc, progress>>

PROGRESS_INIT == 1

Init ==
  /\ failed = FALSE
  /\ fd = "none"
  /\ unread = FALSE
  /\ ready = FALSE
  /\ over = FALSE
  /\ nevent = 0
  /\ dpc = [d \in Dispatchers |-> "wait"]
  /\ rpc = [r \in Readers |-> "idle"]
  /\ progress = [r \in Readers |-> PROGRESS_INIT]

Goto(d, l) == dpc' = [dpc EXCEPT ![d] = l]

(***************************************************************************)
(* The fd.                                                                 *)
(***************************************************************************)
\* A connecting thread has a reference until its fd is registered or given up.
Connect ==
  /\ fd = "none"
  /\ ~failed
  /\ fd' = "connecting"
  /\ UNCHANGED <<failed, kernel, over, nevent, dpc, rpc, progress>>

\* AfterAppConnected with an error.
NotConnected ==
  /\ fd \in {"connecting", "unregistered"}
  /\ failed' = TRUE
  /\ fd' = "none"
  /\ UNCHANGED <<kernel, over, nevent, dpc, rpc, progress>>

\* ResetFileDescriptor stores the fd before it is registered.
StoreFd ==
  /\ fd = "connecting"
  /\ fd' = "stored"
  /\ UNCHANGED <<failed, kernel, over, nevent, dpc, rpc, progress>>

\* Registering an fd reports the input that is already there.
AddConsumer ==
  /\ fd = "stored"
  /\ \/ /\ fd' = "open"
        /\ ready' = unread
        /\ UNCHANGED unread
     \/ /\ fd' = "unregistered"
        /\ unread' = FALSE
        /\ UNCHANGED ready
  /\ UNCHANGED <<failed, over, nevent, dpc, rpc, progress>>

\* Input arrives; epoll may also report an fd again without new input.
Arrive ==
  /\ fd \in {"stored", "open"}
  /\ unread' \in {unread, TRUE}
  /\ ready' = (fd = "open")
  /\ UNCHANGED <<failed, fd, over, nevent, dpc, rpc, progress>>

SetFailed ==
  /\ failed' = TRUE
  /\ UNCHANGED <<fd, kernel, over, nevent, dpc, rpc, progress>>

Referenced ==
  \/ fd \in {"connecting", "stored", "unregistered"}
  \/ \E d \in Dispatchers : dpc[d] \in {"addressed", "held"}
  \/ \E r \in Readers : rpc[r] # "idle"

\* One step: Address fails from beginning to end, so that nobody looks.
WaitAndReset ==
  /\ failed
  /\ ~Referenced
  /\ fd' = "reset"
  /\ unread' = FALSE
  /\ ready' = FALSE
  /\ over' = FALSE
  /\ nevent' = 0
  /\ UNCHANGED <<failed, dpc, rpc, progress>>

\* The health check succeeded.
Revive ==
  /\ fd = "reset"
  /\ failed' = FALSE
  /\ fd' = "none"
  /\ UNCHANGED <<kernel, over, nevent, dpc, rpc, progress>>

(***************************************************************************)
(* A dispatcher d.                                                         *)
(***************************************************************************)
EpollWait(d) ==
  /\ dpc[d] = "wait"
  /\ ready
  /\ ready' = FALSE
  /\ Goto(d, "event")
  /\ UNCHANGED <<failed, fd, unread, over, nevent, rpc, progress>>

\* OnInputEvent: Address, then the check for a stale event.
EventAddress(d) ==
  /\ dpc[d] = "event"
  /\ Goto(d, IF failed THEN "wait" ELSE "addressed")
  /\ UNCHANGED <<failed, fd, kernel, over, nevent, rpc, progress>>

EventCheckFd(d) ==
  /\ dpc[d] = "addressed"
  /\ Goto(d, IF fd \in {"stored", "open"} THEN "held" ELSE "wait")
  /\ UNCHANGED <<failed, fd, kernel, over, nevent, rpc, progress>>

\* The dispatcher that counts the first event starts the reader and hands its
\* reference over.
EventCount(d) ==
  /\ dpc[d] = "held"
  /\ Goto(d, "wait")
  /\ nevent' = nevent + 1
  /\ IF nevent = 0
       THEN \E r \in Readers : /\ rpc[r] = "idle"
                               /\ rpc' = [rpc EXCEPT ![r] = "read"]
                               /\ progress' = [progress EXCEPT ![r] = PROGRESS_INIT]
       ELSE UNCHANGED <<rpc, progress>>
  /\ UNCHANGED <<failed, fd, kernel, over>>

(***************************************************************************)
(* A reader r.                                                             *)
(***************************************************************************)
\* It reads some or all of the input and cuts the messages.
ReadSome(r) ==
  /\ rpc[r] = "read"
  /\ unread
  /\ unread' \in BOOLEAN
  /\ UNCHANGED <<failed, fd, ready, over, nevent, dpc, rpc, progress>>

ReadAgain(r) ==
  /\ rpc[r] = "read"
  /\ ~unread
  /\ rpc' = [rpc EXCEPT ![r] = "more"]
  /\ UNCHANGED <<failed, fd, kernel, over, nevent, dpc, progress>>

\* An error of the fd, or a message that cannot be parsed or authenticated.
ReadFails(r) ==
  /\ rpc[r] = "read"
  /\ failed' = TRUE
  /\ unread' \in {unread, FALSE}
  /\ rpc' = [rpc EXCEPT ![r] = "idle"]
  /\ UNCHANGED <<fd, ready, over, nevent, dpc, progress>>

\* SetEOF fails the socket once the messages in process are done.
ReadEof(r) ==
  /\ rpc[r] = "read"
  /\ unread
  /\ over' = TRUE
  /\ failed' \in {failed, TRUE}
  /\ rpc' = [rpc EXCEPT ![r] = "idle"]
  /\ UNCHANGED <<fd, kernel, nevent, dpc, progress>>

MoreReadEvents(r) ==
  /\ rpc[r] = "more"
  /\ IF nevent = progress[r]
       THEN /\ nevent' = 0
            /\ rpc' = [rpc EXCEPT ![r] = "idle"]
            /\ UNCHANGED progress
       ELSE /\ progress' = [progress EXCEPT ![r] = nevent]
            /\ rpc' = [rpc EXCEPT ![r] = "read"]
            /\ UNCHANGED nevent
  /\ UNCHANGED <<failed, fd, kernel, over, dpc>>

Connection ==
  \/ Connect \/ NotConnected \/ StoreFd \/ AddConsumer \/ Arrive
  \/ SetFailed \/ WaitAndReset \/ Revive

Dispatch(d) == EpollWait(d) \/ EventAddress(d) \/ EventCheckFd(d) \/ EventCount(d)

Read(r) == ReadSome(r) \/ ReadAgain(r) \/ ReadFails(r) \/ ReadEof(r) \/ MoreReadEvents(r)

Next ==
  \/ Connection
  \/ \E d \in Dispatchers : Dispatch(d)
  \/ \E r \in Readers : Read(r)

Spec == Init /\ [][Next]_vars

-----------------------------------------------------------------------------
TypeOK ==
  /\ failed \in BOOLEAN
  /\ fd \in {"none", "connecting", "stored", "unregistered", "open", "reset"}
  /\ unread \in BOOLEAN
  /\ ready \in BOOLEAN
  /\ over \in BOOLEAN
  /\ nevent \in Nat
  /\ dpc \in [Dispatchers -> {"wait", "event", "addressed", "held"}]
  /\ rpc \in [Readers -> {"idle", "read", "more"}]
  /\ progress \in [Readers -> Nat]

Reading(r) == rpc[r] # "idle"

\* A socket is never read by two bthreads, whose bytes would be mixed: neither
\* by two events, nor by one of the previous fd after a revival.
OneReader == \A r, s \in Readers : Reading(r) /\ Reading(s) => r = s

\* Input is never forgotten: while there is some on a healthy connection, an
\* event is on its way, or the reader will look again before it leaves.
InputNoticed ==
  fd = "open" /\ unread /\ ~failed /\ ~over =>
    \/ ready
    \/ \E d \in Dispatchers : dpc[d] # "wait"
    \/ \E r \in Readers : rpc[r] = "read" \/ (rpc[r] = "more" /\ nevent # progress[r])
=============================================================================
