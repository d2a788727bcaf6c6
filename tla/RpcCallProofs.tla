---------------------------- MODULE RpcCallProofs ----------------------------
(***************************************************************************)
(* Proofs for RpcCall, for any number of retries and connections: every    *)
(* try completes once, a pooled connection is clean, and an ignored event  *)
(* leaves no error code behind.                                            *)
(***************************************************************************)
EXTENDS RpcCall, TLAPS

States == {"new", "busy", "pool", "failed"}
Events == [id : Versions, err : ErrorCodes, responded : BOOLEAN]

\* Errors that are queued at the id: none of them is a response.
Queued == {e \in Events : e.err # "0" /\ ~e.responded}

HolderType ==
  /\ holder.step \in {"none", "issue", "returned", "ending", "done"}
  /\ holder.step \in {"returned", "ending"} => holder.e \in Events
  /\ holder.step = "returned" => holder.saved \in ErrorCodes

Types ==
  /\ opt \in Options
  /\ id \in {"free", "locked", "unlockable", "gone"} /\ pending \in Seq(Queued) /\ HolderType
  /\ used \in BOOLEAN /\ error \in ErrorCodes /\ nretry \in Tries
  /\ unfinished = None \/ unfinished \in 0..(nretry - 1)
  /\ conn \in [Tries -> Conns \cup {None}] /\ completed \in [Tries -> Nat]
  /\ timers \subseteq {"backup", "deadline"}
  /\ state \in [Conns -> States] /\ watch \in [Conns -> SUBSET Tries]
  /\ net \subseteq [k : Tries, c : Conns]

\* Who holds the id, and what there is before CallMethod.
IdInv ==
  /\ holder.step = "none" <=> id \in {"free", "gone"}
  /\ id = "free" => pending = <<>>
  /\ ~used => /\ id = "free" /\ error \in {"0", "ECANCELED"} /\ nretry = 0 /\ unfinished = None
              /\ net = {} /\ timers = {} /\ \A c \in Conns : state[c] = "new"
              /\ \A k \in Tries : conn[k] = None

\* The tries that are not completed: the current one and the one before the backup request.
Open(k) == (k = nretry \/ k = unfinished) /\ holder.step # "done" /\ id # "gone"

TryInv ==
  /\ \A k \in Tries : completed[k] = IF k > nretry \/ Open(k) THEN 0 ELSE 1
  /\ \A k \in Tries : conn[k] # None => Open(k)
  /\ holder.step = "issue" => conn[nretry] = None
  /\ holder.step = "done" \/ id = "gone" => unfinished = None

\* Connections of one try only belong to at most one try.
ConnInv ==
  /\ opt.type # "pooled" => \A c \in Conns : state[c] # "pool"
  /\ opt.type # "single" =>
       /\ \A c \in Conns : state[c] = "busy" => \E k \in Tries : conn[k] = c
       /\ \A k \in Tries : conn[k] # None => state[conn[k]] \in {"busy", "failed"}
       /\ \A j, k \in Tries : conn[j] # None /\ conn[j] = conn[k] => j = k

\* A request that may still be answered belongs to the connection of its try; when the try is
\* completed without the answer that connection has failed.
NetInv == \A m \in net :
  /\ m.k <= nretry /\ (holder.step = "issue" => m.k # nretry)
  /\ state[m.c] # "new"
  /\ opt.type # "single" => conn[m.k] = m.c \/ state[m.c] = "failed"
  /\ conn[m.k] # None => conn[m.k] = m.c
  /\ holder.step \in {"returned", "ending"} /\ holder.e.responded => m.k + 1 # holder.e.id

\* The error code is the one of the event at hand, and goes back to 0 when it is ignored.
ErrorInv ==
  /\ used /\ id = "free" => error = "0"
  /\ holder.step = "returned" =>
       /\ error = holder.e.err
       /\ holder.saved = "0" \/ (holder.e.id = Current /\ error # "EBACKUPREQUEST")
  /\ holder.step \in {"returned", "ending"} =>
       /\ error = "0" => holder.e.responded
       /\ holder.e.responded => holder.e.id # 0
  /\ holder.step = "ending" /\ Earlier => unfinished # None /\ holder.e.id = unfinished + 1

\* The timer of the backup request runs once: it is set, or in the queue, or at hand, and then
\* there is no unfinished call yet.
IsBackup(e) == e.err = "EBACKUPREQUEST"
NoBackup(q) == \A i \in 1..Len(q) : ~IsBackup(q[i])
OneBackup(q) == \A i, j \in 1..Len(q) : IsBackup(q[i]) /\ IsBackup(q[j]) => i = j
AtHand == holder.step = "returned" /\ IsBackup(holder.e)

BackupInv ==
  /\ "backup" \in timers \/ AtHand \/ ~NoBackup(pending) => unfinished = None
  /\ "backup" \in timers => ~AtHand
  /\ "backup" \in timers \/ AtHand => NoBackup(pending)
  /\ OneBackup(pending)

Core == Types /\ IdInv /\ TryInv /\ ConnInv /\ NetInv /\ ErrorInv
IInv == Core /\ BackupInv

-----------------------------------------------------------------------------
(* The operators *)

\* The errors of failing connections can be queued: none is a response.
LEMMA ErrorsType ==
  ASSUME Types, NEW cs \in SUBSET Conns, NEW es \in Errors(cs)
  PROVE  es \in Seq(Queued) /\ NoBackup(es)
<1> DEFINE S == {Event(k + 1, "EFAILEDSOCKET", FALSE) : k \in Watched(cs)}
<1>1. Watched(cs) \subseteq Tries
  BY DEF Types, Watched
<1>2. S \subseteq Queued
  <2> SUFFICES ASSUME NEW k \in Tries PROVE Event(k + 1, "EFAILEDSOCKET", FALSE) \in Queued
    BY <1>1, Zenon
  <2>1. k + 1 \in Versions
    BY RetryAssumption DEF Versions, Tries
  <2> QED BY <2>1 DEF Event, Queued, Events, ErrorCodes
<1>3. \A e \in S : ~IsBackup(e)
  <2>1. \A k : Event(k + 1, "EFAILEDSOCKET", FALSE).err = "EFAILEDSOCKET"
    BY DEF Event
  <2> QED BY <2>1 DEF S, IsBackup
<1>4. es \in Orders(S)
  BY DEF Errors
<1> HIDE DEF S
<1>5. PICK n \in 0..(MaxRetry + 1) : es \in [1..n -> S]
  BY <1>4 DEF Orders, Bijection, Injection
<1>6. es \in Seq(S)
  BY <1>5, RetryAssumption
<1> QED BY <1>2, <1>3, <1>6 DEF NoBackup

\* The connections failed by completed tries are connections.
LEMMA FailingType ==
  ASSUME Types, NEW os, \A o \in os : o.k \in Tries, NEW es \in Errors(Failing(os))
  PROVE  es \in Seq(Queued) /\ NoBackup(es)
<1>1. Failing(os) \in SUBSET Conns
  BY DEF Failing, Types
<1> QED BY <1>1, ErrorsType

\* The head of a queue that is not empty is an error, and the rest is a queue.
LEMMA QueueStep ==
  ASSUME NEW q \in Seq(Queued), q # <<>>
  PROVE  Head(q) \in Queued /\ Tail(q) \in Seq(Queued)
OBVIOUS

\* One error is a queue.
LEMMA QueueOne ==
  ASSUME NEW e \in Queued
  PROVE  <<e>> \in Seq(Queued)
OBVIOUS

\* The id is left free with the error code err, or the next error is at hand and goes back to err.
Released(err) ==
  \/ id' = "free" /\ holder' = Idle /\ pending' = <<>> /\ error' = err
  \/ /\ id' = id /\ pending' \in Seq(Queued)
     /\ \E e \in Queued : holder' = Returned(e, err) /\ error' = e.err

\* What bthread_id_unlock does.
LEMMA UnlockStep ==
  ASSUME Types, NEW err, NEW more \in Seq(Queued), Unlock(err, more)
  PROVE  Released(err)
<1> DEFINE q == pending \o more
<1>1. q \in Seq(Queued)
  BY DEF Types
<1>2. CASE q = <<>>
  BY <1>2 DEF Unlock, Released
<1>3. CASE q # <<>>
  <2>1. Head(q) \in Queued /\ Tail(q) \in Seq(Queued)
    BY <1>1, <1>3, QueueStep
  <2> QED BY <1>3, <2>1, Zenon DEF Unlock, Released
<1> QED BY <1>2, <1>3

\* An error changes the queue of a held id, leaves a mark before CallMethod, or takes the id.
Signalled ==
  \/ UNCHANGED <<idVars, error>>
  \/ id # "free" /\ pending' \in Seq(Queued) /\ UNCHANGED <<id, holder, error>>
  \/ id = "free" /\ ~used /\ UNCHANGED idVars /\ \E e \in Queued : error' = e.err
  \/ /\ id = "free" /\ used /\ id' = "locked" /\ pending' \in Seq(Queued)
     /\ \E e \in Queued : holder' = Returned(e, error) /\ error' = e.err

\* What bthread_id_error2 does.
LEMMA SignalStep ==
  ASSUME Types, NEW es \in Seq(Queued), Signal(es)
  PROVE  Signalled
<1>1. CASE id = "gone" \/ es = <<>>
  BY <1>1 DEF Signal, Signalled
<1>2. CASE id # "free" /\ id # "gone" /\ es # <<>>
  <2>1. pending' = pending \o es /\ UNCHANGED <<id, holder, error>>
    BY <1>2 DEF Signal
  <2> QED BY <1>2, <2>1 DEF Signalled, Types
<1>3. CASE id = "free" /\ es # <<>>
  <2>1. Head(es) \in Queued /\ Tail(es) \in Seq(Queued)
    BY <1>3, QueueStep
  <2>2. error' = Head(es).err
    BY <1>3 DEF Signal
  <2>3. CASE used
    BY <1>3, <2>1, <2>2, <2>3 DEF Signal, Signalled
  <2>4. CASE ~used
    BY <1>3, <2>1, <2>2, <2>4 DEF Signal, Signalled
  <2> QED BY <2>3, <2>4
<1> QED BY <1>1, <1>2, <1>3

-----------------------------------------------------------------------------
(* The steps *)

\* The initial states satisfy the invariant.
LEMMA InitInv == Init => Core
<1> SUFFICES ASSUME Init PROVE Core
  OBVIOUS
<1>1. Types
  <2>1. pending \in Seq(Queued) /\ HolderType
    BY DEF Init, HolderType, Idle
  <2>2. nretry \in Tries /\ unfinished = None
    BY RetryAssumption DEF Init, Tries
  <2> QED BY <2>1, <2>2 DEF Init, Types, ErrorCodes, States
<1>2. IdInv /\ ErrorInv /\ NetInv
  BY DEF Init, IdInv, ErrorInv, NetInv, Idle
<1>3. TryInv
  BY RetryAssumption, ConnsAssumption DEF Init, TryInv, Open, Idle, Tries
<1>4. ConnInv
  BY DEF Init, ConnInv
<1> QED BY <1>1, <1>2, <1>3, <1>4 DEF Core

\* An error from outside: a timer, a cancellation or a broken connection.
LEMMA SignalKeeps ==
  ASSUME Core, Signalled, UNCHANGED <<opt, used, nretry, unfinished, conn, completed, watch, net>>,
         timers' \subseteq timers, state' \in [Conns -> States],
         \A c \in Conns : state'[c] = state[c] \/ (state'[c] = "failed" /\ state[c] # "new"),
         ~used => error' \in {"0", "ECANCELED"} /\ state' = state
  PROVE  Core'
<1>1. Types'
  BY DEF Core, Types, Signalled, HolderType, Queued, Events, idVars, Returned
<1>2. IdInv'
  BY DEF Core, IdInv, Signalled, idVars, Returned
<1>3. TryInv'
  BY DEF Core, TryInv, IdInv, Signalled, idVars, Returned, Open
<1>4. ConnInv'
  BY DEF Core, ConnInv, Types
<1>5. NetInv'
  BY DEF Core, NetInv, IdInv, Types, Signalled, idVars, Returned, Queued
<1>6. ErrorInv'
  BY DEF Core, ErrorInv, IdInv, Types, Signalled, idVars, Returned, Queued, Current, Earlier, E
<1> QED BY <1>1, <1>2, <1>3, <1>4, <1>5, <1>6 DEF Core

\* The deadline and the timer of the backup request.
LEMMA TimerFireInv ==
  ASSUME Core, NEW x \in timers, TimerFire(x)
  PROVE  Core'
<1> DEFINE err == IF x = "backup" THEN "EBACKUPREQUEST" ELSE "ERPCTIMEDOUT"
<1>1. Event(0, err, FALSE) \in Queued
  BY RetryAssumption DEF Event, Queued, Events, Versions, ErrorCodes
<1> DEFINE es == <<Event(0, err, FALSE)>>
<1>2. Signalled
  <2>1. es \in Seq(Queued)
    BY <1>1, QueueOne, Zenon
  <2>2. Signal(es)
    BY DEF TimerFire
  <2> HIDE DEF es
  <2> QED BY <2>1, <2>2, SignalStep DEF Core
<1>3. used
  BY DEF Core, IdInv
<1> QED BY <1>2, <1>3, SignalKeeps DEF TimerFire, Core, Types, netVars

\* StartCancel, before the RPC or during it.
LEMMA StartCancelInv ==
  ASSUME Core, StartCancel
  PROVE  Core'
<1>1. Event(0, "ECANCELED", FALSE) \in Queued
  BY RetryAssumption DEF Event, Queued, Events, Versions, ErrorCodes
<1> DEFINE es == <<Event(0, "ECANCELED", FALSE)>>
<1>2. Signalled
  <2>1. es \in Seq(Queued)
    BY <1>1, QueueOne, Zenon
  <2>2. Signal(es)
    BY DEF StartCancel
  <2> HIDE DEF es
  <2> QED BY <2>1, <2>2, SignalStep DEF Core
<1>3. ~used => error' \in {"0", "ECANCELED"}
  BY DEF StartCancel, Signal, Core, IdInv, Event
<1> QED BY <1>2, <1>3, SignalKeeps DEF StartCancel, Core, Types, netVars

\* A broken connection.
LEMMA BreakInv ==
  ASSUME Core, NEW c \in Conns, Break(c)
  PROVE  Core'
<1>1. Signalled
  <2>1. PICK es \in Errors({c}) : Signal(es)
    BY DEF Break
  <2>2. es \in Seq(Queued)
    BY ErrorsType DEF Core
  <2> QED BY <2>1, <2>2, SignalStep DEF Core
<1>2. used
  BY DEF Break, Core, IdInv
<1>3. state' \in [Conns -> States]
  BY DEF Break, Core, Types, States
<1>4. \A d \in Conns : state'[d] = state[d] \/ (state'[d] = "failed" /\ state[d] # "new")
  BY DEF Break, Core, Types
<1> QED BY <1>1, <1>2, <1>3, <1>4, SignalKeeps DEF Break

\* What is known of the id after it was unlocked with no error code.
Unlocked ==
  /\ id' \in {"free", "locked", "unlockable"} /\ pending' \in Seq(Queued) /\ HolderType'
  /\ error' \in ErrorCodes /\ holder'.step \in {"none", "returned"}
  /\ holder'.step = "returned" => ~holder'.e.responded

\* An unlocked id is free without an error code, or has the next error at hand.
LEMMA ReleasedInv ==
  ASSUME Types, IdInv, holder.step # "none", used', Released("0")
  PROVE  Unlocked /\ IdInv' /\ ErrorInv'
<1>1. id \in {"locked", "unlockable"}
  BY DEF Types, IdInv
<1>2. CASE id' = "free" /\ holder' = Idle /\ pending' = <<>> /\ error' = "0"
  <2>1. Unlocked
    BY <1>2 DEF Unlocked, HolderType, Idle, ErrorCodes
  <2>2. IdInv' /\ ErrorInv'
    BY <1>2 DEF IdInv, ErrorInv, Idle
  <2> QED BY <2>1, <2>2
<1>3. ASSUME id' = id, pending' \in Seq(Queued),
             NEW e \in Queued, holder' = Returned(e, "0"), error' = e.err
      PROVE  Unlocked /\ IdInv' /\ ErrorInv'
  <2>1. Unlocked
    BY <1>1, <1>3 DEF Unlocked, HolderType, Returned, Queued, Events, ErrorCodes
  <2>2. IdInv'
    BY <1>1, <1>3 DEF IdInv, Returned
  <2>3. ErrorInv'
    BY <1>1, <1>3 DEF ErrorInv, Returned, Queued
  <2> QED BY <2>1, <2>2, <2>3
<1> QED BY <1>2, <1>3 DEF Released

\* The holder goes on with an error of its own while sending, before it was sent.
LEMMA IssueNoSocketInv ==
  ASSUME Core, IssueNoSocket
  PROVE  Core'
<1> DEFINE e == Event(Current, "EHOSTDOWN", FALSE)
<1>1. e \in Events /\ e.err = "EHOSTDOWN" /\ ~e.responded /\ e.id = Current
  BY RetryAssumption DEF Core, Types, Event, Events, Versions, ErrorCodes, Current, Tries
<1> HIDE DEF e
<1>2. /\ holder.step = "issue" /\ holder' = Returned(e, "EHOSTDOWN") /\ error' = "EHOSTDOWN"
      /\ pending' = pending \o <<>> /\ UNCHANGED <<id, opt, used, nretry, unfinished, conn>>
      /\ UNCHANGED <<completed, timers, state, watch, net>>
  BY DEF IssueNoSocket, Hold, e, netVars
<1>3. pending' \in Seq(Queued)
  BY <1>2 DEF Core, Types
<1>4. Types'
  BY <1>1, <1>2, <1>3 DEF Core, Types, HolderType, Returned, ErrorCodes
<1>5. IdInv' /\ TryInv' /\ ConnInv'
  BY <1>2 DEF Core, IdInv, TryInv, ConnInv, Open, Returned
<1>6. NetInv' /\ ErrorInv'
  BY <1>1, <1>2 DEF Core, IdInv, NetInv, ErrorInv, Returned, Current
<1> QED BY <1>4, <1>5, <1>6 DEF Core

\* Connections a try can get are connections, and one of a kind that is not shared is not in
\* use and has no request on it that may be answered.
LEMMA AvailableFree ==
  ASSUME Core, NEW c \in Available
  PROVE  /\ c \in Conns
         /\ opt.type # "single" =>
              /\ state[c] \in {"new", "pool"}
              /\ \A k \in Tries : conn[k] # c
              /\ \A m \in net : m.c # c
<1>1. Main \in Conns
  BY ConnsAssumption DEF Main
<1>2. Fresh \subseteq New
  BY DEF Fresh
<1>3. c \in Conns /\ (opt.type # "single" => state[c] \in {"new", "pool"})
  BY <1>1, <1>2, OptionsAssumption DEF Available, New, Core, Types
<1>4. ASSUME opt.type # "single", NEW k \in Tries, conn[k] = c
      PROVE  FALSE
  BY <1>3, <1>4, ConnsAssumption DEF Core, ConnInv
<1>5. ASSUME opt.type # "single", NEW m \in net, m.c = c
      PROVE  FALSE
  BY <1>3, <1>4, <1>5 DEF Core, NetInv, Types
<1> QED BY <1>3, <1>4, <1>5

\* A try that takes a connection.
LEMMA AcquireInv ==
  ASSUME Core, holder.step = "issue", NEW c \in Available, Acquire(c)
  PROVE  /\ conn' = [conn EXCEPT ![nretry] = c] /\ state' = [state EXCEPT ![c] = "busy"]
         /\ conn' \in [Tries -> Conns \cup {None}] /\ state' \in [Conns -> States]
         /\ opt' = opt => ConnInv'
<1>1. c \in Conns /\ nretry \in Tries /\ conn[nretry] = None /\ c # None
  BY AvailableFree, ConnsAssumption DEF Core, Types, TryInv
<1>2. conn' \in [Tries -> Conns \cup {None}] /\ state' \in [Conns -> States]
  BY <1>1 DEF Acquire, Core, Types, States
<1>3. ASSUME opt' = opt PROVE ConnInv'
  <2>1. opt.type # "pooled" => \A d \in Conns : state'[d] # "pool"
    BY <1>1 DEF Acquire, Core, ConnInv, Types
  <2>2. ASSUME opt.type # "single", NEW d \in Conns, state'[d] = "busy"
        PROVE  \E k \in Tries : conn'[k] = d
    <3>1. CASE d = c
      BY <1>1, <3>1 DEF Acquire, Core, Types
    <3>2. CASE d # c
      <4>1. PICK k \in Tries : conn[k] = d
        BY <2>2, <3>2 DEF Acquire, Core, ConnInv, Types
      <4>2. k # nretry
        BY <1>1, <4>1, ConnsAssumption
      <4> QED BY <1>1, <4>1, <4>2 DEF Acquire, Core, Types
    <3> QED BY <3>1, <3>2
  <2>3. ASSUME opt.type # "single", NEW k \in Tries, conn'[k] # None
        PROVE  state'[conn'[k]] \in {"busy", "failed"}
    BY <1>1, <2>3 DEF Acquire, Core, ConnInv, Types
  <2>4. ASSUME opt.type # "single", NEW j \in Tries, NEW k \in Tries,
               conn'[j] # None, conn'[j] = conn'[k]
        PROVE  j = k
    BY <1>1, <2>4, AvailableFree DEF Acquire, Core, ConnInv, Types
  <2> QED BY <1>3, <2>1, <2>2, <2>3, <2>4 DEF ConnInv
<1> QED BY <1>2, <1>3 DEF Acquire

\* A request that cannot be packed.
LEMMA IssueNotPackedInv ==
  ASSUME Core, IssueNotPacked
  PROVE  Core'
<1> DEFINE e == Event(Current, "EREQUEST", FALSE)
<1>1. e \in Events /\ e.err = "EREQUEST" /\ ~e.responded /\ e.id = Current
  BY RetryAssumption DEF Core, Types, Event, Events, Versions, ErrorCodes, Current, Tries
<1> HIDE DEF e
<1>2. /\ holder.step = "issue" /\ holder' = Returned(e, "EREQUEST") /\ error' = "EREQUEST"
      /\ pending' = pending \o <<>> /\ UNCHANGED <<id, opt, used, nretry, unfinished>>
      /\ UNCHANGED <<completed, timers, watch, net>>
  BY DEF IssueNotPacked, Hold, e
<1>3. PICK c \in Available : Acquire(c)
  BY DEF IssueNotPacked
<1>4. /\ conn' = [conn EXCEPT ![nretry] = c] /\ state' = [state EXCEPT ![c] = "busy"]
      /\ conn' \in [Tries -> Conns \cup {None}] /\ state' \in [Conns -> States] /\ ConnInv'
  BY <1>2, <1>3, AcquireInv
<1>5. pending' \in Seq(Queued)
  BY <1>2 DEF Core, Types
<1>6. Types'
  BY <1>1, <1>2, <1>4, <1>5 DEF Core, Types, HolderType, Returned, ErrorCodes
<1>7. IdInv' /\ TryInv'
  BY <1>2, <1>4 DEF Core, Types, IdInv, TryInv, Open, Returned
<1>8. NetInv'
  BY <1>1, <1>2, <1>4, AvailableFree DEF Core, Types, NetInv, Returned
<1>9. ErrorInv'
  BY <1>1, <1>2 DEF Core, IdInv, ErrorInv, Returned, Current
<1> QED BY <1>4, <1>6, <1>7, <1>8, <1>9 DEF Core

\* The request is written, or the write fails and the failure is queued.
LEMMA IssueWriteInv ==
  ASSUME Core, IssueWrite
  PROVE  Core'
<1>1. PICK c \in Available :
        /\ Acquire(c)
        /\ \/ /\ net' = net \cup {[k |-> nretry, c |-> c]}
              /\ watch' = [watch EXCEPT ![c] = @ \cup {nretry}]
              /\ Unlock("0", <<>>)
           \/ /\ Unlock("0", <<Event(Current, "EFAILEDSOCKET", FALSE)>>)
              /\ UNCHANGED <<net, watch>>
  BY DEF IssueWrite
<1>2. /\ holder.step = "issue" /\ UNCHANGED <<opt, used, nretry, unfinished, completed, timers>>
  BY DEF IssueWrite
<1>3. /\ conn' = [conn EXCEPT ![nretry] = c] /\ state' = [state EXCEPT ![c] = "busy"]
      /\ conn' \in [Tries -> Conns \cup {None}] /\ state' \in [Conns -> States] /\ ConnInv'
  BY <1>1, <1>2, AcquireInv
<1>4. c \in Conns /\ nretry \in Tries /\ used
  BY <1>2, AvailableFree DEF Core, Types, IdInv
<1>5. Released("0")
  <2>1. <<>> \in Seq(Queued)
    OBVIOUS
  <2>2. Event(Current, "EFAILEDSOCKET", FALSE) \in Queued
    BY <1>4, RetryAssumption DEF Event, Queued, Events, Versions, Tries, ErrorCodes, Current
  <2>3. <<Event(Current, "EFAILEDSOCKET", FALSE)>> \in Seq(Queued)
    BY <2>2, QueueOne, Zenon
  <2> QED BY <1>1, <2>1, <2>3, UnlockStep, Zenon DEF Core
<1>6. Unlocked /\ IdInv' /\ ErrorInv'
  BY <1>2, <1>4, <1>5, ReleasedInv DEF Core
<1>7. net' \subseteq net \cup {[k |-> nretry, c |-> c]}
  BY <1>1
<1>8. Types'
  <2>1. watch' \in [Conns -> SUBSET Tries]
    BY <1>1, <1>4 DEF Core, Types
  <2>2. net' \subseteq [k : Tries, c : Conns]
    BY <1>4, <1>7 DEF Core, Types
  <2> QED BY <1>2, <1>3, <1>6, <2>1, <2>2, Zenon DEF Core, Types, Unlocked
<1>9. TryInv'
  BY <1>2, <1>3, <1>4, <1>6 DEF Core, IdInv, Types, TryInv, Open, Unlocked
<1>10. NetInv'
  <2> SUFFICES ASSUME NEW m \in net'
               PROVE  /\ m.k <= nretry
                      /\ state'[m.c] # "new"
                      /\ opt.type # "single" => conn'[m.k] = m.c \/ state'[m.c] = "failed"
                      /\ conn'[m.k] # None => conn'[m.k] = m.c
    BY <1>2, <1>6 DEF NetInv, Unlocked
  <2>1. CASE m \in net
    BY <1>2, <1>3, <1>4, <2>1, AvailableFree DEF Core, Types, NetInv
  <2>2. CASE m = [k |-> nretry, c |-> c]
    BY <1>3, <1>4, <2>2, RetryAssumption DEF Core, Types, Tries
  <2> QED BY <1>7, <2>1, <2>2
<1> QED BY <1>3, <1>6, <1>8, <1>9, <1>10 DEF Core

\* What the completion of the tries of os leaves behind.
Completing(os) ==
  /\ conn' \in [Tries -> Conns \cup {None}] /\ state' \in [Conns -> States]
  /\ completed' \in [Tries -> Nat] /\ ConnInv'
  /\ \A k \in Tries : /\ conn'[k] = IF \E o \in os : o.k = k THEN None ELSE conn[k]
                      /\ completed'[k] = IF \E o \in os : o.k = k THEN 1 ELSE completed[k]
  /\ \A m \in net : /\ state'[m.c] # "new"
                    /\ opt.type # "single" => conn'[m.k] = m.c \/ state'[m.c] = "failed"

\* What the completed tries leave behind: each of them open before, and one whose connection
\* goes back to the pool answered.
LEMMA OnCompleteInv ==
  ASSUME Core, NEW os, OnComplete(os), opt' = opt,
         \A o \in os : o.k \in Tries /\ Open(o.k),
         \A o, p \in os : o.k = p.k => o = p,
         \A o \in os : Reusable(o) => \A m \in net : m.k # o.k
  PROVE  Completing(os)
<1> DEFINE ks == {o.k : o \in os}
<1>1. \A k \in Tries : k \in ks <=> \E o \in os : o.k = k
  OBVIOUS
<1>2. \A k \in Tries : k \in ks => completed[k] = 0
  BY DEF Core, TryInv
<1>3. conn' = [k \in Tries |-> IF k \in ks THEN None ELSE conn[k]]
  BY DEF OnComplete
<1>4. completed' = [k \in Tries |-> IF k \in ks THEN 1 ELSE completed[k]]
  BY <1>2 DEF OnComplete
<1>5. conn' \in [Tries -> Conns \cup {None}] /\ completed' \in [Tries -> Nat]
  BY <1>3, <1>4 DEF Core, Types
<1>6. opt.type # "single" => \A c \in Conns : \A o, p \in os : conn[o.k] = c
      /\ conn[p.k] = c => o = p
  BY ConnsAssumption DEF Core, ConnInv
<1>7. ASSUME NEW c \in Conns, NEW o \in os, opt.type # "single", state[c] # "failed", conn[o.k] = c
      PROVE  state'[c] = After(o)
  <2>1. o = CHOOSE p \in os : conn[p.k] = c
    BY <1>6, <1>7
  <2> QED BY <1>7, <2>1 DEF OnComplete
<1>8. ASSUME NEW c \in Conns,
             opt.type = "single" \/ state[c] = "failed" \/ \A o \in os : conn[o.k] # c
      PROVE  state'[c] = state[c]
  BY <1>8 DEF OnComplete
<1>9. \A o \in os : After(o) \in {"pool", "failed"} /\ (After(o) = "pool" => Reusable(o))
  BY DEF After
<1>10. state' \in [Conns -> States]
  <2>1. \A c \in Conns : state'[c] \in States
    BY <1>7, <1>8, <1>9 DEF Core, Types, States
  <2> QED BY <2>1 DEF OnComplete
<1>11. ConnInv'
  <2>1. ASSUME opt.type # "pooled", NEW c \in Conns
        PROVE  state'[c] # "pool"
    BY <1>7, <1>8, <1>9, <2>1 DEF Reusable, Core, ConnInv
  <2>2. ASSUME opt.type # "single", NEW c \in Conns, state'[c] = "busy"
        PROVE  \E k \in Tries : conn'[k] = c
    <3>1. (\A o \in os : conn[o.k] # c) /\ state[c] = "busy"
      BY <1>7, <1>8, <1>9, <2>2
    <3>2. PICK k \in Tries : conn[k] = c
      BY <2>2, <3>1 DEF Core, ConnInv
    <3> QED BY <1>1, <1>3, <3>1, <3>2
  <2>3. ASSUME opt.type # "single", NEW k \in Tries, conn'[k] # None
        PROVE  state'[conn'[k]] \in {"busy", "failed"}
    <3>1. conn'[k] = conn[k] /\ k \notin ks /\ conn[k] \in Conns
      BY <1>3, <2>3 DEF Core, Types
    <3>2. \A o \in os : conn[o.k] # conn[k]
      BY <1>1, <2>3, <3>1 DEF Core, ConnInv
    <3> QED BY <1>8, <2>3, <3>1, <3>2 DEF Core, ConnInv
  <2>4. ASSUME opt.type # "single", NEW j \in Tries, NEW k \in Tries,
               conn'[j] # None, conn'[j] = conn'[k]
        PROVE  j = k
    BY <1>3, <2>4 DEF Core, ConnInv
  <2> QED BY <2>1, <2>2, <2>3, <2>4 DEF ConnInv
<1>12. ASSUME NEW m \in net
       PROVE  /\ state'[m.c] # "new"
              /\ opt.type # "single" => conn'[m.k] = m.c \/ state'[m.c] = "failed"
  <2>1. m.k \in Tries /\ m.c \in Conns /\ state[m.c] # "new"
    BY DEF Core, Types, NetInv
  <2>2. state'[m.c] # "new"
    BY <1>7, <1>8, <1>9, <2>1
  <2>3. ASSUME opt.type # "single", m.k \in ks, state[m.c] # "failed"
        PROVE  state'[m.c] = "failed"
    <3>1. PICK o \in os : o.k = m.k
      BY <2>3
    <3>2. conn[o.k] = m.c
      BY <2>3, <3>1 DEF Core, NetInv
    <3>3. ~Reusable(o)
      BY <3>1
    <3> QED BY <1>7, <1>9, <2>1, <2>3, <3>2, <3>3
  <2>4. ASSUME opt.type # "single", m.k \notin ks, state[m.c] # "failed"
        PROVE  conn'[m.k] = m.c
    BY <1>3, <2>1, <2>4 DEF Core, NetInv
  <2>5. ASSUME opt.type # "single", state[m.c] = "failed"
        PROVE  state'[m.c] = "failed"
    BY <1>8, <2>1, <2>5
  <2> QED BY <2>2, <2>3, <2>4, <2>5
<1> QED BY <1>1, <1>3, <1>4, <1>5, <1>10, <1>11, <1>12 DEF Completing

\* An event at hand that is not ignored and ends the RPC or a try: the connection that may go
\* back to the pool was answered.
LEMMA AnsweredClean ==
  ASSUME Core, holder.step \in {"returned", "ending"}, NEW k \in Tries,
         E.responded \/ error = "0" => E.id = k + 1,
         Reusable(Outcome(k, error, E.responded))
  PROVE  \A m \in net : m.k # k
<1>1. E.responded
  BY DEF Core, ErrorInv, E, Reusable, Outcome
<1> QED BY <1>1 DEF Core, NetInv, E, Types, Tries

\* An event of an earlier try; the failure of the call sent before the backup request.
LEMMA IgnoreInv ==
  ASSUME Core, Ignore
  PROVE  Core'
<1> DEFINE os == IF OfUnfinished THEN {Outcome(unfinished, error, E.responded)} ELSE {}
<1>1. PICK es \in Errors(Failing(os)) :
      /\ holder.step = "returned" /\ Earlier /\ OnComplete(os)
      /\ unfinished' = IF OfUnfinished THEN None ELSE unfinished
      /\ Unlock(holder.saved, es)
      /\ UNCHANGED <<opt, used, nretry, timers, watch, net>>
  BY DEF Ignore, Returning, Ignored, StillUnfinished
<1>2. OfUnfinished => unfinished \in Tries /\ unfinished # nretry /\ E.id = unfinished + 1
  BY RetryAssumption, SMTT(20) DEF OfUnfinished, Core, Types, Tries
<1>3. \A o \in os : o.k = unfinished /\ o.k \in Tries /\ Open(o.k)
  BY <1>1, <1>2 DEF Outcome, Open, Core, IdInv, Types
<1>4. \A o, p \in os : o.k = p.k => o = p
  OBVIOUS
<1>5. \A o \in os : Reusable(o) => \A m \in net : m.k # o.k
  BY <1>1, <1>2, AnsweredClean, Zenon DEF Outcome
<1>6. \A k \in Tries : (\E o \in os : o.k = k) <=> OfUnfinished /\ k = unfinished
  <2>1. CASE OfUnfinished
    <3>1. Outcome(unfinished, error, E.responded).k = unfinished
      BY DEF Outcome
    <3> QED BY <2>1, <3>1
  <2>2. CASE ~OfUnfinished
    BY <2>2
  <2> QED BY <2>1, <2>2
<1>7. es \in Seq(Queued)
  BY <1>3, FailingType DEF Core
<1> HIDE DEF os
<1>8. /\ conn' \in [Tries -> Conns \cup {None}] /\ state' \in [Conns -> States]
      /\ completed' \in [Tries -> Nat] /\ ConnInv'
      /\ \A k \in Tries : /\ conn'[k] = IF \E o \in os : o.k = k THEN None ELSE conn[k]
                          /\ completed'[k] = IF \E o \in os : o.k = k THEN 1 ELSE completed[k]
      /\ \A m \in net : /\ state'[m.c] # "new"
                        /\ opt.type # "single" => conn'[m.k] = m.c \/ state'[m.c] = "failed"
  <2>1. Completing(os)
    BY <1>1, <1>3, <1>4, <1>5, OnCompleteInv
  <2> QED BY <2>1 DEF Completing
<1>9. holder.saved = "0" /\ used
  BY <1>1 DEF Core, ErrorInv, IdInv, Earlier, E
<1>10. Released("0")
  BY <1>1, <1>7, <1>9, UnlockStep DEF Core
<1>11. Unlocked /\ IdInv' /\ ErrorInv'
  BY <1>1, <1>9, <1>10, ReleasedInv DEF Core
<1>12. Types'
  BY <1>1, <1>8, <1>11 DEF Core, Types, Unlocked
<1>13. TryInv'
  <2>1. \A k \in Tries : Open(k) <=> k = nretry \/ k = unfinished
    BY <1>1 DEF Open, Core, IdInv
  <2>2. \A k \in Tries : Open(k)' <=> Open(k) /\ ~(OfUnfinished /\ k = unfinished)
    BY <1>1, <1>2, <1>11, <2>1, ConnsAssumption DEF Open, Unlocked, Tries
  <2>3. holder'.step \notin {"issue", "done"} /\ id' # "gone"
    BY <1>11 DEF Unlocked
  <2>4. \A k \in Tries : completed[k] = IF k > nretry \/ Open(k) THEN 0 ELSE 1
    BY DEF Core, TryInv
  <2>5. \A k \in Tries : OfUnfinished /\ k = unfinished => ~(k > nretry)
    BY <1>2, RetryAssumption, SMTT(20) DEF Core, Types, OfUnfinished, Tries
  <2>6. \A k \in Tries : completed'[k] = IF k > nretry \/ Open(k)' THEN 0 ELSE 1
    BY <1>6, <1>8, <2>2, <2>4, <2>5
  <2>7. \A k \in Tries : conn'[k] # None => Open(k)'
    BY <1>6, <1>8, <2>2 DEF Core, TryInv
  <2> QED BY <1>1, <2>3, <2>6, <2>7 DEF TryInv
<1>14. NetInv'
  <2> SUFFICES ASSUME NEW m \in net PROVE conn'[m.k] # None => conn'[m.k] = m.c
    BY <1>1, <1>8, <1>11 DEF Core, NetInv, Unlocked
  <2>1. m.k \in Tries
    BY DEF Core, Types
  <2> QED BY <1>8, <2>1 DEF Core, NetInv
<1> QED BY <1>8, <1>11, <1>12, <1>13, <1>14 DEF Core

\* A backup request that is not sent.
LEMMA NoBackupInv ==
  ASSUME Core, holder.step = "returned", error = "EBACKUPREQUEST", Unlock(holder.saved, <<>>),
         timers' \subseteq {"backup", "deadline"},
         UNCHANGED <<opt, used, nretry, unfinished, conn, completed, netVars>>
  PROVE  Core'
<1>1. holder.saved = "0" /\ used
  BY DEF Core, ErrorInv, IdInv
<1>2. <<>> \in Seq(Queued)
  OBVIOUS
<1>3. Released("0")
  BY <1>1, <1>2, UnlockStep, Zenon DEF Core
<1>4. Unlocked /\ IdInv' /\ ErrorInv'
  BY <1>1, <1>3, ReleasedInv DEF Core
<1>5. Types'
  BY <1>4 DEF Core, Types, Unlocked, netVars
<1>6. TryInv'
  BY <1>4 DEF Core, IdInv, Types, TryInv, Open, Unlocked
<1>7. ConnInv' /\ NetInv'
  BY <1>4, Zenon DEF Core, ConnInv, NetInv, Unlocked, netVars
<1> QED BY <1>4, <1>5, <1>6, <1>7 DEF Core

\* The current call becomes the unfinished one.
LEMMA BackupStepInv ==
  ASSUME IInv, Backup
  PROVE  Core'
<1>1. /\ holder.step = "returned" /\ error = "EBACKUPREQUEST" /\ nretry < MaxRetry /\ ~Ignored
      /\ holder' = [step |-> "issue"] /\ error' = "0" /\ pending' = pending \o <<>> /\ id' = id
      /\ unfinished' = nretry /\ nretry' = nretry + 1
      /\ UNCHANGED <<opt, used, conn, completed, state, watch, net>>
  BY RetryAssumption DEF Backup, Returning, LimitReached, Hold, netVars, IInv, Core, Types, Tries
<1>2. timers' \subseteq {"backup", "deadline"}
  BY DEF Backup, Rearm, IInv, Core, Types
<1>3. nretry' \in Tries /\ nretry \in Tries /\ unfinished' \in 0..(nretry' - 1)
  BY <1>1, RetryAssumption DEF IInv, Core, Types, Tries
<1>4. pending' \in Seq(Queued)
  BY <1>1 DEF IInv, Core, Types
<1>5. Types'
  BY <1>1, <1>2, <1>3, <1>4, SMTT(20) DEF IInv, Core, Types, HolderType, ErrorCodes
<1>6. IdInv' /\ ConnInv' /\ ErrorInv'
  BY <1>1 DEF IInv, Core, IdInv, ConnInv, ErrorInv
<1>7. NetInv'
  BY <1>1, RetryAssumption DEF IInv, Core, NetInv, Types, Tries
<1>8. unfinished = None
  BY <1>1 DEF IInv, Core, ErrorInv, BackupInv, AtHand, IsBackup
<1>9. TryInv'
  <2>1. \A k \in Tries : Open(k) <=> k = nretry
    BY <1>1, <1>8, ConnsAssumption DEF Open, IInv, Core, IdInv, Tries
  <2>2. \A k \in Tries : Open(k)' <=> k = nretry \/ k = nretry + 1
    BY <1>1 DEF Open, IInv, Core, IdInv
  <2>3. \A k \in Tries : completed[k] = IF k > nretry \/ Open(k) THEN 0 ELSE 1
    BY DEF IInv, Core, TryInv
  <2>4. \A k \in Tries : completed'[k] = IF k > nretry' \/ Open(k)' THEN 0 ELSE 1
    BY <1>1, <1>3, <2>1, <2>2, <2>3 DEF Tries
  <2>5. \A k \in Tries : conn'[k] # None => k = nretry
    BY <1>1, <2>1 DEF IInv, Core, TryInv
  <2>6. conn'[nretry'] = None
    BY <1>1, <1>3, <2>5 DEF Tries
  <2>7. holder'.step # "done" /\ id' # "gone"
    BY <1>1 DEF IInv, Core, IdInv
  <2> QED BY <1>1, <2>2, <2>4, <2>5, <2>6, <2>7 DEF TryInv
<1> QED BY <1>5, <1>6, <1>7, <1>9 DEF Core

\* The current try is completed and another one starts.
LEMMA RetryInv ==
  ASSUME Core, Retry
  PROVE  Core'
<1> DEFINE o == Outcome(nretry, error, E.responded)
<1>1. PICK es \in Errors(Failing({o})) :
      /\ holder.step = "returned" /\ ~Ignored /\ error # "0" /\ nretry < MaxRetry /\ OnComplete({o})
      /\ holder' = [step |-> "issue"] /\ error' = "0"
      /\ pending' = pending \o es /\ id' = id /\ nretry' = nretry + 1
      /\ UNCHANGED <<opt, used, unfinished, timers, watch, net>>
  <2>1. nretry < MaxRetry
    BY RetryAssumption DEF Retry, LimitReached, Core, Types, Tries
  <2> QED BY <2>1 DEF Retry, Returning, DoRetry, Hold
<1>2. nretry \in Tries /\ nretry' \in Tries /\ o.k = nretry /\ Open(nretry)
  BY <1>1, RetryAssumption DEF Core, Types, Tries, Outcome, Open, IdInv
<1>3. E.responded => E.id = nretry + 1
  BY <1>1 DEF Ignored, Earlier, Core, ErrorInv, E, Current
<1>4. Reusable(o) => \A m \in net : m.k # o.k
  BY <1>1, <1>2, <1>3, AnsweredClean
<1> HIDE DEF o
<1>5. es \in Seq(Queued)
  <2>1. Types /\ \A p \in {o} : p.k \in Tries
    BY <1>2 DEF Core
  <2> QED BY <2>1, FailingType
<1>6. /\ conn' \in [Tries -> Conns \cup {None}] /\ state' \in [Conns -> States]
      /\ completed' \in [Tries -> Nat] /\ ConnInv'
      /\ \A k \in Tries : /\ conn'[k] = IF k = nretry THEN None ELSE conn[k]
                          /\ completed'[k] = IF k = nretry THEN 1 ELSE completed[k]
      /\ \A m \in net : /\ state'[m.c] # "new"
                        /\ opt.type # "single" => conn'[m.k] = m.c \/ state'[m.c] = "failed"
  <2> DEFINE os == {o}
  <2>1. \A p \in os : p.k \in Tries /\ Open(p.k)
    BY <1>2
  <2>2. \A p, q \in os : p.k = q.k => p = q
    OBVIOUS
  <2>3. \A p \in os : Reusable(p) => \A m \in net : m.k # p.k
    BY <1>4, Zenon
  <2>4. \A k \in Tries : (\E p \in os : p.k = k) <=> k = nretry
    BY <1>2
  <2>5. OnComplete(os) /\ opt' = opt
    BY <1>1
  <2> HIDE DEF os
  <2>6. Completing(os)
    BY <2>1, <2>2, <2>3, <2>5, OnCompleteInv, Zenon
  <2> QED BY <2>4, <2>6 DEF Completing
<1>7. Types'
  <2>1. pending' \in Seq(Queued)
    BY <1>1, <1>5 DEF Core, Types
  <2>2. unfinished = None \/ unfinished \in 0..(nretry' - 1)
    BY <1>1, <1>2, SMTT(20) DEF Core, Types, Tries
  <2> QED BY <1>1, <1>2, <1>6, <2>1, <2>2, Zenon DEF Core, Types, HolderType, ErrorCodes
<1>8. IdInv' /\ ErrorInv'
  BY <1>1 DEF Core, IdInv, ErrorInv
<1>9. TryInv'
  <2>1. holder'.step # "done" /\ id' # "gone" /\ id # "gone"
    BY <1>1 DEF Core, IdInv
  <2>2. \A k \in Tries : Open(k) <=> k = nretry \/ k = unfinished
    BY <1>1, <2>1 DEF Open
  <2>3. \A k \in Tries : Open(k)' <=> k = nretry + 1 \/ k = unfinished
    BY <1>1, <2>1 DEF Open
  <2>4. \A k \in Tries : completed[k] = IF k > nretry \/ Open(k) THEN 0 ELSE 1
    BY DEF Core, TryInv
  <2>5. unfinished # nretry /\ \A k \in Tries : k = unfinished => k < nretry
    BY <1>2, ConnsAssumption DEF Core, Types, Tries
  <2>6. \A k \in Tries : completed'[k] = IF k > nretry' \/ Open(k)' THEN 0 ELSE 1
    <3> SUFFICES ASSUME NEW k \in Tries
                 PROVE  completed'[k] = IF k > nretry' \/ Open(k)' THEN 0 ELSE 1
      OBVIOUS
    <3>1. completed'[k] = (IF k = nretry THEN 1 ELSE completed[k]) /\ nretry' = nretry + 1
      BY <1>1, <1>6
    <3>2. k \in Int /\ nretry \in Int
      BY <1>2, RetryAssumption DEF Tries
    <3>3. k > nretry' \/ Open(k)' <=> k > nretry \/ k = unfinished
      BY <2>3, <3>1, <3>2
    <3> QED BY <2>2, <2>4, <2>5, <3>1, <3>2, <3>3
  <2>7. \A k \in Tries : conn'[k] # None => k = unfinished
    BY <1>6, <2>2 DEF Core, TryInv
  <2>8. conn'[nretry'] = None
    BY <1>1, <1>2, <2>5, <2>7, SMTT(20) DEF Tries
  <2> QED BY <1>1, <2>1, <2>3, <2>6, <2>7, <2>8 DEF TryInv
<1>10. NetInv'
  <2> SUFFICES ASSUME NEW m \in net
               PROVE  /\ m.k <= nretry' /\ m.k # nretry'
                      /\ conn'[m.k] # None => conn'[m.k] = m.c
    BY <1>1, <1>6 DEF NetInv
  <2>1. m.k \in Tries /\ m.k <= nretry
    BY DEF Core, Types, NetInv
  <2> QED BY <1>1, <1>2, <1>6, <2>1, SMTT(20) DEF Core, NetInv, Tries
<1> QED BY <1>6, <1>7, <1>8, <1>9, <1>10 DEF Core

\* The RPC is about to end with err.
LEMMA EndingInv ==
  ASSUME Core, holder.step = "returned", ~Ignored, NEW err, Ending(err),
         err = error \/ (err = "ESTOP" /\ error # "0")
  PROVE  Core'
<1>1. /\ holder' = [step |-> "ending", e |-> E] /\ error' = err /\ id' \in {"locked", "unlockable"}
      /\ UNCHANGED <<opt, pending, used, nretry, unfinished, conn, completed, timers>>
      /\ UNCHANGED <<state, watch, net>>
  BY DEF Ending, netVars
<1>2. Types'
  BY <1>1, SMTT(20) DEF Core, Types, HolderType, E, ErrorCodes
<1>3. IdInv' /\ TryInv' /\ ConnInv'
  BY <1>1 DEF Core, IdInv, TryInv, ConnInv, Open
<1>4. NetInv'
  BY <1>1, Zenon DEF Core, NetInv, E
<1>5. ErrorInv'
  BY <1>1, Zenon DEF Core, ErrorInv, E, Earlier, Current, Ignored, OfUnfinished
<1> QED BY <1>2, <1>3, <1>4, <1>5 DEF Core

\* The tries that are still open are completed.
LEMMA EndRPCInv ==
  ASSUME Core, EndRPC
  PROVE  Core'
<1> DEFINE a == Outcome(nretry, error, E.responded)
           b == Outcome(unfinished, UnfinishedError, FALSE)
           c == Outcome(nretry, "ECANCELED", FALSE)
           d == Outcome(unfinished, error, E.responded)
           os == IF ~Earlier THEN {a} \cup (IF unfinished = None THEN {} ELSE {b}) ELSE {c, d}
<1>1. PICK es \in Errors(Failing(os)) :
      /\ holder.step = "ending" /\ OnComplete(os) /\ holder' = [step |-> "done"] /\ error' = error
      /\ pending' = pending \o es /\ id' = id /\ unfinished' = None /\ timers' = {}
      /\ UNCHANGED <<opt, used, nretry, watch, net>>
  BY DEF EndRPC, Hold
<1>2. nretry \in Tries /\ (unfinished = None \/ (unfinished \in Tries /\ unfinished # nretry))
  BY RetryAssumption DEF Core, Types, Tries
<1>3. \A k \in Tries : Open(k) <=> k = nretry \/ k = unfinished
  BY <1>1, SMTT(20) DEF Open, Core, IdInv
<1>4. Earlier => unfinished # None /\ E.id = unfinished + 1
  BY <1>1 DEF Core, ErrorInv, E
<1>5. ~Earlier /\ E.responded => E.id = nretry + 1
  BY <1>1, Zenon DEF Earlier, Current, Core, ErrorInv, E
<1>6. a.k = nretry /\ b.k = unfinished /\ c.k = nretry /\ d.k = unfinished
  BY DEF Outcome
<1>7. ~Reusable(b) /\ ~Reusable(c)
  BY DEF Outcome, Reusable, UnfinishedError
<1>8. /\ Earlier /\ Reusable(d) => \A m \in net : m.k # unfinished
      /\ ~Earlier /\ Reusable(a) => \A m \in net : m.k # nretry
  <2>1. error = "0" => E.responded
    BY <1>1, Zenon DEF Core, ErrorInv, E
  <2>2. ASSUME Earlier, Reusable(d) PROVE \A m \in net : m.k # unfinished
    BY <1>1, <1>2, <1>4, <2>2, AnsweredClean
  <2>3. ASSUME ~Earlier, Reusable(a) PROVE \A m \in net : m.k # nretry
    BY <1>1, <1>2, <1>5, <2>1, <2>3, AnsweredClean
  <2> QED BY <2>2, <2>3
<1> HIDE DEF a, b, c, d
<1>9. \A o \in os : o.k \in Tries /\ Open(o.k)
  BY <1>2, <1>3, <1>4, <1>6
<1>10. \A o, p \in os : o.k = p.k => o = p
  BY <1>2, <1>4, <1>6
<1>11. \A o \in os : Reusable(o) => \A m \in net : m.k # o.k
  BY <1>6, <1>7, <1>8
<1>12. \A k \in Tries : (\E o \in os : o.k = k) <=> Open(k)
  <2>1. CASE Earlier
    BY <1>3, <1>6, <2>1
  <2>2. CASE ~Earlier /\ unfinished = None
    BY <1>3, <1>6, <2>2, ConnsAssumption DEF Tries
  <2>3. CASE ~Earlier /\ unfinished # None
    BY <1>3, <1>6, <2>3
  <2> QED BY <2>1, <2>2, <2>3
<1>13. es \in Seq(Queued)
  BY <1>9, FailingType, SMTT(20) DEF Core
<1> HIDE DEF os
<1>14. /\ conn' \in [Tries -> Conns \cup {None}] /\ state' \in [Conns -> States]
       /\ completed' \in [Tries -> Nat] /\ ConnInv'
       /\ \A k \in Tries : /\ conn'[k] = IF Open(k) THEN None ELSE conn[k]
                           /\ completed'[k] = IF Open(k) THEN 1 ELSE completed[k]
       /\ \A m \in net : /\ state'[m.c] # "new"
                         /\ opt.type # "single" => conn'[m.k] = m.c \/ state'[m.c] = "failed"
  <2>1. OnComplete(os) /\ opt' = opt
    BY <1>1
  <2>2. Completing(os)
    BY <1>9, <1>10, <1>11, <2>1, OnCompleteInv, Zenon
  <2> QED BY <1>12, <2>2 DEF Completing
<1>15. Types'
  <2>1. pending' \in Seq(Queued)
    BY <1>1, <1>13, SMTT(20) DEF Core, Types
  <2> QED BY <1>1, <1>14, <2>1 DEF Core, Types, HolderType
<1>16. IdInv' /\ ErrorInv'
  BY <1>1 DEF Core, IdInv, ErrorInv
<1>17. TryInv'
  <2>1. \A k \in Tries : ~Open(k)' /\ conn'[k] = None
    BY <1>1, <1>14 DEF Open, Core, TryInv
  <2>2. \A k \in Tries : completed[k] = IF k > nretry \/ Open(k) THEN 0 ELSE 1
    BY DEF Core, TryInv
  <2>3. \A k \in Tries : Open(k) => ~(k > nretry)
    BY <1>2, <1>3, RetryAssumption, ConnsAssumption DEF Core, Types, Tries
  <2>4. \A k \in Tries : completed'[k] = IF k > nretry THEN 0 ELSE 1
    BY <1>14, <2>2, <2>3
  <2> QED BY <1>1, <2>1, <2>4 DEF TryInv
<1>18. NetInv'
  <2> SUFFICES ASSUME NEW m \in net PROVE conn'[m.k] # None => conn'[m.k] = m.c
    BY <1>1, <1>14, Zenon DEF Core, NetInv
  <2>1. m.k \in Tries
    BY DEF Core, Types
  <2> QED BY <1>14, <2>1 DEF Core, NetInv
<1> QED BY <1>14, <1>15, <1>16, <1>17, <1>18, Zenon DEF Core

\* The id is destroyed.
LEMMA DestroyInv ==
  ASSUME Core, Destroy
  PROVE  Core'
<1>1. /\ holder.step = "done" /\ holder' = Idle /\ id' = "gone" /\ pending' = <<>>
      /\ UNCHANGED <<opt, used, error, nretry, unfinished, conn, completed, timers, state, watch, net>>
  BY DEF Destroy, cntlVars, netVars
<1>2. Types'
  BY <1>1 DEF Core, Types, HolderType, Idle
<1>3. IdInv' /\ ErrorInv' /\ NetInv'
  BY <1>1, Zenon DEF Core, IdInv, ErrorInv, NetInv, Idle
<1>4. TryInv' /\ ConnInv'
  BY <1>1 DEF Core, TryInv, ConnInv, Open, Idle
<1> QED BY <1>2, <1>3, <1>4 DEF Core

\* CallMethod, which fails before it sends or goes on to send.
LEMMA CallMethodInv ==
  ASSUME Core, CallMethod
  PROVE  Core'
<1>1. /\ ~used /\ id = "free" /\ used' = TRUE /\ id' = "locked" /\ net = {} /\ nretry \in Tries
      /\ UNCHANGED <<pending, nretry, unfinished, conn, completed, opt, state, watch, net>>
  BY DEF CallMethod, netVars, Core, IdInv, Types
<1>2. timers' \subseteq {"backup", "deadline"}
  BY Zenon DEF CallMethod, Core, Types
<1>3. ASSUME NEW err \in ErrorCodes \ {"0", "EBACKUPREQUEST"}, error' = err,
             holder' = Returned(Event(Current, err, FALSE), err)
      PROVE  Core'
  <2> DEFINE e == Event(Current, err, FALSE)
  <2>1. e \in Events /\ e.err = err /\ ~e.responded /\ e.id = Current
    BY <1>1, RetryAssumption DEF Event, Events, Versions, Tries, Current
  <2> HIDE DEF e
  <2>2. holder'.step = "returned" /\ holder'.e = e /\ holder'.saved = err
    BY <1>3 DEF Returned, e
  <2>3. HolderType' /\ error' \in ErrorCodes
    BY <1>3, <2>1, <2>2, Zenon DEF HolderType
  <2>4. Types'
    BY <1>1, <1>2, <2>3 DEF Core, Types
  <2>5. IdInv' /\ TryInv' /\ ConnInv' /\ NetInv'
    BY <1>1, <2>2, Zenon DEF Core, IdInv, TryInv, ConnInv, NetInv, Open
  <2>6. Current' = Current
    BY <1>1 DEF Current
  <2>7. ErrorInv'
    BY <1>1, <1>3, <2>1, <2>2, <2>6, Zenon DEF ErrorInv
  <2> QED BY <2>4, <2>5, <2>7 DEF Core
<1>4. ASSUME error = "0", error' = error, holder' = [step |-> "issue"]
      PROVE  Core'
  <2>1. Types'
    BY <1>1, <1>2, <1>4, Zenon DEF Core, Types, HolderType
  <2>2. IdInv' /\ ConnInv' /\ NetInv' /\ ErrorInv'
    BY <1>1, <1>4, Zenon DEF Core, IdInv, ConnInv, NetInv, ErrorInv
  <2>3. conn[nretry] = None
    BY <1>1 DEF Core, IdInv
  <2>4. TryInv'
    BY <1>1, <1>4, <2>3 DEF Core, IdInv, TryInv, Open
  <2> QED BY <2>1, <2>2, <2>4 DEF Core
<1>5. error # "0" => error \in ErrorCodes \ {"0", "EBACKUPREQUEST"}
  BY <1>1 DEF Core, IdInv, ErrorCodes
<1>6. {"EREQUEST", "ESTOP", "ELIMIT"} \subseteq ErrorCodes \ {"0", "EBACKUPREQUEST"}
  BY DEF ErrorCodes
<1> QED BY <1>3, <1>4, <1>5, <1>6, Zenon DEF CallMethod

\* A response.
LEMMA ResponseInv ==
  ASSUME Core, NEW m \in net, Response(m)
  PROVE  Core'
<1>1. /\ net' = net \ {m} /\ m.k \in Tries /\ m.c \in Conns /\ used
      /\ UNCHANGED <<opt, used, nretry, unfinished, conn, completed, timers, state, watch>>
  BY DEF Response, Core, Types, IdInv
<1>2. CASE UNCHANGED <<idVars, error>>
  <2>1. Types' /\ IdInv' /\ NetInv'
    BY <1>1, <1>2, Zenon DEF Core, Types, HolderType, IdInv, NetInv, idVars
  <2>2. TryInv' /\ ConnInv' /\ ErrorInv'
    BY <1>1, <1>2, Zenon DEF Core, TryInv, ConnInv, ErrorInv, Open, Earlier, E, Current, idVars
  <2> QED BY <2>1, <2>2 DEF Core
<1>3. ASSUME id = "free", Matches(m), NEW err \in {"0", "EREQUEST", "ELIMIT"}, id' = "locked",
             error' = (IF err = "0" THEN error ELSE err), pending' = pending,
             holder' = Returned(Event(m.k + 1, err, TRUE), error)
      PROVE  Core'
  <2> DEFINE e == Event(m.k + 1, err, TRUE)
  <2>1. e \in Events /\ e.err = err /\ e.responded /\ e.id = m.k + 1 /\ e.id # 0
    BY <1>1, RetryAssumption DEF Event, Events, Versions, Tries, ErrorCodes
  <2> HIDE DEF e
  <2>2. holder' = Returned(e, "0") /\ error' = err
    BY <1>1, <1>3 DEF Core, ErrorInv, e
  <2>3. holder'.step = "returned" /\ holder'.e = e /\ holder'.saved = "0"
    BY <2>2 DEF Returned
  <2>4. HolderType' /\ error' \in ErrorCodes
    BY <1>3, <2>1, <2>2, <2>3, Zenon DEF HolderType, ErrorCodes
  <2>5. Types'
    BY <1>1, <1>3, <2>4 DEF Core, Types
  <2>6. IdInv' /\ TryInv' /\ ConnInv'
    BY <1>1, <1>3, <2>3, Zenon DEF Core, IdInv, TryInv, ConnInv, Open
  <2>7. ErrorInv'
    BY <1>3, <2>1, <2>2, <2>3, Zenon DEF ErrorInv
  <2>8. NetInv'
    <3> SUFFICES ASSUME NEW n \in net, n # m PROVE n.k + 1 # e.id
      BY <1>1, <2>1, <2>3, Zenon DEF Core, NetInv
    <3>1. conn[m.k] = m.c /\ conn[m.k] # None
      BY <1>1, <1>3, ConnsAssumption DEF Matches
    <3>2. n \in [k : Tries, c : Conns] /\ m \in [k : Tries, c : Conns]
      BY DEF Core, Types
    <3>3. n.k = m.k => n.c = m.c
      BY <3>1 DEF Core, NetInv
    <3>4. n.k # m.k
      BY <3>2, <3>3
    <3> QED BY <2>1, <3>2, <3>4 DEF Tries
  <2> QED BY <2>5, <2>6, <2>7, <2>8 DEF Core
<1> QED BY <1>2, <1>3, Zenon DEF Response, idVars

-----------------------------------------------------------------------------
(* The timer of the backup request runs once *)

\* Errors other than the backup request added to a queue.
LEMMA AppendBackups ==
  ASSUME NEW q \in Seq(Queued), NEW r \in Seq(Queued), NoBackup(r)
  PROVE  /\ NoBackup(q) => NoBackup(q \o r)
         /\ OneBackup(q) => OneBackup(q \o r)
<1>1. Len(q \o r) = Len(q) + Len(r) /\ Len(q) \in Nat /\ Len(r) \in Nat
  OBVIOUS
<1>2. \A i \in 1..Len(q \o r) : IsBackup((q \o r)[i]) => i \in 1..Len(q) /\ (q \o r)[i] = q[i]
  BY <1>1 DEF NoBackup
<1> HIDE DEF IsBackup
<1>3. NoBackup(q) => NoBackup(q \o r)
  BY <1>2 DEF NoBackup
<1>4. OneBackup(q) => OneBackup(q \o r)
  BY <1>2 DEF OneBackup
<1> QED BY <1>3, <1>4

\* The head of a queue is taken.
LEMMA HeadBackups ==
  ASSUME NEW q \in Seq(Queued), q # <<>>, OneBackup(q)
  PROVE  /\ OneBackup(Tail(q))
         /\ IsBackup(Head(q)) => NoBackup(Tail(q))
         /\ NoBackup(q) => ~IsBackup(Head(q)) /\ NoBackup(Tail(q))
<1>1. Len(q) \in Nat \ {0} /\ Len(Tail(q)) = Len(q) - 1 /\ Head(q) = q[1]
  OBVIOUS
<1>2. \A i \in 1..Len(Tail(q)) : i + 1 \in 1..Len(q) /\ i + 1 # 1 /\ Tail(q)[i] = q[i + 1]
  BY <1>1
<1>3. 1 \in 1..Len(q)
  BY <1>1
<1>4. OneBackup(Tail(q))
  BY <1>1, <1>2 DEF OneBackup
<1>5. IsBackup(Head(q)) => NoBackup(Tail(q))
  BY <1>1, <1>2, <1>3 DEF OneBackup, NoBackup
<1>6. NoBackup(q) => ~IsBackup(Head(q)) /\ NoBackup(Tail(q))
  BY <1>1, <1>2, <1>3 DEF NoBackup
<1> QED BY <1>4, <1>5, <1>6

\* What may happen to the timer and to the unfinished call in a step that sets neither.
NotSet == ("backup" \in timers' => "backup" \in timers) /\ unfinished' \in {unfinished, None}

\* The id is unlocked.
LEMMA UnlockBackups ==
  ASSUME Types, BackupInv, NotSet, NEW err, NEW more \in Seq(Queued), NoBackup(more),
         Unlock(err, more)
  PROVE  BackupInv'
<1> DEFINE q == pending \o more
<1>1. q \in Seq(Queued) /\ OneBackup(q) /\ (NoBackup(pending) => NoBackup(q))
  BY AppendBackups DEF Types, BackupInv
<1>2. CASE q = <<>>
  <2>1. holder'.step = "none" /\ pending' = <<>>
    BY <1>2 DEF Unlock, Idle
  <2>2. NoBackup(pending') /\ OneBackup(pending') /\ ~AtHand'
    BY <2>1 DEF NoBackup, OneBackup, AtHand
  <2> QED BY <2>2 DEF BackupInv, NotSet
<1>3. CASE q # <<>>
  <2>1. holder'.step = "returned" /\ holder'.e = Head(q) /\ pending' = Tail(q)
    BY <1>3 DEF Unlock, Returned
  <2> HIDE DEF q
  <2>2. /\ OneBackup(Tail(q)) /\ (IsBackup(Head(q)) => NoBackup(Tail(q)))
        /\ NoBackup(q) => ~IsBackup(Head(q)) /\ NoBackup(Tail(q))
    BY <1>1, <1>3, HeadBackups
  <2>3. AtHand' <=> IsBackup(Head(q))
    BY <2>1 DEF AtHand, IsBackup
  <2> QED BY <1>1, <2>1, <2>2, <2>3 DEF BackupInv, NotSet
<1> QED BY <1>2, <1>3

\* The holder goes on.
LEMMA HoldBackups ==
  ASSUME Types, BackupInv, "backup" \in timers' => "backup" \in timers,
         unfinished' \in {unfinished, None} \/ AtHand,
         NEW more \in Seq(Queued), NoBackup(more), pending' = pending \o more, ~AtHand'
  PROVE  BackupInv'
<1>1. /\ NoBackup(pending) => NoBackup(pending')
      /\ OneBackup(pending) => OneBackup(pending')
  BY AppendBackups DEF Types
<1> QED BY <1>1 DEF BackupInv

\* Errors other than the backup request arrive.
LEMMA SignalBackups ==
  ASSUME Types, IdInv, BackupInv, NotSet, NEW es \in Seq(Queued), NoBackup(es), Signal(es)
  PROVE  BackupInv'
<1>1. CASE id = "gone" \/ es = <<>>
  <2>1. UNCHANGED <<holder, pending>>
    BY <1>1 DEF Signal, idVars
  <2>2. AtHand' = AtHand
    BY <2>1 DEF AtHand
  <2> QED BY <2>1, <2>2 DEF BackupInv, NotSet
<1>2. CASE id \notin {"free", "gone"} /\ es # <<>>
  <2>1. pending' = pending \o es /\ UNCHANGED holder
    BY <1>2 DEF Signal
  <2>2. AtHand' = AtHand
    BY <2>1 DEF AtHand
  <2>3. /\ NoBackup(pending) => NoBackup(pending')
        /\ OneBackup(pending) => OneBackup(pending')
    BY <2>1, AppendBackups DEF Types
  <2> QED BY <2>2, <2>3 DEF BackupInv, NotSet
<1>3. CASE id = "free" /\ es # <<>>
  <2>1. OneBackup(es)
    BY DEF NoBackup, OneBackup
  <2>2. ~IsBackup(Head(es)) /\ NoBackup(Tail(es)) /\ OneBackup(Tail(es))
    BY <1>3, <2>1, HeadBackups
  <2>3. CASE used
    <3>1. holder'.step = "returned" /\ holder'.e = Head(es) /\ pending' = Tail(es)
      BY <1>3, <2>3 DEF Signal, Returned
    <3>2. ~AtHand'
      BY <2>2, <3>1 DEF AtHand, IsBackup
    <3> QED BY <2>2, <3>1, <3>2 DEF BackupInv, NotSet
  <2>4. CASE ~used
    <3>1. UNCHANGED <<holder, pending>>
      BY <1>3, <2>4 DEF Signal, idVars
    <3>2. AtHand' = AtHand
      BY <3>1 DEF AtHand
    <3> QED BY <3>1, <3>2 DEF BackupInv, NotSet
  <2> QED BY <2>3, <2>4
<1> QED BY <1>1, <1>2, <1>3 DEF Types

\* The timer of the backup request fires.
LEMMA FireBackups ==
  ASSUME Types, IdInv, BackupInv, "backup" \in timers, TimerFire("backup")
  PROVE  BackupInv'
<1> DEFINE e == Event(0, "EBACKUPREQUEST", FALSE)
           es == <<e>>
<1>1. e \in Queued
  BY RetryAssumption DEF Event, Queued, Events, Versions, ErrorCodes
<1>2. /\ Signal(es) /\ "backup" \notin timers' /\ unfinished' = unfinished
      /\ unfinished = None /\ ~AtHand /\ NoBackup(pending)
  BY DEF TimerFire, BackupInv
<1>3. es \in Seq(Queued) /\ es # <<>> /\ Head(es) = e /\ Tail(es) = <<>>
  <2> HIDE DEF e
  <2> QED BY <1>1
<1> HIDE DEF e, es
<1>4. CASE id = "gone" \/ (id = "free" /\ ~used)
  <2>1. UNCHANGED <<holder, pending>>
    BY <1>2, <1>3, <1>4 DEF Signal, idVars
  <2>2. AtHand' = AtHand
    BY <2>1 DEF AtHand
  <2> QED BY <1>2, <2>1, <2>2 DEF BackupInv
<1>5. CASE id \notin {"free", "gone"}
  <2>1. pending' = pending \o es /\ UNCHANGED holder
    BY <1>2, <1>3, <1>5 DEF Signal
  <2>2. AtHand' = AtHand
    BY <2>1 DEF AtHand
  <2>3. Len(pending) \in Nat /\ Len(pending') = Len(pending) + 1
    BY <1>3, <2>1 DEF Types, es
  <2>4. \A i \in 1..Len(pending') : IsBackup(pending'[i]) => i = Len(pending) + 1
    BY <1>2, <1>3, <2>1, <2>3 DEF Types, NoBackup
  <2>5. OneBackup(pending')
    BY <2>4 DEF OneBackup
  <2> QED BY <1>2, <2>2, <2>5 DEF BackupInv
<1>6. CASE id = "free" /\ used
  <2>1. pending' = <<>>
    BY <1>2, <1>3, <1>6, Zenon DEF Signal
  <2>2. NoBackup(pending') /\ OneBackup(pending')
    BY <2>1 DEF NoBackup, OneBackup
  <2> QED BY <1>2, <2>2 DEF BackupInv
<1> QED BY <1>4, <1>5, <1>6 DEF Types

\* Every step keeps the backup request single.
LEMMA BackupsKept ==
  ASSUME IInv, Next
  PROVE  BackupInv'
<1> USE DEF IInv
<1>0. Types /\ IdInv /\ ErrorInv /\ BackupInv /\ <<>> \in Seq(Queued) /\ NoBackup(<<>>)
  BY DEF Core, NoBackup
<1> SUFFICES ASSUME Core PROVE BackupInv'
  OBVIOUS
<1> HIDE DEF IInv
<1>1. CASE CallMethod
  <2>1. pending' = <<>> /\ unfinished' = None
    BY <1>0, <1>1 DEF CallMethod, IdInv
  <2>2. ~AtHand'
    <3>1. \/ error \in {"0", "ECANCELED"} /\ holder' = Returned(Event(Current, error, FALSE), error)
          \/ \E err \in {"EREQUEST", "ESTOP", "ELIMIT"} :
               holder' = Returned(Event(Current, err, FALSE), err)
          \/ holder' = [step |-> "issue"]
      BY <1>0, <1>1 DEF CallMethod, IdInv
    <3> DEFINE Codes == {"0", "ECANCELED", "EREQUEST", "ESTOP", "ELIMIT"}
    <3>0. \A err : Returned(Event(Current, err, FALSE), err).e.err = err
      BY Zenon DEF Returned, Event
    <3>2. holder'.step = "issue" \/ holder'.e.err \in Codes
      <4>1. CASE error \in {"0", "ECANCELED"} /\ holder' = Returned(Event(Current, error, FALSE), error)
        <5>1. holder'.e.err = error
          BY <3>0, <4>1
        <5> QED BY <4>1, <5>1
      <4>2. CASE \E err \in {"EREQUEST", "ESTOP", "ELIMIT"} :
                   holder' = Returned(Event(Current, err, FALSE), err)
        <5>1. PICK err \in {"EREQUEST", "ESTOP", "ELIMIT"} :
                holder' = Returned(Event(Current, err, FALSE), err)
          BY <4>2
        <5>2. holder'.e.err = err
          BY <3>0, <5>1
        <5> QED BY <5>2
      <4>3. CASE holder' = [step |-> "issue"]
        BY <4>3
      <4> HIDE DEF Codes
      <4> QED BY <3>1, <4>1, <4>2, <4>3, Zenon
    <3> QED BY <3>2 DEF AtHand, IsBackup
  <2>3. NoBackup(pending') /\ OneBackup(pending')
    BY <2>1 DEF NoBackup, OneBackup
  <2> QED BY <2>1, <2>2, <2>3 DEF BackupInv
<1>2. CASE IssueNoSocket \/ IssueNotPacked
  <2>1. NotSet /\ pending' = pending \o <<>>
    BY <1>2 DEF IssueNoSocket, IssueNotPacked, Hold, NotSet
  <2>2. ~AtHand'
    BY <1>2 DEF IssueNoSocket, IssueNotPacked, Hold, AtHand, IsBackup, Returned, Event
  <2> QED BY <1>0, <2>1, <2>2, HoldBackups DEF NotSet
<1>3. CASE IssueWrite
  <2> DEFINE e == Event(Current, "EFAILEDSOCKET", FALSE)
  <2>1. e \in Queued /\ ~IsBackup(e)
    BY <1>0, RetryAssumption
       DEF Types, Event, Queued, Events, Versions, Tries, ErrorCodes, Current, IsBackup
  <2>2. NotSet /\ (Unlock("0", <<>>) \/ Unlock("0", <<e>>))
    BY <1>3 DEF IssueWrite, NotSet
  <2> HIDE DEF e
  <2>3. <<e>> \in Seq(Queued) /\ NoBackup(<<e>>)
    BY <2>1 DEF NoBackup
  <2> QED BY <1>0, <2>2, <2>3, UnlockBackups
<1>4. CASE Ignore
  <2> DEFINE os == IF OfUnfinished THEN {Outcome(unfinished, error, E.responded)} ELSE {}
  <2>1. PICK es \in Errors(Failing(os)) : NotSet /\ Unlock(holder.saved, es)
    BY <1>4 DEF Ignore, NotSet, StillUnfinished
  <2>2. OfUnfinished => unfinished \in Tries
    BY <1>0, RetryAssumption DEF OfUnfinished, Types, Tries
  <2>3. \A o \in os : o.k \in Tries
    BY <2>2 DEF Outcome
  <2> HIDE DEF os
  <2>4. es \in Seq(Queued) /\ NoBackup(es)
    BY <1>0, <2>3, FailingType
  <2> QED BY <1>0, <2>1, <2>4, UnlockBackups
<1>5. CASE BackupDeclined \/ BackupAtLimit
  <2>1. NotSet /\ Unlock(holder.saved, <<>>)
    BY <1>5 DEF BackupDeclined, BackupAtLimit, BackupDropped, Rearm, NotSet
  <2> QED BY <1>0, <2>1, UnlockBackups
<1>6. CASE Backup
  <2>1. /\ holder.step = "returned" /\ error = "EBACKUPREQUEST" /\ pending' = pending \o <<>>
        /\ holder'.step = "issue" /\ ("backup" \in timers' => "backup" \in timers)
    BY <1>6 DEF Backup, Returning, Hold, Rearm
  <2>2. AtHand /\ ~AtHand'
    BY <1>0, <2>1 DEF ErrorInv, AtHand, IsBackup
  <2> QED BY <1>0, <2>1, <2>2, HoldBackups
<1>7. CASE Retry
  <2> DEFINE os == {Outcome(nretry, error, E.responded)}
  <2>1. PICK es \in Errors(Failing(os)) : NotSet /\ pending' = pending \o es
        /\ holder'.step = "issue"
    BY <1>7 DEF Retry, Hold, NotSet
  <2>2. \A o \in os : o.k \in Tries
    BY <1>0 DEF Outcome, Types
  <2> HIDE DEF os
  <2>3. es \in Seq(Queued) /\ NoBackup(es)
    BY <1>0, <2>2, FailingType
  <2>4. ~AtHand'
    BY <2>1 DEF AtHand
  <2> QED BY <1>0, <2>1, <2>3, <2>4, HoldBackups DEF NotSet
<1>8. CASE BackupNoTimer \/ EndOfRpc
  <2>1. NotSet /\ pending' = pending /\ holder'.step = "ending"
    BY <1>8 DEF BackupNoTimer, EndOfRpc, Ending, NotSet
  <2>2. ~AtHand'
    BY <2>1 DEF AtHand
  <2> QED BY <1>0, <2>1, <2>2 DEF BackupInv, NotSet
<1>9. CASE EndRPC
  <2> DEFINE a == Outcome(nretry, error, E.responded)
             b == Outcome(unfinished, UnfinishedError, FALSE)
             c == Outcome(nretry, "ECANCELED", FALSE)
             d == Outcome(unfinished, error, E.responded)
             os == IF ~Earlier THEN {a} \cup (IF unfinished = None THEN {} ELSE {b}) ELSE {c, d}
  <2>0. \E es \in Errors(Failing(os)) : Hold([step |-> "done"], error, es)
    BY <1>9, Zenon DEF EndRPC
  <2>1. PICK es \in Errors(Failing(os)) : NotSet /\ pending' = pending \o es
        /\ holder'.step = "done"
    <3>1. unfinished' = None /\ timers' = {}
      BY <1>9, Zenon DEF EndRPC
    <3> HIDE DEF a, b, c, d, os
    <3> QED BY <2>0, <3>1 DEF Hold, NotSet
  <2>2. nretry \in Tries /\ (unfinished # None => unfinished \in Tries)
    BY <1>0, RetryAssumption DEF Types, Tries
  <2>3. Earlier => unfinished # None
    BY <1>0, <1>9, Zenon DEF EndRPC, ErrorInv
  <2>4. a.k = nretry /\ b.k = unfinished /\ c.k = nretry /\ d.k = unfinished
    BY Zenon DEF Outcome
  <2> HIDE DEF a, b, c, d
  <2>5. \A o \in os : o.k \in Tries
    BY <2>2, <2>3, <2>4
  <2> HIDE DEF os
  <2>6. es \in Seq(Queued) /\ NoBackup(es)
    BY <1>0, <2>5, FailingType
  <2>7. ~AtHand'
    BY <2>1 DEF AtHand
  <2> QED BY <1>0, <2>1, <2>6, <2>7, HoldBackups DEF NotSet
<1>10. CASE Destroy
  <2>1. NotSet /\ pending' = <<>> /\ holder'.step = "none"
    BY <1>10 DEF Destroy, cntlVars, Idle, NotSet
  <2>2. NoBackup(pending') /\ OneBackup(pending') /\ ~AtHand'
    BY <2>1 DEF NoBackup, OneBackup, AtHand
  <2> QED BY <1>0, <2>1, <2>2 DEF BackupInv, NotSet
<1>11. CASE TimerStep
  <2>1. PICK x \in timers : TimerFire(x)
    BY <1>11 DEF TimerStep
  <2>2. CASE x = "backup"
    BY <1>0, <2>1, <2>2, FireBackups
  <2>3. CASE x # "backup"
    <3> DEFINE e == Event(0, "ERPCTIMEDOUT", FALSE)
    <3>1. e \in Queued /\ ~IsBackup(e)
      BY RetryAssumption DEF Event, Queued, Events, Versions, ErrorCodes, IsBackup
    <3>2. NotSet /\ Signal(<<e>>)
      BY <2>1, <2>3 DEF TimerFire, NotSet
    <3> HIDE DEF e
    <3>3. <<e>> \in Seq(Queued) /\ NoBackup(<<e>>)
      BY <3>1 DEF NoBackup
    <3> QED BY <1>0, <3>2, <3>3, SignalBackups
  <2> QED BY <2>2, <2>3
<1>12. CASE StartCancel
  <2> DEFINE e == Event(0, "ECANCELED", FALSE)
  <2>1. e \in Queued /\ ~IsBackup(e)
    BY RetryAssumption DEF Event, Queued, Events, Versions, ErrorCodes, IsBackup
  <2>2. NotSet /\ Signal(<<e>>)
    BY <1>12 DEF StartCancel, NotSet
  <2> HIDE DEF e
  <2>3. <<e>> \in Seq(Queued) /\ NoBackup(<<e>>)
    BY <2>1 DEF NoBackup
  <2> QED BY <1>0, <2>2, <2>3, SignalBackups
<1>13. ASSUME NEW m \in net, Response(m) PROVE BackupInv'
  <2>1. NotSet /\ pending' = pending
    BY <1>13 DEF Response, NotSet, idVars
  <2>2. ~AtHand' \/ AtHand' = AtHand
    BY <1>13 DEF Response, AtHand, IsBackup, Returned, Event, idVars
  <2> QED BY <1>0, <2>1, <2>2 DEF BackupInv, NotSet
<1>14. ASSUME NEW c \in Conns, Break(c) PROVE BackupInv'
  <2>1. PICK es \in Errors({c}) : NotSet /\ Signal(es)
    BY <1>14 DEF Break, NotSet
  <2>2. es \in Seq(Queued) /\ NoBackup(es)
    BY <1>0, ErrorsType
  <2> QED BY <1>0, <2>1, <2>2, SignalBackups
<1> QED BY <1>1, <1>2, <1>3, <1>4, <1>5, <1>6, <1>7, <1>8, <1>9, <1>10, <1>11, <1>12, <1>13, <1>14
        DEF Next, HolderStep

\* Every step preserves the inductive invariant.
LEMMA NextInv ==
  ASSUME IInv, Next
  PROVE  IInv'
<1> SUFFICES Core'
  BY BackupsKept DEF IInv
<1>1. Core
  BY DEF IInv
<1>2. CASE CallMethod
  BY <1>1, <1>2, CallMethodInv
<1>3. CASE IssueNoSocket \/ IssueNotPacked \/ IssueWrite
  BY <1>1, <1>3, IssueNoSocketInv, IssueNotPackedInv, IssueWriteInv
<1>4. CASE Ignore \/ BackupDeclined \/ BackupAtLimit
  <2>1. CASE Ignore
    BY <1>1, <2>1, IgnoreInv
  <2>2. CASE BackupDeclined \/ BackupAtLimit
    <3>1. /\ holder.step = "returned" /\ error = "EBACKUPREQUEST" /\ Unlock(holder.saved, <<>>)
          /\ UNCHANGED <<opt, used, nretry, unfinished, conn, completed, netVars>>
      BY <2>2 DEF BackupDeclined, BackupAtLimit, BackupDropped, Returning
    <3>2. timers' \subseteq {"backup", "deadline"}
      BY <1>1, <2>2 DEF BackupDeclined, BackupAtLimit, BackupDropped, Rearm, Core, Types
    <3> QED BY <1>1, <3>1, <3>2, NoBackupInv
  <2> QED BY <1>4, <2>1, <2>2
<1>5. CASE Backup
  BY <1>5, BackupStepInv
<1>6. CASE Retry
  BY <1>1, <1>6, RetryInv
<1>7. CASE BackupNoTimer \/ EndOfRpc
  <2>1. CASE BackupNoTimer
    <3>1. holder.step = "returned" /\ ~Ignored /\ Ending("ESTOP") /\ error # "0"
      BY <2>1 DEF BackupNoTimer, Returning
    <3> QED BY <1>1, <3>1, EndingInv
  <2>2. CASE EndOfRpc
    <3>1. holder.step = "returned" /\ ~Ignored /\ Ending(error)
      BY <2>2 DEF EndOfRpc, Returning
    <3> QED BY <1>1, <3>1, EndingInv
  <2> QED BY <1>7, <2>1, <2>2
<1>8. CASE EndRPC \/ Destroy
  BY <1>1, <1>8, EndRPCInv, DestroyInv
<1>9. CASE TimerStep
  BY <1>1, <1>9, TimerFireInv DEF TimerStep
<1>10. CASE StartCancel
  BY <1>1, <1>10, StartCancelInv
<1>11. ASSUME NEW m \in net, Response(m) PROVE Core'
  BY <1>1, <1>11, ResponseInv
<1>12. ASSUME NEW c \in Conns, Break(c) PROVE Core'
  BY <1>1, <1>12, BreakInv
<1> QED
  BY <1>2, <1>3, <1>4, <1>5, <1>6, <1>7, <1>8, <1>9, <1>10, <1>11, <1>12 DEF Next, HolderStep

\* So does stuttering.
LEMMA StutterInv ==
  ASSUME IInv, UNCHANGED vars
  PROVE  IInv'
<1> USE DEF vars, idVars, cntlVars, netVars
<1>1. Types'
  BY DEF IInv, Core, Types, HolderType
<1>2. IdInv' /\ TryInv' /\ ConnInv' /\ NetInv'
  BY Zenon DEF IInv, Core, IdInv, TryInv, Open, ConnInv, NetInv
<1>3. ErrorInv' /\ BackupInv'
  BY Zenon DEF IInv, Core, ErrorInv, Earlier, Current, E, BackupInv, AtHand
<1> QED BY <1>1, <1>2, <1>3 DEF IInv, Core

\* The inductive invariant holds of every reachable state, for every set of connections, every set of
\* options and every number of retries.
THEOREM Invariance == Spec => []IInv
<1>1. Init => IInv
  <2> SUFFICES ASSUME Init PROVE BackupInv
    BY InitInv DEF IInv
  <2>1. pending = <<>> /\ timers = {} /\ unfinished = None /\ ~AtHand
    BY DEF Init, Idle, AtHand
  <2> QED BY <2>1 DEF BackupInv, NoBackup, OneBackup
<1>2. IInv /\ [Next]_vars => IInv'
  BY NextInv, StutterInv
<1> QED BY <1>1, <1>2, PTL DEF Spec

\* Controller::OnComplete and EndRPC: no try is completed twice, and when the RPC has ended every
\* try it made is completed and none keeps its connection, in whatever order responses, failures,
\* timers and the cancellation come.
THEOREM TriesCompletedOnce == Spec => []CompletedOnce
<1>1. IInv => CompletedOnce
  <2> SUFFICES ASSUME IInv PROVE CompletedOnce
    OBVIOUS
  <2>1. Types /\ TryInv /\ ConnInv
    BY DEF IInv, Core
  <2>2. \A k \in Tries : completed[k] \in 0..1
    BY <2>1 DEF TryInv
  <2>3. ASSUME id = "gone" PROVE \A k \in Tries : conn[k] = None
        /\ (completed[k] = 1 <=> k <= nretry)
    BY <2>1, <2>3, RetryAssumption DEF Types, TryInv, Open, Tries
  <2>4. ASSUME id = "gone", opt.type # "single" PROVE \A c \in Conns : state[c] # "busy"
    BY <2>1, <2>3, <2>4, ConnsAssumption DEF ConnInv
  <2> QED BY <2>2, <2>3, <2>4 DEF CompletedOnce
<1> QED BY <1>1, Invariance, PTL

\* Controller::Call::OnComplete: a connection goes back to the pool only when no answer is
\* outstanding on it.
THEOREM PoolHasNoAnswers == Spec => []PooledClean
<1>1. IInv => PooledClean
  <2> SUFFICES ASSUME IInv, NEW m \in net PROVE state[m.c] # "pool"
    BY Zenon DEF PooledClean
  <2>1. m.k \in Tries /\ m.c \in Conns
    BY DEF IInv, Core, Types
  <2>2. CASE opt.type = "single"
    BY <2>1, <2>2 DEF IInv, Core, ConnInv
  <2>3. CASE opt.type # "single"
    BY <2>1, <2>3, ConnsAssumption DEF IInv, Core, ConnInv, NetInv
  <2> QED BY <2>2, <2>3, Zenon
<1> QED BY <1>1, Invariance, PTL

\* Controller::OnVersionedRPCReturned: an ignored event leaves no error code behind.
THEOREM ErrorCodeReverted == Spec => []ErrorReverted
<1>1. IInv => ErrorReverted
  BY DEF IInv, Core, ErrorInv, ErrorReverted
<1> QED BY <1>1, Invariance, PTL
=============================================================================
