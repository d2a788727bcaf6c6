------------------------------- MODULE RpcCall -------------------------------
(***************************************************************************)
(* The client side of one RPC: Channel::CallMethod, IssueRPC,              *)
(* OnVersionedRPCReturned, Call::OnComplete and EndRPC                     *)
(* (brpc/channel.cpp, brpc/controller.cpp), with the responses, socket     *)
(* failures, timers and cancellations that reach it in any order.          *)
(*                                                                         *)
(* Everything happens under the lock of the call id.  The id is what       *)
(* BthreadId.tla shows it to be: one holder at a time, and errors that     *)
(* find it locked are handled in their order before it is free.  Try n has *)
(* the version n + 1 of the id; version 0 stands for the whole RPC.        *)
(***************************************************************************)
EXTENDS Integers, Sequences, Functions

CONSTANTS MaxRetry,
          Conns,          \* connections the RPC may be sent on
          Options,        \* done, timed, backup, type: the choices of the caller
          MaxCancels,     \* bound on the calls of StartCancel
          None

ASSUME RetryAssumption == MaxRetry \in Nat
ASSUME ConnsAssumption == Conns # {} /\ None \notin Conns /\ None \notin 0..MaxRetry
ASSUME OptionsAssumption == \A o \in Options : o.type \in {"single", "pooled", "short"}

Tries == 0..MaxRetry
Versions == 0..(MaxRetry + 1)
Main == CHOOSE c \in Conns : TRUE    \* the connection of CONNECTION_TYPE_SINGLE

VARIABLES opt,                 \* the options of the call
          id,                  \* "free", "locked", "unlockable" (about_to_destroy) or "gone"
          pending,             \* errors queued at the locked id
          holder,              \* what the holder of the id is doing
          used,                \* FLAGS_USED_BY_RPC
          error,               \* _error_code, 0 if there is none
          nretry, unfinished,  \* _current_call.nretry; nretry of _unfinished_call or None
          conn,                \* sending_sock of each try while it has one
          timers,              \* what bthread_timer_add has been asked for and has not run yet
          state,               \* of each connection: "new", "busy", "pool", "failed"
          watch,               \* the tries in the id_wait_list of each connection
          net,                 \* requests that were sent and have not been answered
          completed,           \* how often OnComplete ran for each try
          cancels,
          exempt               \* history: the RPC goes on without the timer of its deadline

idVars == <<id, pending, holder>>
cntlVars == <<used, error, nretry, unfinished, conn, completed>>
netVars == <<state, watch, net>>
vars == <<opt, idVars, cntlVars, timers, netVars, cancels, exempt>>

Current == nretry + 1
Idle == [step |-> "none"]

\* The event e reached the holder; saved is the error code to go back to when e is ignored.
Event(v, err, responded) == [id |-> v, err |-> err, responded |-> responded]
Returned(e, saved) == [step |-> "returned", e |-> e, saved |-> saved]

Init ==
  /\ opt \in Options
  /\ id = "free" /\ pending = <<>> /\ holder = Idle
  /\ used = FALSE /\ error = "0" /\ nretry = 0 /\ unfinished = None
  /\ conn = [k \in Tries |-> None] /\ completed = [k \in Tries |-> 0]
  /\ timers = {}
  /\ state = [c \in Conns |-> "new"] /\ watch = [c \in Conns |-> {}] /\ net = {}
  /\ cancels = 0 /\ exempt = FALSE

\* RpcRetryPolicy::DoRetry, with one code for each way to fail.
DoRetry(err) == err \in {"EFAILEDSOCKET", "EHOSTDOWN", "ELIMIT"}

-----------------------------------------------------------------------------
(* The call id *)

\* bthread_id_error2 for each error of es in turn, by a thread that does not hold the id.
\* The first one that finds it free runs HandleSocketFailed.  Before CallMethod it only
\* leaves its mark in the controller.
Signal(es) ==
  CASE id = "gone" \/ es = <<>> -> UNCHANGED <<idVars, error>>
    [] id \notin {"free", "gone"} /\ es # <<>> -> pending' = pending \o es /\ UNCHANGED <<id, holder, error>>
    [] OTHER -> /\ error' = Head(es).err
                /\ IF used
                   THEN /\ id' = "locked" /\ pending' = Tail(es)
                        /\ holder' = Returned(Head(es), error)
                   ELSE UNCHANGED idVars

\* bthread_id_unlock, with err as the error code the holder leaves and more errors queued.
Unlock(err, more) ==
  LET q == pending \o more IN
  IF q = <<>>
  THEN id' = "free" /\ holder' = Idle /\ pending' = q /\ error' = err
  ELSE /\ holder' = Returned(Head(q), err)
       /\ pending' = Tail(q) /\ error' = Head(q).err /\ UNCHANGED id

\* The holder goes on with step s, and errors are queued behind it.
Hold(s, err, more) ==
  /\ holder' = s /\ error' = err /\ pending' = pending \o more /\ UNCHANGED id

-----------------------------------------------------------------------------
(* Call::OnComplete *)

\* The result of one try: its number, its error code, and whether a response came.
Outcome(k, err, responded) == [k |-> k, err |-> err, responded |-> responded]

Reusable(o) == opt.type = "pooled" /\ (o.err = "0" \/ o.responded)

\* What happens to the connection of a completed try.
After(o) == IF Reusable(o) THEN "pool" ELSE "failed"

\* The connections that the outcomes os set failed, and the errors this sends to the id,
\* in any order.
Failing(os) ==
  {conn[o.k] : o \in {p \in os : conn[p.k] # None /\ opt.type # "single" /\ After(p) = "failed"}}
Watched(cs) == UNION {watch[c] : c \in {d \in cs : state[d] # "failed"}}
Orders(S) == UNION {Bijection(1..n, S) : n \in 0..(MaxRetry + 1)}
Errors(cs) == Orders({Event(k + 1, "EFAILEDSOCKET", FALSE) : k \in Watched(cs)})

OnComplete(os) ==
  LET ks == {o.k : o \in os} IN
  /\ completed' = [k \in Tries |-> IF k \in ks THEN completed[k] + 1 ELSE completed[k]]
  /\ conn' = [k \in Tries |-> IF k \in ks THEN None ELSE conn[k]]
  /\ state' = [c \in Conns |->
       IF opt.type # "single" /\ state[c] # "failed" /\ \E o \in os : conn[o.k] = c
       THEN After(CHOOSE o \in os : conn[o.k] = c) ELSE state[c]]

-----------------------------------------------------------------------------
(* Channel::CallMethod *)

\* The id is locked.  An RPC cancelled before, one whose request cannot be serialised, and one
\* whose timer cannot be set go through HandleSendFailed; the last but one of the cases is the
\* limit on user code running in pthreads, which is tested before the timer is set.
CallMethod ==
  /\ ~used /\ id = "free" /\ used' = TRUE
  /\ id' = "locked" /\ UNCHANGED <<pending, nretry, unfinished, conn, completed, opt, netVars, cancels>>
  /\ \/ /\ error # "0" /\ UNCHANGED error
        /\ holder' = Returned(Event(Current, error, FALSE), error)
        /\ UNCHANGED <<timers, exempt>>
     \/ \E err \in {"EREQUEST", "ESTOP"} \cup (IF opt.done THEN {"ELIMIT"} ELSE {}) :
          /\ error = "0" /\ error' = err
          /\ holder' = Returned(Event(Current, err, FALSE), err)
          /\ exempt' = (err = "ELIMIT") /\ UNCHANGED timers
     \/ /\ error = "0" /\ UNCHANGED error
        /\ timers' = IF opt.backup THEN {"backup"} ELSE IF opt.timed THEN {"deadline"} ELSE {}
        /\ holder' = [step |-> "issue"] /\ UNCHANGED exempt

-----------------------------------------------------------------------------
(* Controller::IssueRPC *)

\* Connections a try can get: the one of the server, one from the pool, a new one.
New == {c \in Conns : state[c] = "new"}
Fresh == IF New = {} THEN {} ELSE {CHOOSE c \in New : TRUE}
Available ==
  CASE opt.type = "single" -> {c \in {Main} : state[c] # "failed"}
    [] opt.type = "pooled" -> {c \in Conns : state[c] = "pool"} \cup Fresh
    [] opt.type = "short" -> Fresh

Acquire(c) == conn' = [conn EXCEPT ![nretry] = c] /\ state' = [state EXCEPT ![c] = "busy"]

\* No server or no connection; then HandleSendFailed.
IssueNoSocket ==
  /\ holder.step = "issue"
  /\ Hold(Returned(Event(Current, "EHOSTDOWN", FALSE), "EHOSTDOWN"), "EHOSTDOWN", <<>>)
  /\ UNCHANGED <<opt, used, nretry, unfinished, conn, completed, timers, netVars, cancels, exempt>>

\* The request cannot be packed for the connection it would be sent on.
IssueNotPacked ==
  /\ holder.step = "issue" /\ \E c \in Available : Acquire(c)
  /\ Hold(Returned(Event(Current, "EREQUEST", FALSE), "EREQUEST"), "EREQUEST", <<>>)
  /\ UNCHANGED <<opt, used, nretry, unfinished, completed, timers, watch, net, cancels, exempt>>

\* Socket::Write, and the id is unlocked.  When Write fails it reports that to the id.
IssueWrite ==
  /\ holder.step = "issue"
  /\ \E c \in Available :
       /\ Acquire(c)
       /\ \/ /\ net' = net \cup {[k |-> nretry, c |-> c]}
             /\ watch' = [watch EXCEPT ![c] = @ \cup {nretry}]
             /\ Unlock("0", <<>>)
          \/ /\ Unlock("0", <<Event(Current, "EFAILEDSOCKET", FALSE)>>)
             /\ UNCHANGED <<net, watch>>
  /\ UNCHANGED <<opt, used, nretry, unfinished, completed, timers, cancels, exempt>>

-----------------------------------------------------------------------------
(* Controller::OnVersionedRPCReturned *)

Returning == holder.step = "returned"
E == holder.e

OfUnfinished == unfinished # None /\ E.id = unfinished + 1

\* Events of earlier tries are ignored, except the success of the call that was sent before the
\* backup request; its failure completes that call.
Earlier == E.id # 0 /\ E.id # Current
Ignored == Earlier /\ ~(OfUnfinished /\ error = "0")

\* (mutant) _unfinished_call is left set
StillUnfinishedKept == unfinished
StillUnfinished == IF OfUnfinished THEN None ELSE unfinished

Ignore ==
  /\ Returning /\ Ignored
  /\ LET os == IF OfUnfinished THEN {Outcome(unfinished, error, E.responded)} ELSE {} IN
     /\ OnComplete(os)
     /\ unfinished' = StillUnfinished
     /\ \E es \in Errors(Failing(os)) : Unlock(holder.saved, es)
  /\ UNCHANGED <<opt, used, nretry, timers, watch, net, cancels, exempt>>

LimitReached == nretry >= MaxRetry

\* The backup timer, when the policy of the user decides against a backup request.
BackupDeclined ==
  /\ Returning /\ ~Ignored /\ error = "EBACKUPREQUEST" /\ ~LimitReached
  /\ Unlock(holder.saved, <<>>) /\ exempt' = TRUE
  /\ UNCHANGED <<opt, used, nretry, unfinished, conn, completed, timers, netVars, cancels>>

\* (mutant) the deadline is not set again
RearmNot == UNCHANGED timers

\* The timer of the deadline takes the place of the one of the backup request.
Rearm == timers' = timers \cup (IF opt.timed THEN {"deadline"} ELSE {})

BackupDropped(err) ==
  /\ Returning /\ ~Ignored /\ error = "EBACKUPREQUEST" /\ LimitReached
  /\ Rearm /\ Unlock(err, <<>>)
  /\ UNCHANGED <<opt, used, nretry, unfinished, conn, completed, netVars, cancels, exempt>>

\* (mutant) the error code is not taken back
BackupAtLimitFails == BackupDropped(error)

\* There is no try left for a backup request.
BackupAtLimit == BackupDropped(holder.saved)

\* The current call becomes the unfinished one, and another is sent.
Backup ==
  /\ Returning /\ ~Ignored /\ error = "EBACKUPREQUEST" /\ ~LimitReached
  /\ Rearm /\ Hold([step |-> "issue"], "0", <<>>)
  /\ unfinished' = nretry /\ nretry' = nretry + 1
  /\ UNCHANGED <<opt, used, conn, completed, netVars, cancels, exempt>>

Retry ==
  /\ Returning /\ ~Ignored /\ error # "EBACKUPREQUEST" /\ ~LimitReached /\ DoRetry(error)
  /\ LET os == {Outcome(nretry, error, E.responded)} IN
     OnComplete(os) /\ \E es \in Errors(Failing(os)) : Hold([step |-> "issue"], "0", es)
  /\ nretry' = nretry + 1
  /\ UNCHANGED <<opt, used, unfinished, timers, watch, net, cancels, exempt>>

\* The RPC ends with err; lockers are turned away at once if there is a done to run.
Ending(err) ==
  /\ holder' = [step |-> "ending", e |-> E] /\ error' = err
  /\ id' = IF opt.done THEN "unlockable" ELSE "locked"
  /\ UNCHANGED <<opt, pending, used, nretry, unfinished, conn, completed, timers, netVars, cancels, exempt>>

EndOfRpc ==
  /\ Returning /\ ~Ignored /\ error # "EBACKUPREQUEST" /\ (LimitReached \/ ~DoRetry(error))
  /\ Ending(error)

\* bthread_timer_add fails for the deadline.
BackupNoTimer ==
  /\ Returning /\ ~Ignored /\ error = "EBACKUPREQUEST" /\ opt.timed /\ Ending("ESTOP")

-----------------------------------------------------------------------------
(* Controller::EndRPC *)

\* (mutant) the success of the RPC is the success of both calls
UnfinishedErrorSame == error

\* How the call sent before the backup request ends when another event ends the RPC.
UnfinishedError == IF error = "0" THEN "EBACKUPREQUEST" ELSE error

EndRPC ==
  /\ holder.step = "ending"
  /\ LET os == IF ~Earlier
               THEN {Outcome(nretry, error, E.responded)}
                      \cup (IF unfinished = None THEN {} ELSE {Outcome(unfinished, UnfinishedError, FALSE)})
               ELSE {Outcome(nretry, "ECANCELED", FALSE), Outcome(unfinished, error, E.responded)} IN
     OnComplete(os) /\ \E es \in Errors(Failing(os)) : Hold([step |-> "done"], error, es)
  /\ unfinished' = None /\ timers' = {}
  /\ UNCHANGED <<opt, used, nretry, watch, net, cancels, exempt>>

\* After done->Run(): bthread_id_unlock_and_destroy, which also lets Join return.
Destroy ==
  /\ holder.step = "done" /\ holder' = Idle /\ id' = "gone" /\ pending' = <<>>
  /\ UNCHANGED <<opt, cntlVars, timers, netVars, cancels, exempt>>

-----------------------------------------------------------------------------
(* What reaches the RPC from outside *)

\* does_response_match_request_socket
Matches(m) == (m.k = nretry \/ m.k = unfinished) /\ conn[m.k] = m.c

\* ProcessRpcResponse, with what the server answered.
Response(m) ==
  /\ net' = net \ {m}
  /\ IF id = "free" /\ Matches(m)
     THEN \E err \in {"0", "EREQUEST", "ELIMIT"} :
            /\ id' = "locked" /\ error' = (IF err = "0" THEN error ELSE err)
            /\ holder' = Returned(Event(m.k + 1, err, TRUE), error) /\ UNCHANGED pending
     ELSE id # "locked" /\ UNCHANGED <<idVars, error>>
  /\ UNCHANGED <<opt, used, nretry, unfinished, conn, completed, timers, state, watch, cancels, exempt>>

\* A connection breaks: SetFailed signals the ids that wait on it.
Break(c) ==
  /\ state[c] \in {"busy", "pool"} /\ state' = [state EXCEPT ![c] = "failed"]
  /\ \E es \in Errors({c}) : Signal(es)
  /\ UNCHANGED <<opt, used, nretry, unfinished, conn, completed, timers, watch, net, cancels, exempt>>

\* HandleBackupRequest and HandleTimeout.
TimerFire(x) ==
  /\ timers' = timers \ {x}
  /\ Signal(<<Event(0, IF x = "backup" THEN "EBACKUPREQUEST" ELSE "ERPCTIMEDOUT", FALSE)>>)
  /\ UNCHANGED <<opt, used, nretry, unfinished, conn, completed, netVars, cancels, exempt>>

StartCancel ==
  /\ cancels < MaxCancels /\ cancels' = cancels + 1
  /\ Signal(<<Event(0, "ECANCELED", FALSE)>>)
  /\ UNCHANGED <<opt, used, nretry, unfinished, conn, completed, timers, netVars, exempt>>

-----------------------------------------------------------------------------

HolderStep ==
  \/ IssueNoSocket \/ IssueNotPacked \/ IssueWrite
  \/ Ignore \/ BackupDeclined \/ BackupAtLimit \/ Backup \/ BackupNoTimer \/ Retry \/ EndOfRpc
  \/ EndRPC \/ Destroy
TimerStep == \E x \in timers : TimerFire(x)

Next ==
  \/ CallMethod \/ HolderStep \/ TimerStep \/ StartCancel
  \/ \E m \in net : Response(m)
  \/ \E c \in Conns : Break(c)

Spec == Init /\ [][Next]_vars

\* The thread that holds the id goes on, and the timer thread runs its tasks.  Nothing is assumed
\* of the servers and the network.
FairSpec == Spec /\ WF_vars(HolderStep) /\ WF_vars(TimerStep)

-----------------------------------------------------------------------------
(* Properties *)

ErrorCodes == {"0", "EFAILEDSOCKET", "EHOSTDOWN", "ELIMIT", "EREQUEST", "ESTOP", "ERPCTIMEDOUT",
               "EBACKUPREQUEST", "ECANCELED"}

\* Types of the variables; in particular every version in use lies in the range the id was
\* given (bthread_id_lock_and_reset_range), and the unfinished call is an earlier try.
TypeOK ==
  /\ id \in {"free", "locked", "unlockable", "gone"} /\ (id = "free" => holder = Idle /\ pending = <<>>)
  /\ \A i \in DOMAIN pending : pending[i].id \in Versions
  /\ used \in BOOLEAN /\ error \in ErrorCodes /\ nretry \in Tries
  /\ unfinished = None \/ unfinished \in 0..(nretry - 1)
  /\ conn \in [Tries -> Conns \cup {None}] /\ timers \subseteq {"backup", "deadline"}
  /\ watch \in [Conns -> SUBSET Tries]

\* Whatever order tries, responses, failures, timers and the cancellation come in, OnComplete runs
\* once for each try, and the RPC ends with all its tries complete and no connection kept: the
\* statistics of the load balancer and of the circuit breaker count every try once.
CompletedOnce ==
  /\ \A k \in Tries : completed[k] \in 0..1
  /\ id = "gone" => /\ \A k \in Tries : completed[k] = 1 <=> k <= nretry
                    /\ \A k \in Tries : conn[k] = None
                    /\ opt.type # "single" => \A c \in Conns : state[c] # "busy"

\* A connection in the pool has no answer outstanding (the comment of OnComplete): the next
\* request on it would take the answer of this one for its own.
PooledClean == \A m \in net : state[m.c] # "pool"

\* Between two events no error code is left behind by an event that was ignored, or the next
\* successful response would count as a failure.
ErrorReverted == used /\ id = "free" => error = "0"

\* An RPC with a timeout ends, whatever the servers and the network do.  The exception is an RPC
\* that goes on without the timer of its deadline: after a backup request was declined by the
\* policy of the user, or when ELIMIT, found before the timer is set, is retried.
RpcEnds == used /\ opt.timed ~> id = "gone" \/ exempt
=============================================================================
