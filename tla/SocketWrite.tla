----------------------------- MODULE SocketWrite -----------------------------
(***************************************************************************)
(* The write side of brpc::Socket (brpc/socket.cpp): threads push          *)
(* WriteRequests onto _write_head; the one that finds it null has the      *)
(* right to write, writes once, and leaves the rest to a KeepWrite         *)
(* bthread.  SetFailed may come at any moment from the thread that reads.  *)
(*                                                                         *)
(* A request is numbered when the exchange pushes it, so that next of n is *)
(* n - 1 in the pushed list and n + 1 in the reversed one: the list of a   *)
(* writer is the interval lo..hi.  Every request is pipelined and has an   *)
(* id_wait; an id that was signalled ignores later signals.                *)
(***************************************************************************)
EXTENDS Integers, Sequences, FiniteSets, FiniteSetsExt

CONSTANTS Writers,      \* threads calling Write
          Keepers,      \* bthreads for KeepWrite and for connecting
          Readers,      \* threads that fail the socket
          Options,      \* flags of a request: subsets of {"notify", "bad", "shutdown"}
          Length,       \* bytes of a request
          Limit,        \* socket_max_unwritten_bytes
          DataListMax,  \* DATA_LIST_MAX
          MaxReq        \* bound: requests pushed

ASSUME SizesAssumption ==
  /\ Length \in Nat \ {0} /\ Limit \in Nat \ {0} /\ DataListMax \in Nat \ {0} /\ MaxReq \in Nat
ASSUME OptionsAssumption == Options \subseteq SUBSET {"notify", "bad", "shutdown"}

Procs == Writers \cup Keepers \cup Readers
Reqs == 1..MaxReq
Null == 0

VARIABLES head,         \* _write_head
          npush,        \* requests pushed
          linked,       \* requests whose next is not UNCONNECTED
          req,          \* the WriteRequests
          unwritten,    \* _unwritten_bytes
          isShutdown,   \* _is_write_shutdown
          fd,           \* _fd: "none" or "open"
          failed,       \* Failed()
          pipeline,     \* PipelinedInfos in the order they were pushed
          pc, flags,    \* each thread's function and the options of its request
          lo, hi,       \* the list it writes: req and cur_tail
          new,          \* new_head in IsWriteComplete
          cont          \* where the function returns to

list == <<head, npush, linked>>
sock == <<isShutdown, fd, failed>>
local == <<flags, lo, hi, new, cont>>
vars == <<list, req, unwritten, sock, pipeline, pc, local>>

NoReq == [flags |-> {}, size |-> 0, sent |-> 0, setup |-> "no", signal |-> "none", freed |-> FALSE]

Init ==
  /\ head = Null /\ npush = 0 /\ linked = {}
  /\ req = [n \in Reqs |-> NoReq]
  /\ unwritten = 0 /\ isShutdown = FALSE /\ fd \in {"none", "open"} /\ failed = FALSE
  /\ pipeline = <<>>
  /\ pc = [p \in Procs |-> "idle"]
  /\ flags = [p \in Procs |-> {}]
  /\ lo = [p \in Procs |-> Null] /\ hi = [p \in Procs |-> Null] /\ new = [p \in Procs |-> Null]
  /\ cont = [p \in Procs |-> "idle"]

Goto(p, l) == pc' = [pc EXCEPT ![p] = l]
Return(p) == cont' = [cont EXCEPT ![p] = "idle"] /\ Goto(p, cont[p])
NoList(p) == lo' = [lo EXCEPT ![p] = Null] /\ hi' = [hi EXCEPT ![p] = Null]
Has(n, f) == f \in req[n].flags
Bytes(S) == MapThenSumSet(LAMBDA n : req[n].size, S)

\* bthread_id_error on an id that was signalled before does nothing.
Signal(r, s) == IF r.signal \in {"none", "listed"} THEN s ELSE r.signal

(***************************************************************************)
(* SetFailed: the first caller runs OnFailed, which signals every id of    *)
(* _id_wait_list.  Then the thread goes on at l.                           *)
(***************************************************************************)
SetFailedThen(p, l) ==
  /\ cont' = [cont EXCEPT ![p] = l]
  /\ Goto(p, "setfailed")

SetFailed(p) ==
  /\ pc[p] = "setfailed"
  /\ failed' = TRUE
  /\ IF failed THEN Return(p) ELSE Goto(p, "onfailed") /\ UNCHANGED cont
  /\ UNCHANGED <<list, req, unwritten, isShutdown, fd, pipeline, flags, lo, hi, new>>

OnFailed(p) ==
  /\ pc[p] = "onfailed"
  /\ req' = [n \in Reqs |-> IF req[n].signal = "listed" THEN [req[n] EXCEPT !.signal = "error"] ELSE req[n]]
  /\ Return(p)
  /\ UNCHANGED <<list, unwritten, sock, pipeline, flags, lo, hi, new>>

\* The thread that reads finds the connection broken.
Break(p) ==
  /\ pc[p] = "idle" /\ ~failed
  /\ SetFailedThen(p, "idle")
  /\ UNCHANGED <<list, req, unwritten, sock, pipeline, flags, lo, hi, new>>

(***************************************************************************)
(* Requests: Setup and the ways they end.                                  *)
(***************************************************************************)
Upto(a, b) == [i \in 1..(b - a + 1) |-> a + i - 1]
InOrder(S) == SelectSeq(Upto(1, MaxReq), LAMBDA n : n \in S)

PipelinedNewestFirst(S) == SelectSeq([i \in Reqs |-> MaxReq + 1 - i], LAMBDA n : n \in S)
Pipelined(S) == InOrder(S)

\* Setup of requests S, oldest first: counts their bytes and pushes their
\* PipelinedInfo; a message that cannot be serialised is abandoned.
Setup(S) ==
  LET fresh == {n \in S : req[n].setup = "no"}
      good == {n \in fresh : ~Has(n, "bad")} IN
  /\ req' = [n \in Reqs |->
       CASE n \in good -> [req[n] EXCEPT !.setup = "done"]
         [] n \in fresh \ good ->
              [req[n] EXCEPT !.setup = "done", !.size = 0, !.signal = Signal(req[n], "error")]
         [] OTHER -> req[n]]
  /\ unwritten' = unwritten + Bytes(good)
  /\ pipeline' = pipeline \o Pipelined(good)

OutcomeUnchecked(n) == IF Has(n, "notify") THEN "ok" ELSE "listed"
\* NotifyOnFailed looks at Failed() under the mutex of _id_wait_list.
Outcome(n) == IF failed THEN "error" ELSE IF Has(n, "notify") THEN "ok" ELSE "listed"

ReturnSuccessful(n) ==
  req' = [req EXCEPT ![n].freed = TRUE, ![n].signal = Signal(req[n], Outcome(n))]

CancelledAlways(n) == req[n].size
\* A request that was not set up has not been counted.
Cancelled(n) == IF req[n].setup = "no" THEN 0 ELSE req[n].size

ReturnFailed(n) ==
  /\ unwritten' = unwritten - Cancelled(n)
  /\ req' = [req EXCEPT ![n].freed = TRUE, ![n].size = 0, ![n].signal = Signal(req[n], "error")]

(***************************************************************************)
(* Write and StartWrite.                                                   *)
(***************************************************************************)
\* A failed or overcrowded socket refuses the request.
Write(p) ==
  /\ pc[p] = "idle" /\ npush + Cardinality({q \in Writers : pc[q] = "push"}) < MaxReq
  /\ ~failed /\ unwritten < Limit
  /\ \E o \in Options : flags' = [flags EXCEPT ![p] = o]
  /\ Goto(p, "push")
  /\ UNCHANGED <<list, req, unwritten, sock, pipeline, lo, hi, new, cont>>

\* The exchange on _write_head; the right to write; the fast fail after a
\* shutdown.
Push(p) ==
  /\ pc[p] = "push"
  /\ npush' = npush + 1 /\ head' = npush'
  /\ req' = [req EXCEPT ![npush'] = [NoReq EXCEPT !.flags = flags[p], !.size = Length]]
  /\ lo' = [lo EXCEPT ![p] = npush'] /\ hi' = [hi EXCEPT ![p] = npush']
  /\ CASE head # Null ->
            Goto(p, "link") /\ UNCHANGED <<isShutdown, linked>>
       [] head = Null /\ isShutdown ->
            Goto(p, "fail") /\ linked' = linked \cup {npush'} /\ UNCHANGED isShutdown
       [] OTHER ->
            /\ linked' = linked \cup {npush'}
            /\ isShutdown' = ("shutdown" \in flags[p])
            /\ Goto(p, IF fd = "open" THEN "setup" ELSE "connect")
  /\ flags' = [flags EXCEPT ![p] = {}]
  /\ UNCHANGED <<unwritten, fd, failed, pipeline, new, cont>>

\* req->next = prev_head.
Link(p) ==
  /\ pc[p] = "link"
  /\ linked' = linked \cup {lo[p]}
  /\ NoList(p) /\ Goto(p, "idle")
  /\ UNCHANGED <<head, npush, req, unwritten, sock, pipeline, flags, new, cont>>

\* The list of p goes to a new bthread that starts at l.
Spawn(p, l) ==
  \E k \in Keepers :
    /\ pc[k] = "idle"
    /\ pc' = [pc EXCEPT ![p] = "idle", ![k] = l]
    /\ lo' = [lo EXCEPT ![p] = Null, ![k] = lo[p]] /\ hi' = [hi EXCEPT ![p] = Null, ![k] = hi[p]]

\* ConnectIfNot: fails at once, or leaves the request to KeepWriteIfConnected.
Connect(p) ==
  /\ pc[p] = "connect"
  /\ \/ SetFailedThen(p, "fail") /\ UNCHANGED <<lo, hi>>
     \/ Spawn(p, "connecting") /\ UNCHANGED cont
  /\ UNCHANGED <<list, req, unwritten, sock, pipeline, flags, new>>

\* AfterAppConnected.
Connected(p) ==
  /\ pc[p] = "connecting"
  /\ \/ fd' = "open" /\ Setup({lo[p]}) /\ Goto(p, "top") /\ UNCHANGED cont
     \/ SetFailedThen(p, "fail") /\ UNCHANGED <<fd, req, unwritten, pipeline>>
  /\ UNCHANGED <<list, isShutdown, failed, flags, lo, hi, new>>

\* Then write once, or leave it to KeepWrite (write_in_background).
StartSetup(p) ==
  /\ pc[p] = "setup"
  /\ Setup({lo[p]})
  /\ Goto(p, "once") \/ Goto(p, "spawn")
  /\ UNCHANGED <<list, sock, local>>

StartKeepWrite(p) ==
  /\ pc[p] = "spawn"
  /\ Spawn(p, "top")
  /\ UNCHANGED <<list, req, unwritten, sock, pipeline, flags, new, cont>>

(***************************************************************************)
(* Writing into the fd: any number of bytes is taken from the front.       *)
(***************************************************************************)
Taken(S, k, n) ==
  LET before == Bytes({m \in S : m < n}) IN
  IF n \notin S \/ k <= before THEN 0 ELSE Min({req[n].size, k - before})

Cut(S, k) ==
  /\ req' = [n \in Reqs |-> [req[n] EXCEPT !.size = @ - Taken(S, k, n), !.sent = @ + Taken(S, k, n)]]
  /\ unwritten' = unwritten - k

WriteOnce(p) ==
  /\ pc[p] = "once"
  /\ \/ \E k \in 0..req[lo[p]].size : Cut({lo[p]}, k) /\ Goto(p, "startcomplete") /\ UNCHANGED cont
     \/ SetFailedThen(p, "fail") /\ UNCHANGED <<req, unwritten>>
  /\ UNCHANGED <<list, sock, pipeline, flags, lo, hi, new>>

BatchPastShutdown(p) == {n \in lo[p]..hi[p] : n < lo[p] + DataListMax}
\* What DoWrite hands to the fd: it ends with a request that shuts down.
Batch(p) ==
  {n \in lo[p]..hi[p] : n < lo[p] + DataListMax /\ \A m \in lo[p]..(n - 1) : ~Has(m, "shutdown")}

ShutsDown(p) == \E n \in Batch(p) : Has(n, "shutdown")

DoWrite(p) ==
  /\ pc[p] = "write"
  /\ isShutdown' = (isShutdown \/ ShutsDown(p))
  /\ \/ \E k \in 0..Bytes(Batch(p)) :
          /\ Cut(Batch(p), k)
          /\ Goto(p, "release")
          /\ cont' = [cont EXCEPT ![p] = IF k = 0 THEN "wait" ELSE "complete"]
     \/ SetFailedThen(p, "fail") /\ UNCHANGED <<req, unwritten>>
  /\ UNCHANGED <<list, fd, failed, pipeline, flags, lo, hi, new>>

(***************************************************************************)
(* KeepWrite.                                                              *)
(***************************************************************************)
WrittenAny(p) == lo[p] < hi[p]
Written(p) == lo[p] < hi[p] /\ req[lo[p]].size = 0

\* Skip the request that was written, then write.
Top(p) ==
  /\ pc[p] = "top"
  /\ IF Written(p)
       THEN /\ ReturnSuccessful(lo[p])
            /\ lo' = [lo EXCEPT ![p] = @ + 1]
            /\ Goto(p, IF Has(lo[p], "shutdown") THEN "fail" ELSE "write")
       ELSE UNCHANGED <<req, lo>> /\ Goto(p, "write")
  /\ UNCHANGED <<list, unwritten, sock, pipeline, flags, hi, new, cont>>

\* Release written requests up to the last one or a shutdown.
Release(p) ==
  /\ pc[p] = "release"
  /\ IF Written(p)
       THEN /\ ReturnSuccessful(lo[p])
            /\ lo' = [lo EXCEPT ![p] = @ + 1]
            /\ Goto(p, IF Has(lo[p], "shutdown") THEN "fail" ELSE "release")
       ELSE UNCHANGED <<req, lo>> /\ Goto(p, cont[p])
  /\ cont' = [cont EXCEPT ![p] = IF pc'[p] = "release" THEN @ ELSE "idle"]
  /\ UNCHANGED <<list, unwritten, sock, pipeline, flags, hi, new>>

\* Until the fd is writable, for a limited time, or with an error.
WaitEpollOut(p) ==
  /\ pc[p] = "wait"
  /\ \/ Goto(p, "complete") /\ UNCHANGED cont
     \/ SetFailedThen(p, "fail")
  /\ UNCHANGED <<list, req, unwritten, sock, pipeline, flags, lo, hi, new>>

(***************************************************************************)
(* IsWriteComplete: the CAS of _write_head, from StartWrite, KeepWrite and *)
(* ReleaseAllFailedWriteRequests.                                          *)
(***************************************************************************)
\* The last request is written and is the only one left.
Complete(p) == req[hi[p]].size = 0 /\ lo[p] = hi[p]

DesiredNull(p) == Null
\* The value the CAS puts in place of old_head.
Desired(p) == IF Complete(p) THEN Null ELSE hi[p]

IsWriteComplete(p, at, done, more) ==
  /\ pc[p] = at
  /\ IF head = hi[p]
       THEN /\ head' = Desired(p)
            /\ Goto(p, IF Complete(p) THEN done ELSE more)
            /\ UNCHANGED <<new, cont>>
       ELSE /\ new' = [new EXCEPT ![p] = head] /\ cont' = [cont EXCEPT ![p] = more]
            /\ Goto(p, "reverse") /\ UNCHANGED head
  /\ UNCHANGED <<npush, linked, req, unwritten, sock, pipeline, flags, lo, hi>>

\* Reverse the requests added since, waiting for those not connected yet, and
\* set them up.
Reverse(p) ==
  /\ pc[p] = "reverse" /\ (hi[p] + 1)..new[p] \subseteq linked
  /\ Setup((hi[p] + 1)..new[p])
  /\ hi' = [hi EXCEPT ![p] = new[p]] /\ new' = [new EXCEPT ![p] = Null]
  /\ Return(p)
  /\ UNCHANGED <<list, sock, flags, lo>>

\* The list is complete and _write_head was set to null.
Done(p) ==
  /\ pc[p] = "done"
  /\ ReturnSuccessful(lo[p])
  /\ NoList(p) /\ Goto(p, "idle")
  /\ UNCHANGED <<list, unwritten, sock, pipeline, flags, new, cont>>

(***************************************************************************)
(* ReleaseAllFailedWriteRequests.                                          *)
(***************************************************************************)
Fail(p) ==
  /\ pc[p] = "fail" /\ lo[p] < hi[p]
  /\ ReturnFailed(lo[p])
  /\ lo' = [lo EXCEPT ![p] = @ + 1]
  /\ UNCHANGED <<list, sock, pipeline, pc, flags, hi, new, cont>>

\* The last request stays until _write_head can be set to null.
FailLast(p) ==
  /\ pc[p] = "fail" /\ lo[p] = hi[p]
  /\ unwritten' = unwritten - Cancelled(lo[p])
  /\ req' = [req EXCEPT ![lo[p]].size = 0, ![lo[p]].setup = "done"]
  /\ Goto(p, "failcomplete")
  /\ UNCHANGED <<list, sock, pipeline, local>>

FailDone(p) ==
  /\ pc[p] = "faildone"
  /\ ReturnFailed(lo[p])
  /\ NoList(p) /\ Goto(p, "idle")
  /\ UNCHANGED <<list, sock, pipeline, flags, new, cont>>

-----------------------------------------------------------------------------
\* What a thread goes on to do once it is inside a function.
Progress(p) ==
  \/ Push(p) \/ Link(p) \/ Connect(p) \/ Connected(p) \/ StartSetup(p) \/ WriteOnce(p)
  \/ StartKeepWrite(p) \/ Top(p) \/ DoWrite(p) \/ Release(p) \/ WaitEpollOut(p)
  \/ IsWriteComplete(p, "startcomplete", "done", "spawn")
  \/ IsWriteComplete(p, "complete", "done", "top")
  \/ IsWriteComplete(p, "failcomplete", "faildone", "fail")
  \/ Reverse(p) \/ Done(p) \/ Fail(p) \/ FailLast(p) \/ FailDone(p)
  \/ SetFailed(p) \/ OnFailed(p)

Next ==
  \/ \E p \in Writers : Write(p)
  \/ \E p \in Readers : Break(p)
  \/ \E p \in Procs : Progress(p)

Spec == Init /\ [][Next]_vars

-----------------------------------------------------------------------------
WriterPcs == {"connect", "connecting", "setup", "once", "startcomplete", "spawn", "top", "write",
              "release", "wait", "complete", "reverse", "fail", "failcomplete"}
PcValues == WriterPcs \cup {"idle", "push", "link", "done", "faildone", "setfailed", "onfailed"}
Pushed == 1..npush
Holder(p) == pc[p] \in WriterPcs \/ (pc[p] \in {"setfailed", "onfailed"} /\ cont[p] = "fail")

\* State of the socket, the requests and the threads.
TypeOK ==
  /\ head \in 0..MaxReq /\ npush \in 0..MaxReq /\ linked \subseteq Pushed
  /\ req \in [Reqs -> [flags : Options \cup {{}}, size : 0..Length, sent : 0..Length,
                       setup : {"no", "done"}, signal : {"none", "listed", "ok", "error"},
                       freed : BOOLEAN]]
  /\ unwritten \in 0..(MaxReq * Length)
  /\ isShutdown \in BOOLEAN /\ fd \in {"none", "open"} /\ failed \in BOOLEAN
  /\ pipeline \in Seq(Reqs)
  /\ pc \in [Procs -> PcValues] /\ flags \in [Procs -> Options \cup {{}}]
  /\ lo \in [Procs -> 0..MaxReq] /\ hi \in [Procs -> 0..MaxReq] /\ new \in [Procs -> 0..MaxReq]
  /\ cont \in [Procs -> PcValues]

\* "the internal file descriptor is written by one thread at any time", and
\* somebody has the right to write exactly while _write_head is not null.
OneWriter ==
  /\ Cardinality({p \in Procs : Holder(p)}) <= 1
  /\ head # Null <=> \E p \in Procs : Holder(p)

\* Messages do not interleave: until the socket fails, a byte of a request follows
\* all bytes of the requests before it, except those abandoned in Setup.
Abandoned(n) == Has(n, "bad")
MessagesIntact == ~failed => \A m, n \in Pushed :
  m < n /\ req[n].sent > 0 => req[m].sent = Length \/ Abandoned(m)

\* Responses find their request: PipelinedInfos are in the order of the
\* requests on the wire, and one is there before the first byte is sent.
PipelineMatchesWire ==
  /\ \A i, j \in 1..Len(pipeline) : i < j => pipeline[i] < pipeline[j]
  /\ \A n \in Pushed : req[n].sent > 0 => \E i \in 1..Len(pipeline) : pipeline[i] = n

\* _unwritten_bytes counts the bytes that are set up and neither written nor
\* given up: it comes back to 0, and never refuses writes to an idle socket.
UnwrittenExact == unwritten = Bytes({n \in Pushed : req[n].setup = "done"})

\* Once a request that shuts the write side down is written, nothing follows it.
NothingAfterShutdown == \A m, n \in Pushed :
  m < n /\ Has(m, "shutdown") /\ req[m].sent = Length => req[n].sent = 0

\* An id is never left behind: when no thread has a step to take, every request
\* was returned and its id signalled, or put on the list that SetFailed signals
\* when the socket is still good.
NoIdLeft == (\A p \in Procs : pc[p] = "idle") =>
  /\ head = Null
  /\ \A n \in Pushed : req[n].freed /\ req[n].signal # "none" /\ (failed => req[n].signal # "listed")
=============================================================================
