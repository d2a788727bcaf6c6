---------------------------- MODULE VersionedRef ----------------------------
(***************************************************************************)
(* brpc::VersionedRefWithId, the reference-counted handle of sockets and   *)
(* event data, on one slot of the resource pool, together with the two     *)
(* parties that decide a socket's life besides its users: the owner        *)
(* (SocketMap or ChannelBalancer) that creates and removes it, and the     *)
(* health checkers that revive it.                                         *)
(*                                                                         *)
(* _versioned_ref is the pair <<ver, nref>>; each of its fetch_add,        *)
(* fetch_sub and compare_exchange is one step.  An id is the version of    *)
(* the object it was made for: 0, 2, 4, ... on the slot.  A failed CAS in  *)
(* a retry loop re-reads the word, so the loop is one step on its current  *)
(* value.  The 32-bit wraparound of versions is left out.                  *)
(***************************************************************************)
EXTENDS Integers, FiniteSets

CONSTANTS Users,        \* threads that address the object
          Checkers,     \* health-check tasks that can be pending at a time
          Owner,        \* the SocketMap entry (or ChannelBalancer)
          MaxId         \* bound: the last id created on the slot

ASSUME MaxIdAssumption == MaxId \in Nat
ASSUME FiniteAssumption == IsFiniteSet(Users) /\ IsFiniteSet(Checkers)
ASSUME RolesAssumption == Owner \notin Users \cup Checkers /\ Users \cap Checkers = {}

VARIABLES ver, nref,    \* _versioned_ref
          thisId,       \* _this_id
          status,       \* _additional_ref_status
          hcHeld,       \* _is_hc_related_ref_held
          free,         \* the slot is in the resource pool
          pc, lid,      \* where each thread is, the id it works on
          lver,         \* version read by its last fetch_add or fetch_sub
          perm,         \* argument of its ReleaseAdditionalReferenceImpl
          first,        \* HealthCheckTask::_first_time
          recycles      \* how often BeforeRecycled() ran for each id

vref == <<ver, nref>>
thread == <<pc, lid, lver, perm, first>>
vars == <<ver, nref, thisId, status, hcHeld, free, thread, recycles>>

Procs == Users \cup Checkers \cup {Owner}
Ids == {v \in 0..MaxId : v % 2 = 0}
AtLeast == 2            \* the expected_nref of health_check.cpp

\* The slot was used before: id 0 is stale and still known to its users.
Init ==
  /\ ver = 2 /\ nref = 0 /\ thisId = 0
  /\ status = "released" /\ hcHeld = FALSE /\ free = TRUE
  /\ pc = [p \in Procs |-> "idle"]
  /\ lid = [p \in Procs |-> 0]
  /\ lver = [p \in Procs |-> 0]
  /\ perm = [p \in Procs |-> FALSE]
  /\ first = [p \in Procs |-> FALSE]
  /\ recycles = [i \in Ids |-> IF i = 0 THEN 1 ELSE 0]

Goto(p, l) == pc' = [pc EXCEPT ![p] = l]

(***************************************************************************)
(* Address and Dereference.                                                *)
(***************************************************************************)
\* fetch_add of AddressImpl by p: `ok' when the version matches, `failed'
\* when it is that of the failed object and failed_as_well.
AddressImpl(p, id, failedAsWell, ok, failed) ==
  /\ nref' = nref + 1
  /\ lver' = [lver EXCEPT ![p] = ver]
  /\ lid' = [lid EXCEPT ![p] = id]
  /\ Goto(p, IF ver = id THEN ok
             ELSE IF failedAsWell /\ ver = id + 1 THEN failed
             ELSE "unref")

Address(u, failedAsWell) ==
  /\ pc[u] = "idle"
  /\ \E id \in Ids : id <= thisId /\ AddressImpl(u, id, failedAsWell, "using", "using")
  /\ UNCHANGED <<ver, thisId, status, hcHeld, free, perm, first, recycles>>

UnrefNoRecycle(p) ==
  /\ pc[p] = "unref"
  /\ nref' = nref - 1
  /\ lver' = [lver EXCEPT ![p] = ver]
  /\ Goto(p, "idle")
  /\ UNCHANGED <<ver, thisId, status, hcHeld, free, lid, perm, first, recycles>>

\* fetch_sub after a version mismatch.
Unref(p) ==
  /\ pc[p] = "unref"
  /\ nref' = nref - 1
  /\ lver' = [lver EXCEPT ![p] = ver]
  /\ Goto(p, CASE nref > 1 -> "idle"
               [] nref = 1 /\ ver % 2 = 0 -> "idle"       \* a free slot
               [] nref = 1 /\ ver % 2 = 1 /\ ver \in {lver[p], lver[p] + 1} -> "cas"
               [] OTHER -> "fatal")
  /\ UNCHANGED <<ver, thisId, status, hcHeld, free, lid, perm, first, recycles>>

\* The CAS of AddressImpl and of Dereference: one of those who saw nref drop
\* from 1 to 0 recycles the object.
RecycleAlways(p) ==
  /\ pc[p] = "cas"
  /\ ver' = (ver \div 2 + 1) * 2
  /\ Goto(p, "recycle")
  /\ UNCHANGED <<nref, thisId, status, hcHeld, free, lid, lver, perm, first, recycles>>

RecycleCas(p) ==
  /\ pc[p] = "cas"
  /\ IF vref = <<lver[p], 0>>
       THEN ver' = (ver \div 2 + 1) * 2 /\ Goto(p, "recycle")
       ELSE UNCHANGED ver /\ Goto(p, "idle")
  /\ UNCHANGED <<nref, thisId, status, hcHeld, free, lid, lver, perm, first, recycles>>

\* BeforeRecycled() and return_resource().
Recycle(p) ==
  /\ pc[p] = "recycle"
  /\ recycles' = [recycles EXCEPT ![thisId] = @ + 1]
  /\ free' = TRUE
  /\ Goto(p, "idle")
  /\ UNCHANGED <<ver, nref, thisId, status, hcHeld, lid, lver, perm, first>>

\* fetch_sub of Dereference by p, which goes on to `next' unless it must try to
\* recycle the object.
Dereference(p, next) ==
  /\ nref' = nref - 1
  /\ lver' = [lver EXCEPT ![p] = ver]
  /\ Goto(p, CASE nref > 1 -> next
               [] nref = 1 /\ ver \in {thisId, thisId + 1} -> "cas"
               [] OTHER -> "fatal")

\* The destructor of a VersionedRefWithIdUniquePtr.
Drop(p) ==
  /\ pc[p] \in {"using", "hcDrop", "hcAgain"}
  /\ Dereference(p, IF pc[p] = "hcAgain" THEN "hcAddress" ELSE "idle")
  /\ UNCHANGED <<ver, thisId, status, hcHeld, free, lid, perm, first, recycles>>

\* u hands a reference of its own to v.
ReAddress(u, v) ==
  /\ pc[u] = "using" /\ pc[v] = "idle"
  /\ nref' = nref + 1
  /\ lid' = [lid EXCEPT ![v] = lid[u]]
  /\ Goto(v, "using")
  /\ UNCHANGED <<ver, thisId, status, hcHeld, free, lver, perm, first, recycles>>

(***************************************************************************)
(* The additional reference.                                               *)
(***************************************************************************)
\* SetFailed up to Socket::OnFailed, which starts a health check.
SetFailed(u) ==
  /\ pc[u] = "using"
  /\ ver = thisId
  /\ ver' = thisId + 1
  /\ perm' = [perm EXCEPT ![u] = FALSE]
  /\ IF hcHeld
       THEN \E c \in Checkers :
              /\ pc[c] = "idle"
              /\ pc' = [pc EXCEPT ![u] = "release", ![c] = "hcAddress"]
              /\ lid' = [lid EXCEPT ![c] = thisId]
              /\ first' = [first EXCEPT ![c] = TRUE]
       ELSE Goto(u, "release") /\ UNCHANGED <<lid, first>>
  /\ UNCHANGED <<nref, thisId, status, hcHeld, free, lver, recycles>>

ReleaseAdditionalReference(u) ==
  /\ pc[u] = "using"
  /\ perm' = [perm EXCEPT ![u] = TRUE]
  /\ Goto(u, "release")
  /\ UNCHANGED <<ver, nref, thisId, status, hcHeld, free, lid, lver, first, recycles>>

Released(p) == IF p = Owner THEN "unhold" ELSE "using"

\* The loop of ReleaseAdditionalReferenceImpl; it spins while `reviving'.
ReleaseWhileReviving(p) ==
  /\ pc[p] = "release"
  /\ status' = IF perm[p] \/ status \in {"using", "reviving"}
                 THEN IF perm[p] THEN "released" ELSE "releasedOnFailure"
                 ELSE status
  /\ Goto(p, IF status \in {"using", "reviving"} THEN "dropAdditional" ELSE Released(p))
  /\ UNCHANGED <<ver, nref, thisId, hcHeld, free, lid, lver, perm, first, recycles>>

ReleaseImpl(p) ==
  /\ pc[p] = "release"
  /\ status # "reviving"
  /\ status' = CASE perm[p] -> "released"
                 [] ~perm[p] /\ status = "using" -> "releasedOnFailure"
                 [] OTHER -> status
  /\ Goto(p, IF status = "using" THEN "dropAdditional" ELSE Released(p))
  /\ UNCHANGED <<ver, nref, thisId, hcHeld, free, lid, lver, perm, first, recycles>>

DropAdditional(p) ==
  /\ pc[p] = "dropAdditional"
  /\ Dereference(p, Released(p))
  /\ UNCHANGED <<ver, thisId, status, hcHeld, free, lid, perm, first, recycles>>

(***************************************************************************)
(* The owner.                                                              *)
(***************************************************************************)
\* Create(), with the reference of Socket::HoldHCRelatedRef.
Create ==
  /\ pc[Owner] = "idle"
  /\ free /\ ver <= MaxId
  /\ nref' = nref + 2
  /\ thisId' = ver
  /\ status' = "using" /\ hcHeld' = TRUE /\ free' = FALSE
  /\ lid' = [lid EXCEPT ![Owner] = ver]
  /\ Goto(Owner, "owning")
  /\ UNCHANGED <<ver, lver, perm, first, recycles>>

\* SocketMap::RemoveInternal of the last user of the entry.
Remove ==
  /\ pc[Owner] = "owning"
  /\ perm' = [perm EXCEPT ![Owner] = TRUE]
  /\ Goto(Owner, "release")
  /\ UNCHANGED <<ver, nref, thisId, status, hcHeld, free, lid, lver, first, recycles>>

Unhold ==
  /\ pc[Owner] = "unhold"
  /\ hcHeld' = FALSE
  /\ Goto(Owner, "dropHC")
  /\ UNCHANGED <<ver, nref, thisId, status, free, lid, lver, perm, first, recycles>>

DropHC ==
  /\ pc[Owner] = "dropHC"
  /\ Dereference(Owner, "idle")
  /\ UNCHANGED <<ver, thisId, status, hcHeld, free, lid, perm, first, recycles>>

(***************************************************************************)
(* HealthCheckTask::OnTriggeringTask.                                      *)
(***************************************************************************)
HCAddress(c) ==
  /\ pc[c] = "hcAddress"
  /\ AddressImpl(c, lid[c], TRUE, "fatal", IF first[c] THEN "hcWait" ELSE "hcCheck")
  /\ UNCHANGED <<ver, thisId, status, hcHeld, free, perm, first, recycles>>

\* Socket::WaitAndReset; it sleeps while there are more references.
WaitAndReset(c) ==
  /\ pc[c] = "hcWait"
  /\ ver = lid[c] + 1 => nref <= AtLeast
  /\ first' = [first EXCEPT ![c] = FALSE]
  /\ Goto(c, IF ver = lid[c] + 1 /\ nref = AtLeast /\ hcHeld THEN "hcCheck" ELSE "hcDrop")
  /\ UNCHANGED <<ver, nref, thisId, status, hcHeld, free, lid, lver, perm, recycles>>

\* CheckHealth: healthy, cancelled (ESTOP), or to be tried again later.
CheckHealth(c) ==
  /\ pc[c] = "hcCheck"
  /\ \E next \in {"revive", "hcDrop", "hcAgain"} : Goto(c, next)
  /\ UNCHANGED <<ver, nref, thisId, status, hcHeld, free, lid, lver, perm, first, recycles>>

ReviveReleased(c) ==
  /\ pc[c] = "revive"
  /\ status' = "reviving"
  /\ Goto(c, "revive2")
  /\ UNCHANGED <<ver, nref, thisId, hcHeld, free, lid, lver, perm, first, recycles>>

Revive(c) ==
  /\ pc[c] = "revive"
  /\ IF status = "releasedOnFailure"
       THEN status' = "reviving" /\ Goto(c, "revive2")
       ELSE UNCHANGED status /\ Goto(c, IF status = "released" THEN "hcDrop" ELSE "fatal")
  /\ UNCHANGED <<ver, nref, thisId, hcHeld, free, lid, lver, perm, first, recycles>>

ReviveNoAdditional(c) ==
  /\ pc[c] = "revive2"
  /\ nref >= AtLeast
  /\ ver' = thisId
  /\ Goto(c, "revive3")
  /\ UNCHANGED <<nref, status, thisId, hcHeld, free, lid, lver, perm, first, recycles>>

ReviveVersion(c) ==
  /\ pc[c] = "revive2"
  /\ IF nref < AtLeast \/ ver # thisId + 1
       THEN /\ status' = "releasedOnFailure"
            /\ Goto(c, IF nref = 1 /\ ver = thisId + 1 THEN "hcDrop" ELSE "fatal")
            /\ UNCHANGED vref
       ELSE /\ ver' = thisId
            /\ nref' = nref + 1
            /\ Goto(c, "revive3")
            /\ UNCHANGED status
  /\ UNCHANGED <<thisId, hcHeld, free, lid, lver, perm, first, recycles>>

ReviveDone(c) ==
  /\ pc[c] = "revive3"
  /\ status' = "using"
  /\ Goto(c, "hcDrop")
  /\ UNCHANGED <<ver, nref, thisId, hcHeld, free, lid, lver, perm, first, recycles>>

----------------------------------------------------------------------------
User(u) ==
  \/ \E f \in BOOLEAN : Address(u, f)
  \/ SetFailed(u)
  \/ ReleaseAdditionalReference(u)
  \/ \E v \in Users : ReAddress(u, v)

\* The rest of an operation once it has begun.
Finish(p) == Unref(p) \/ RecycleCas(p) \/ Recycle(p) \/ Drop(p) \/ ReleaseImpl(p) \/ DropAdditional(p)

Check(c) ==
  HCAddress(c) \/ WaitAndReset(c) \/ CheckHealth(c) \/ Revive(c) \/ ReviveVersion(c) \/ ReviveDone(c)

Next ==
  \/ Create \/ Remove \/ Unhold \/ DropHC
  \/ \E u \in Users : User(u)
  \/ \E c \in Checkers : Check(c)
  \/ \E p \in Procs : Finish(p)

Spec == Init /\ [][Next]_vars

----------------------------------------------------------------------------
Pcs == {"idle", "using", "unref", "cas", "recycle", "release", "dropAdditional", "fatal",
        "owning", "unhold", "dropHC", "hcAddress", "hcWait", "hcCheck", "hcDrop", "hcAgain",
        "revive", "revive2", "revive3"}

TypeOK ==
  /\ ver \in Nat /\ nref \in Nat /\ thisId \in Ids
  /\ status \in {"using", "reviving", "releasedOnFailure", "released"}
  /\ hcHeld \in BOOLEAN /\ free \in BOOLEAN
  /\ pc \in [Procs -> Pcs]
  /\ lid \in [Procs -> Ids]
  /\ lver \in [Procs -> Nat]
  /\ perm \in [Procs -> BOOLEAN] /\ first \in [Procs -> BOOLEAN]
  /\ recycles \in [Ids -> Nat]

\* No LOG(FATAL) and no failing CHECK of versioned_ref_with_id.h and
\* health_check.cpp is reached: nothing is dereferenced below zero, versions
\* only change the way AddressImpl and Revive expect, and a health check never
\* finds its socket alive.
NoFatal == \A p \in Procs : pc[p] # "fatal"

\* Who counts in nref.
Refs == {p \in Procs : pc[p] \in {"using", "unref", "release", "dropAdditional", "owning", "unhold",
                                  "dropHC", "hcWait", "hcCheck", "hcDrop", "hcAgain", "revive",
                                  "revive2", "revive3"}}
\* The additional reference is counted from Create or Revive until the thread
\* that took it over dereferences it.
Additional ==
  Cardinality({p \in Procs : pc[p] = "dropAdditional"})
  + (IF ~free /\ (status = "using" \/ \E c \in Checkers : pc[c] = "revive3") THEN 1 ELSE 0)

\* An object is recycled only when nobody holds a reference, and a reference,
\* once obtained by Address, keeps that very object out of the pool: no thread
\* uses a slot that is being recycled or was reused for another id.
NoUseAfterRecycle ==
  \A p \in Refs : pc[p] # "unref" => lid[p] = thisId /\ ver \in {thisId, thisId + 1} /\ ~free

\* BeforeRecycled() runs once for an object, whichever of Dereference and the
\* wait-free Address sees the last reference go: never twice, and a failed object
\* that nobody references is in the hands of a thread that is about to recycle it.
RecycledOnce ==
  /\ \A i \in Ids : recycles[i] <= 1
  /\ ~free /\ nref = 0 /\ ver = thisId + 1 => \E p \in Procs : pc[p] = "cas" /\ lver[p] = ver

\* nref is exactly the number of references that exist, the transient ones of
\* mismatched Address calls and the additional one included.
RefsCounted == nref = Cardinality(Refs) + (IF free THEN 0 ELSE Additional)

\* Once the owner has removed the object (ReleaseAdditionalReference returned)
\* no health check makes it addressable again.
RemovedStaysFailed ==
  [][pc[Owner] \in {"unhold", "dropHC"} /\ ver = thisId + 1 => ver' # thisId]_vars

\* What versioned_ref_with_id.h:302-304 and 617-619 say: an object whose
\* additional reference was released is recycled once no one addresses it, so
\* with nref at 0 some thread is about to recycle it.
ReleasedObjectRecycled ==
  ~free /\ nref = 0 => \E p \in Procs : pc[p] \in {"cas", "recycle"}
=============================================================================
