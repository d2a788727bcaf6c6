------------------------- MODULE VersionedRefProofs -------------------------
(***************************************************************************)
(* The life of an object behind a versioned id, for every number of users, *)
(* health checkers and reuses of the slot: its references are counted,     *)
(* nobody uses it once it is recycled, it is recycled once, no CHECK fails *)
(* and its removal is final.                                               *)
(***************************************************************************)
EXTENDS VersionedRef, FiniteSetTheorems, TLAPS

RefPcs == {"using", "unref", "release", "dropAdditional", "owning", "unhold", "dropHC", "hcWait",
           "hcCheck", "hcDrop", "hcAgain", "revive", "revive2", "revive3"}
Count(f, L) == Cardinality({p \in Procs : f[p] \in L})

\* Who may be where: nobody is at a CHECK that failed.
RoleInv ==
  /\ \A u \in Users : pc[u] \in {"idle", "using", "unref", "cas", "recycle", "release", "dropAdditional"}
  /\ \A c \in Checkers : pc[c] \in {"idle", "unref", "cas", "recycle", "hcAddress", "hcWait", "hcCheck",
                                    "hcDrop", "hcAgain", "revive", "revive2", "revive3"}
  /\ pc[Owner] \in {"idle", "owning", "release", "dropAdditional", "unhold", "dropHC", "cas", "recycle"}

\* The version of the slot is that of its object, of its failed object, or the
\* next one once the object is recycled.
VersionInv ==
  /\ ver \in {thisId, thisId + 1, thisId + 2}
  /\ free => ver = thisId + 2
  /\ ver = thisId + 2 => status # "using"
  /\ \A p \in Procs : lid[p] <= thisId
  /\ \A p \in Procs : pc[p] = "recycle" => ver = thisId + 2 /\ ~free
  /\ \A p, q \in Procs : pc[p] = "recycle" /\ pc[q] = "recycle" => p = q
  /\ \A p \in Procs : pc[p] = "cas" => lver[p] <= thisId + 1

\* A reference keeps the object, the transient one of a mismatch included.
RefInv ==
  \A p \in Procs :
    /\ pc[p] \in RefPcs \ {"unref"} => lid[p] = thisId /\ ver # thisId + 2
    /\ pc[p] = "unref" => \/ lver[p] = thisId + 2 /\ ver = thisId + 2
                          \/ lver[p] \in {thisId, thisId + 1} /\ ver # thisId + 2

\* The additional reference, while no thread has taken it over.
Extra == IF status = "using" \/ \E c \in Checkers : pc[c] = "revive3" THEN 1 ELSE 0
CountInv == nref = Count(pc, RefPcs) + (IF free THEN 0 ELSE Count(pc, {"dropAdditional"}) + Extra)

\* The owner's reference is the one that health checks rely on.
OwnerInv ==
  /\ hcHeld <=> pc[Owner] \in {"owning", "release", "dropAdditional", "unhold"}
  /\ pc[Owner] = "release" => perm[Owner]
  /\ pc[Owner] \in {"dropAdditional", "unhold", "dropHC"} => status = "released"

\* A health check of the current object.
Active(c) == lid[c] = thisId /\ pc[c] \in {"hcAddress", "hcWait", "hcCheck", "hcAgain", "revive", "revive2"}
\* It has seen all other references but the owner's go.
Waited(c) ==
  /\ lid[c] = thisId
  /\ pc[c] \in {"hcCheck", "hcAgain", "revive"} \/ (pc[c] = "hcAddress" /\ ~first[c])
Reviving(c) == pc[c] \in {"revive2", "revive3"}

\* There is one health check for a failed object and none for a living one, and
\* when it revives the object its additional reference was released.
CheckInv ==
  /\ \A c \in Checkers : Active(c) => ver # thisId
  /\ \A c, d \in Checkers : Active(c) /\ Active(d) => c = d
  /\ \A c \in Checkers : Waited(c) => status \in {"releasedOnFailure", "released"}
  /\ \A c \in Checkers : Reviving(c) => status = "reviving"
  /\ \A c, d \in Checkers : Reviving(c) /\ Reviving(d) => c = d
  /\ status = "reviving" => \E c \in Checkers : Reviving(c)

RecycleInv ==
  /\ \A i \in Ids : recycles[i] <= IF i < thisId \/ (i = thisId /\ free) THEN 1 ELSE 0
  /\ ~free /\ nref = 0 /\ ver = thisId + 1 => \E p \in Procs : pc[p] = "cas" /\ lver[p] = ver

IInv ==
  /\ TypeOK /\ RoleInv /\ VersionInv /\ RefInv /\ CountInv /\ OwnerInv /\ CheckInv /\ RecycleInv

-----------------------------------------------------------------------------
\* Threads are finitely many.
LEMMA ProcsFinite == IsFiniteSet(Procs)
BY FiniteAssumption, FS_Union, FS_Singleton, Zenon DEF Procs

\* Counts are numbers, and a thread that counts makes them positive.
LEMMA CountNat ==
  ASSUME NEW f, NEW L
  PROVE  Count(f, L) \in Nat /\ \A p \in Procs : f[p] \in L => Count(f, L) >= 1
<1> DEFINE S == {p \in Procs : f[p] \in L}
<1>1. IsFiniteSet(S)
  BY ProcsFinite, FS_Subset
<1>2. Cardinality(S) \in Nat /\ (Cardinality(S) = 0 <=> S = {})
  BY <1>1, FS_CardinalityType, FS_EmptySet
<1> QED BY <1>2 DEF Count

\* How a count changes when one thread moves.
LEMMA CountMove ==
  ASSUME NEW f, f = [q \in Procs |-> f[q]], NEW p \in Procs, NEW l, NEW L
  PROVE  Count([f EXCEPT ![p] = l], L) =
           Count(f, L) - (IF f[p] \in L THEN 1 ELSE 0) + (IF l \in L THEN 1 ELSE 0)
<1> DEFINE S == {q \in Procs \ {p} : f[q] \in L}
           g == [f EXCEPT ![p] = l]
<1>1. IsFiniteSet(S) /\ Cardinality(S) \in Nat /\ p \notin S
  BY ProcsFinite, FS_Subset, FS_CardinalityType
<1>2. Cardinality(S \cup {p}) = Cardinality(S) + 1
  BY <1>1, FS_AddElement
<1>3. {q \in Procs : f[q] \in L} = IF f[p] \in L THEN S \cup {p} ELSE S
  OBVIOUS
<1>4. {q \in Procs : g[q] \in L} = IF l \in L THEN S \cup {p} ELSE S
  OBVIOUS
<1> HIDE DEF S
<1>5. Count(f, L) = Cardinality(S) + IF f[p] \in L THEN 1 ELSE 0
  <2>1. CASE f[p] \in L
    BY <1>2, <1>3, <2>1 DEF Count
  <2>2. CASE f[p] \notin L
    <3>1. {q \in Procs : f[q] \in L} = S
      BY <1>3, <2>2
    <3>2. Count(f, L) = Cardinality(S)
      BY <3>1 DEF Count
    <3> QED BY <1>1, <2>2, <3>2
  <2> QED BY <2>1, <2>2
<1>6. Count(g, L) = Cardinality(S) + IF l \in L THEN 1 ELSE 0
  BY <1>1, <1>2, <1>4 DEF Count
<1> QED BY <1>1, <1>5, <1>6

\* The two counts of CountInv after p has moved to l.
Moved(p, l) ==
  /\ Count(pc, RefPcs) \in Nat /\ Count(pc, {"dropAdditional"}) \in Nat
  /\ Count(pc', RefPcs) =
       Count(pc, RefPcs) - (IF pc[p] \in RefPcs THEN 1 ELSE 0) + (IF l \in RefPcs THEN 1 ELSE 0)
  /\ Count(pc', {"dropAdditional"}) =
       Count(pc, {"dropAdditional"}) - (IF pc[p] = "dropAdditional" THEN 1 ELSE 0)
                                     + (IF l = "dropAdditional" THEN 1 ELSE 0)

\* CountMove for a step of one thread.
LEMMA MoveCounts ==
  ASSUME TypeOK, NEW p \in Procs, NEW l, pc' = [pc EXCEPT ![p] = l]
  PROVE  Moved(p, l)
<1>1. pc = [q \in Procs |-> pc[q]]
  BY DEF TypeOK
<1>2. Count(pc, RefPcs) \in Nat /\ Count(pc, {"dropAdditional"}) \in Nat
  BY CountNat
<1>3. Count(pc', RefPcs) =
        Count(pc, RefPcs) - (IF pc[p] \in RefPcs THEN 1 ELSE 0) + (IF l \in RefPcs THEN 1 ELSE 0)
  BY <1>1, CountMove
<1>4. Count(pc', {"dropAdditional"}) =
        Count(pc, {"dropAdditional"}) - (IF pc[p] \in {"dropAdditional"} THEN 1 ELSE 0)
                                      + (IF l \in {"dropAdditional"} THEN 1 ELSE 0)
  BY <1>1, CountMove
<1> QED BY <1>2, <1>3, <1>4 DEF Moved

\* SetFailed moves two threads, and the counts stay.
LEMMA StartCounts ==
  ASSUME TypeOK, NEW p \in Procs, NEW q \in Procs, pc[p] = "using", pc[q] = "idle",
         pc' = [pc EXCEPT ![p] = "release", ![q] = "hcAddress"]
  PROVE  /\ Count(pc', RefPcs) = Count(pc, RefPcs)
         /\ Count(pc', {"dropAdditional"}) = Count(pc, {"dropAdditional"})
<1>1. {r \in Procs : pc'[r] \in RefPcs} = {r \in Procs : pc[r] \in RefPcs}
  BY DEF TypeOK, RefPcs
<1>2. {r \in Procs : pc'[r] \in {"dropAdditional"}} = {r \in Procs : pc[r] \in {"dropAdditional"}}
  BY DEF TypeOK
<1> QED BY <1>1, <1>2, Zenon DEF Count

\* A reference is counted, and so is the additional one.
LEMMA Counted ==
  ASSUME IInv
  PROVE  /\ \A p \in Procs : pc[p] \in RefPcs => nref >= 1
         /\ \A p \in Procs : pc[p] = "dropAdditional" => nref >= 2
         /\ nref = 0 /\ ~free => Extra = 0
<1>1. Count(pc, RefPcs) \in Nat /\ \A p \in Procs : pc[p] \in RefPcs => Count(pc, RefPcs) >= 1
  BY CountNat
<1>2. /\ Count(pc, {"dropAdditional"}) \in Nat
      /\ \A p \in Procs : pc[p] \in {"dropAdditional"} => Count(pc, {"dropAdditional"}) >= 1
  BY CountNat
<1>3. \A p \in Procs : pc[p] = "dropAdditional" => ~free /\ pc[p] \in RefPcs
  BY DEF IInv, RefInv, VersionInv, RefPcs
<1> QED BY <1>1, <1>2, <1>3 DEF IInv, CountInv, Extra

\* What WaitAndReset waits for: besides the checker and the owner nobody has a
\* reference, and the additional one is gone.
LEMMA OnlyTwo ==
  ASSUME IInv, NEW c \in Checkers, pc[c] \in RefPcs \ {"unref"}, pc[Owner] \in RefPcs, nref = 2
  PROVE  Extra = 0 /\ \A q \in Procs \ {c, Owner} : pc[q] \notin RefPcs
<1> DEFINE g == [pc EXCEPT ![c] = "idle"]
           h == [g EXCEPT ![Owner] = "idle"]
<1>1. c \in Procs /\ Owner \in Procs /\ c # Owner /\ "idle" \notin RefPcs
  BY RolesAssumption DEF Procs, RefPcs
<1>2. pc = [q \in Procs |-> pc[q]] /\ g = [q \in Procs |-> g[q]] /\ g[Owner] = pc[Owner]
  BY <1>1, Zenon DEF IInv, TypeOK
<1>3. Count(g, RefPcs) = Count(pc, RefPcs) - 1
  <2>1. Count(pc, RefPcs) \in Nat
    BY CountNat
  <2>2. Count(g, RefPcs) =
          Count(pc, RefPcs) - (IF pc[c] \in RefPcs THEN 1 ELSE 0) + (IF "idle" \in RefPcs THEN 1 ELSE 0)
    BY <1>1, <1>2, CountMove
  <2> QED BY <2>1, <2>2, <1>1
<1>4. Count(h, RefPcs) = Count(g, RefPcs) - 1
  <2>1. Count(g, RefPcs) \in Nat
    BY CountNat
  <2> HIDE DEF g
  <2>2. Count(h, RefPcs) =
          Count(g, RefPcs) - (IF g[Owner] \in RefPcs THEN 1 ELSE 0) + (IF "idle" \in RefPcs THEN 1 ELSE 0)
    BY <1>1, <1>2, CountMove
  <2> QED BY <2>1, <2>2, <1>1, <1>2
<1>5. Count(h, RefPcs) \in Nat /\ \A q \in Procs : h[q] \in RefPcs => Count(h, RefPcs) >= 1
  BY CountNat, Zenon
<1>6. Count(pc, RefPcs) \in Nat /\ Count(pc, {"dropAdditional"}) \in Nat
  BY CountNat
<1>7. ~free
  BY <1>1 DEF IInv, RefInv, VersionInv
<1>8. Count(h, RefPcs) = 0 /\ Extra = 0
  <2> HIDE DEF h, g
  <2> QED BY <1>3, <1>4, <1>5, <1>6, <1>7 DEF IInv, CountInv, Extra
<1>9. \A q \in Procs \ {c, Owner} : h[q] = pc[q]
  BY <1>1 DEF IInv, TypeOK
<1> HIDE DEF g, h
<1> QED BY <1>5, <1>8, <1>9

\* Versions of objects are even, so that their successors and the version after
\* recycling are what AddressImpl and Dereference compute.
LEMMA Parity ==
  ASSUME NEW n \in Nat, n % 2 = 0
  PROVE  /\ (n + 1) % 2 = 1 /\ (n + 2) % 2 = 0
         /\ (n \div 2 + 1) * 2 = n + 2 /\ ((n + 1) \div 2 + 1) * 2 = n + 2
OBVIOUS

\* The slot that held the stale id 0 is free and nobody has a reference to it.
LEMMA InitIInv == Init => IInv
<1> SUFFICES ASSUME Init PROVE IInv
  OBVIOUS
<1>1. TypeOK
  <2>1. 0 \in Ids
    BY MaxIdAssumption DEF Ids
  <2> QED BY <2>1 DEF Init, TypeOK, Pcs
<1>2. RoleInv /\ VersionInv /\ RefInv /\ OwnerInv /\ CheckInv /\ RecycleInv
  BY DEF Init, RoleInv, VersionInv, RefInv, OwnerInv, CheckInv, RecycleInv, RefPcs, Procs, Ids,
         Active, Waited, Reviving
<1>3. CountInv
  <2>1. {p \in Procs : pc[p] \in RefPcs} = {}
    BY DEF Init, RefPcs
  <2> QED BY <2>1, FS_EmptySet DEF Init, CountInv, Count
<1> QED BY <1>1, <1>2, <1>3 DEF IInv

\* Every step preserves the invariant.
LEMMA StepIInv == IInv /\ [Next]_vars => IInv'
<1> SUFFICES ASSUME IInv, [Next]_vars PROVE IInv'
  OBVIOUS
<1>0. CASE UNCHANGED vars
  <2>1. pc' = pc
    BY <1>0 DEF vars, thread, IInv
  <2>2. CountInv'
    BY <1>0, <2>1 DEF vars, CountInv, Extra, IInv
  <2> QED
    BY <1>0, <2>2 DEF vars, thread, VersionInv, RefInv, OwnerInv, CheckInv, RecycleInv, Active,
           Waited, Reviving, IInv, TypeOK, RoleInv
<1>1. CASE Create
  <2>1. TypeOK'
    <3>1. ver \in Ids
      BY <1>1 DEF Create, VersionInv, Ids, IInv, TypeOK
    <3>2. pc' \in [Procs -> Pcs] /\ lid' \in [Procs -> Ids]
      BY <1>1, <3>1 DEF Create, IInv, TypeOK, Procs, Pcs, Goto
    <3>3. nref' \in Nat /\ thisId' \in Ids
      BY <1>1, <3>1 DEF Create, IInv, TypeOK
    <3> QED BY <1>1, <3>2, <3>3, RolesAssumption, Zenon DEF Create, IInv, TypeOK, RoleInv, Procs,
           Pcs, Goto
  <2>2. RoleInv'
    BY <1>1, RolesAssumption DEF Create, IInv, RoleInv, Goto
  <2>3. VersionInv'
    BY <1>1 DEF Create, VersionInv, Ids, IInv, TypeOK, Goto
  <2>4. RefInv'
    BY <1>1 DEF Create, VersionInv, RefInv, IInv, TypeOK, Goto
  <2>5. CountInv'
    <3>1. Moved(Owner, "owning")
      BY <1>1, MoveCounts, Zenon DEF Create, IInv, Procs, Goto
    <3>2. {p \in Procs : pc[p] \in {"dropAdditional"}} = {}
      BY <1>1 DEF Create, VersionInv, RefInv, RefPcs, IInv
    <3>3. Count(pc, {"dropAdditional"}) = 0
      BY <3>2, FS_EmptySet DEF Count, IInv, RoleInv, Procs
    <3>4. Extra' = 1 /\ "owning" \in RefPcs /\ pc[Owner] \notin RefPcs
      BY <1>1 DEF Create, Extra, RefPcs, IInv
    <3> QED BY <1>1, <3>1, <3>3, <3>4 DEF Create, CountInv, Moved, IInv
  <2>6. OwnerInv'
    BY <1>1 DEF Create, OwnerInv, IInv, TypeOK, Procs, Goto
  <2>7. CheckInv'
    BY <1>1 DEF Create, VersionInv, RefInv, CheckInv, Active, Waited, Reviving, RefPcs, IInv,
           TypeOK, Procs, Goto
  <2>8. RecycleInv'
    BY <1>1 DEF Create, VersionInv, RecycleInv, IInv, TypeOK, Pcs
  <2> QED BY <2>1, <2>2, <2>3, <2>4, <2>5, <2>6, <2>7, <2>8 DEF IInv
<1>2. CASE Remove
  <2>1. TypeOK'
    BY <1>2 DEF Remove, IInv, TypeOK, Procs, Pcs, Goto
  <2>2. RoleInv'
    BY <1>2 DEF Remove, IInv, RoleInv, Goto
  <2>3. VersionInv'
    BY <1>2 DEF Remove, VersionInv, IInv, Goto
  <2>4. RefInv'
    BY <1>2 DEF Remove, RefInv, RefPcs, IInv, Goto
  <2>5. CountInv'
    <3>1. Moved(Owner, "release")
      BY <1>2, MoveCounts, Zenon DEF Remove, IInv, Procs, Goto
    <3> QED BY <1>2, <3>1 DEF Remove, CountInv, Extra, Moved, RefPcs, IInv, Goto
  <2>6. OwnerInv'
    BY <1>2 DEF Remove, OwnerInv, IInv, TypeOK, Goto
  <2>7. CheckInv'
    BY <1>2 DEF Remove, CheckInv, Active, Waited, Reviving, IInv, Goto
  <2>8. RecycleInv'
    BY <1>2 DEF Remove, RecycleInv, IInv, Goto
  <2> QED BY <2>1, <2>2, <2>3, <2>4, <2>5, <2>6, <2>7, <2>8 DEF IInv
<1>3. CASE Unhold
  <2>1. TypeOK'
    BY <1>3, RolesAssumption, Zenon DEF Unhold, VersionInv, RefInv, Ids, IInv, TypeOK, RoleInv,
           Procs, Pcs, Goto
  <2>2. RoleInv'
    BY <1>3 DEF Unhold, IInv, RoleInv, Goto
  <2>3. VersionInv'
    BY <1>3 DEF Unhold, VersionInv, IInv, Goto
  <2>4. RefInv'
    BY <1>3 DEF Unhold, RefInv, RefPcs, IInv, Goto
  <2>5. CountInv'
    <3>1. Moved(Owner, "dropHC")
      BY <1>3, MoveCounts DEF Unhold, IInv, Procs, Goto
    <3> QED BY <1>3, <3>1 DEF Unhold, CountInv, Extra, Moved, RefPcs, IInv, Goto
  <2>6. OwnerInv'
    BY <1>3 DEF Unhold, OwnerInv, IInv, TypeOK, Procs, Goto
  <2>7. CheckInv'
    BY <1>3 DEF Unhold, CheckInv, Active, Waited, Reviving, IInv, Goto
  <2>8. RecycleInv'
    BY <1>3 DEF Unhold, RecycleInv, IInv, Goto
  <2> QED BY <2>1, <2>2, <2>3, <2>4, <2>5, <2>6, <2>7, <2>8 DEF IInv
<1>4. CASE DropHC
  <2>1. TypeOK'
    BY <1>4, Counted DEF DropHC, Dereference, RefPcs, IInv, TypeOK, Procs, Pcs, Goto
  <2>2. RoleInv'
    BY <1>4, Counted DEF DropHC, Dereference, VersionInv, RefInv, RefPcs, IInv, TypeOK, RoleInv,
           Goto
  <2>3. VersionInv'
    BY <1>4 DEF DropHC, Dereference, VersionInv, IInv, TypeOK, Goto
  <2>4. RefInv'
    BY <1>4 DEF DropHC, Dereference, RefInv, RefPcs, IInv, Goto
  <2>5. CountInv'
    <3>1. PICK l : pc' = [pc EXCEPT ![Owner] = l]
      BY <1>4, Zenon DEF DropHC, Dereference, Goto
    <3>2. Moved(Owner, l)
      BY <3>1, MoveCounts, Zenon DEF IInv, Procs
    <3>3. Extra' = Extra /\ pc[Owner] \in RefPcs /\ l \notin RefPcs /\ ~free /\ Extra \in {0, 1}
          /\ l # "dropAdditional" /\ pc[Owner] # "dropAdditional"
      BY <1>4, <3>1 DEF DropHC, Dereference, Extra, VersionInv, RefInv, RefPcs, IInv, TypeOK,
             Procs, Goto
    <3>4. nref' = nref - 1 /\ free' = free
      BY <1>4 DEF DropHC, Dereference, IInv
    <3> QED BY <3>2, <3>3, <3>4 DEF CountInv, Moved, IInv
  <2>6. OwnerInv'
    BY <1>4 DEF DropHC, Dereference, OwnerInv, IInv, Goto
  <2>7. CheckInv'
    BY <1>4 DEF DropHC, Dereference, CheckInv, Active, Waited, Reviving, IInv, Goto
  <2>8. RecycleInv'
    BY <1>4 DEF DropHC, Dereference, RecycleInv, IInv, TypeOK, Procs, Goto
  <2> QED BY <2>1, <2>2, <2>3, <2>4, <2>5, <2>6, <2>7, <2>8 DEF IInv
<1>5. ASSUME NEW u \in Users, NEW f \in BOOLEAN, Address(u, f) PROVE IInv'
  <2>1. TypeOK'
    BY <1>5 DEF Address, AddressImpl, IInv, TypeOK, Procs, Pcs, Goto
  <2>2. RoleInv'
    BY <1>5, RolesAssumption DEF Address, AddressImpl, IInv, RoleInv, Goto
  <2>3. VersionInv'
    BY <1>5 DEF Address, AddressImpl, VersionInv, IInv, Goto
  <2>4. RefInv'
    BY <1>5, RolesAssumption DEF Address, AddressImpl, VersionInv, RefInv, Ids, IInv, TypeOK, Pcs,
           Goto
  <2>5. CountInv'
    <3>1. PICK l : pc' = [pc EXCEPT ![u] = l]
      BY <1>5, Zenon DEF Address, AddressImpl, Goto
    <3>2. Moved(u, l)
      BY <3>1, MoveCounts, Zenon DEF IInv, Procs
    <3> QED BY <1>5, <3>1, <3>2 DEF Address, AddressImpl, CountInv, Extra, Moved, RefPcs, IInv,
           TypeOK, Procs, Goto
  <2>6. OwnerInv'
    BY <1>5 DEF Address, AddressImpl, OwnerInv, IInv, Goto
  <2>7. CheckInv'
    BY <1>5 DEF Address, AddressImpl, CheckInv, Active, Waited, Reviving, IInv, Goto
  <2>8. RecycleInv'
    BY <1>5 DEF Address, AddressImpl, RecycleInv, IInv, TypeOK
  <2> QED BY <2>1, <2>2, <2>3, <2>4, <2>5, <2>6, <2>7, <2>8 DEF IInv
<1>6. ASSUME NEW u \in Users, SetFailed(u) PROVE IInv'
  <2>1. TypeOK'
    <3>1. thisId \in Ids /\ ver' \in Nat
      BY <1>6 DEF SetFailed, IInv, TypeOK
    <3>2. CASE hcHeld
      <4>1. PICK c \in Checkers : /\ pc' = [pc EXCEPT ![u] = "release", ![c] = "hcAddress"]
                                 /\ lid' = [lid EXCEPT ![c] = thisId]
                                 /\ first' = [first EXCEPT ![c] = TRUE]
        BY <1>6, <3>2 DEF SetFailed, IInv
      <4>2. pc' \in [Procs -> Pcs] /\ lid' \in [Procs -> Ids]
        BY <4>1 DEF IInv, TypeOK, Procs, Pcs
      <4> QED BY <1>6, <4>1, <4>2 DEF SetFailed, IInv, TypeOK, Procs
    <3>3. CASE ~hcHeld
      BY <1>6, <3>3 DEF SetFailed, IInv, TypeOK, Procs, Pcs, Goto
    <3> QED BY <3>2, <3>3 DEF IInv
  <2>2. RoleInv'
    BY <1>6, RolesAssumption DEF SetFailed, IInv, TypeOK, RoleInv, Procs, Goto
  <2>3. VersionInv'
    BY <1>6 DEF SetFailed, VersionInv, IInv, TypeOK, Procs, Pcs, Goto
  <2>4. RefInv'
    BY <1>6 DEF SetFailed, RefInv, RefPcs, IInv, TypeOK, Goto
  <2>5. CountInv'
    <3>1. "idle" \notin RefPcs /\ "using" \in RefPcs /\ "release" \in RefPcs
          /\ "hcAddress" \notin RefPcs
      BY DEF RefPcs, IInv
    <3>2. Extra' = Extra
      BY <1>6 DEF SetFailed, Extra, IInv, TypeOK, Procs, Goto
    <3>3. CASE hcHeld
      <4>1. PICK c \in Checkers : pc[c] = "idle"
            /\ pc' = [pc EXCEPT ![u] = "release", ![c] = "hcAddress"]
        BY <1>6, <3>3 DEF SetFailed, IInv
      <4>2. Count(pc', RefPcs) = Count(pc, RefPcs)
            /\ Count(pc', {"dropAdditional"}) = Count(pc, {"dropAdditional"})
        BY <1>6, <4>1, StartCounts, Zenon DEF SetFailed, IInv, Procs, Goto
      <4> QED BY <1>6, <4>2, <3>2 DEF SetFailed, CountInv, IInv
    <3>4. CASE ~hcHeld
      <4>1. Moved(u, "release")
        BY <1>6, <3>4, MoveCounts DEF SetFailed, IInv, RoleInv, Procs, Pcs, Goto
      <4> QED BY <1>6, <4>1, <3>1, <3>2 DEF SetFailed, CountInv, Moved, IInv
    <3> QED BY <3>3, <3>4 DEF IInv
  <2>6. OwnerInv'
    BY <1>6, RolesAssumption DEF SetFailed, OwnerInv, IInv, TypeOK, Procs, Goto
  <2>7. CheckInv'
    BY <1>6 DEF SetFailed, CheckInv, Active, Waited, Reviving, IInv, TypeOK, RoleInv, Procs, Goto
  <2>8. RecycleInv'
    BY <1>6, Counted DEF SetFailed, RecycleInv, RefPcs, IInv, Procs
  <2> QED BY <2>1, <2>2, <2>3, <2>4, <2>5, <2>6, <2>7, <2>8 DEF IInv
<1>7. ASSUME NEW u \in Users, ReleaseAdditionalReference(u) PROVE IInv'
  <2>1. TypeOK'
    BY <1>7 DEF ReleaseAdditionalReference, IInv, TypeOK, Procs, Pcs, Goto
  <2>2. RoleInv'
    BY <1>7 DEF ReleaseAdditionalReference, IInv, RoleInv, Goto
  <2>3. VersionInv'
    BY <1>7 DEF ReleaseAdditionalReference, VersionInv, IInv, Goto
  <2>4. RefInv'
    BY <1>7 DEF ReleaseAdditionalReference, RefInv, RefPcs, IInv, Goto
  <2>5. CountInv'
    <3>1. Moved(u, "release")
      BY <1>7, MoveCounts, Zenon DEF ReleaseAdditionalReference, IInv, Procs, Goto
    <3> QED BY <1>7, <3>1 DEF ReleaseAdditionalReference, CountInv, Extra, Moved, RefPcs, IInv, Goto
  <2>6. OwnerInv'
    BY <1>7, RolesAssumption DEF ReleaseAdditionalReference, OwnerInv, IInv, Goto
  <2>7. CheckInv'
    BY <1>7 DEF ReleaseAdditionalReference, CheckInv, Active, Waited, Reviving, IInv, Goto
  <2>8. RecycleInv'
    BY <1>7 DEF ReleaseAdditionalReference, RecycleInv, IInv, Goto
  <2> QED BY <2>1, <2>2, <2>3, <2>4, <2>5, <2>6, <2>7, <2>8 DEF IInv
<1>8. ASSUME NEW u \in Users, NEW v \in Users, ReAddress(u, v) PROVE IInv'
  <2>1. TypeOK'
    BY <1>8 DEF ReAddress, IInv, TypeOK, Procs, Goto
  <2>2. RoleInv'
    BY <1>8, RolesAssumption DEF ReAddress, IInv, RoleInv, Goto
  <2>3. VersionInv'
    BY <1>8 DEF ReAddress, VersionInv, IInv, Procs, Goto
  <2>4. RefInv'
    BY <1>8 DEF ReAddress, RefInv, IInv, TypeOK, Procs, Goto
  <2>5. CountInv'
    <3>1. Moved(v, "using")
      BY <1>8, MoveCounts DEF ReAddress, IInv, Procs, Goto
    <3> QED BY <1>8, <3>1 DEF ReAddress, CountInv, Extra, Moved, RefPcs, IInv, Goto
  <2>6. OwnerInv'
    BY <1>8 DEF ReAddress, OwnerInv, IInv, Goto
  <2>7. CheckInv'
    BY <1>8 DEF ReAddress, CheckInv, Active, Waited, Reviving, IInv, Goto
  <2>8. RecycleInv'
    BY <1>8 DEF ReAddress, RecycleInv, IInv, TypeOK
  <2> QED BY <2>1, <2>2, <2>3, <2>4, <2>5, <2>6, <2>7, <2>8 DEF IInv
<1>9. ASSUME NEW c \in Checkers, HCAddress(c) PROVE IInv'
  <2>1. TypeOK'
    BY <1>9 DEF HCAddress, AddressImpl, IInv, TypeOK, Procs, Pcs, Goto
  <2>2. RoleInv'
    BY <1>9 DEF HCAddress, AddressImpl, VersionInv, CheckInv, Active, IInv, TypeOK, RoleInv, Goto
  <2>3. VersionInv'
    BY <1>9 DEF HCAddress, AddressImpl, VersionInv, IInv, Goto
  <2>4. RefInv'
    BY <1>9, RolesAssumption DEF HCAddress, AddressImpl, VersionInv, RefInv, RefPcs, Ids, IInv,
           TypeOK, RoleInv, Procs, Pcs, Goto
  <2>5. CountInv'
    <3>1. PICK l : pc' = [pc EXCEPT ![c] = l]
      BY <1>9, Zenon DEF HCAddress, AddressImpl, Goto
    <3>2. Moved(c, l)
      BY <3>1, MoveCounts, Zenon DEF IInv, Procs
    <3>3. Extra' = Extra /\ pc[c] \notin RefPcs /\ l \in RefPcs /\ Extra \in {0, 1}
          /\ l # "dropAdditional" /\ pc[c] # "dropAdditional"
      BY <1>9, <3>1 DEF HCAddress, AddressImpl, Extra, CheckInv, VersionInv, RefPcs, Active, IInv,
             TypeOK, Procs, Goto
    <3>4. nref' = nref + 1 /\ free' = free
      BY <1>9 DEF HCAddress, AddressImpl, IInv
    <3> QED BY <3>2, <3>3, <3>4 DEF CountInv, Moved, IInv
  <2>6. OwnerInv'
    BY <1>9 DEF HCAddress, AddressImpl, OwnerInv, IInv, Goto
  <2>7. CheckInv'
    BY <1>9 DEF HCAddress, AddressImpl, CheckInv, Active, Waited, Reviving, IInv, Goto
  <2>8. RecycleInv'
    BY <1>9 DEF HCAddress, AddressImpl, RecycleInv, IInv, TypeOK
  <2> QED BY <2>1, <2>2, <2>3, <2>4, <2>5, <2>6, <2>7, <2>8 DEF IInv
<1>10. ASSUME NEW c \in Checkers, WaitAndReset(c) PROVE IInv'
  <2>1. TypeOK'
    BY <1>10 DEF WaitAndReset, IInv, TypeOK, Procs, Pcs, Goto
  <2>2. RoleInv'
    BY <1>10 DEF WaitAndReset, IInv, RoleInv, Goto
  <2>3. VersionInv'
    BY <1>10 DEF WaitAndReset, VersionInv, IInv, Goto
  <2>4. RefInv'
    BY <1>10 DEF WaitAndReset, RefInv, RefPcs, IInv, Goto
  <2>5. CountInv'
    <3>1. PICK l : pc' = [pc EXCEPT ![c] = l]
      BY <1>10, Zenon DEF WaitAndReset, AtLeast, Goto
    <3>2. Moved(c, l)
      BY <3>1, MoveCounts, Zenon DEF IInv, Procs
    <3>3. Extra' = Extra /\ pc[c] \in RefPcs /\ l \in RefPcs /\ Extra \in {0, 1}
          /\ l # "dropAdditional" /\ pc[c] # "dropAdditional"
      BY <1>10, <3>1 DEF WaitAndReset, Extra, RefPcs, IInv, TypeOK, Procs, Goto
    <3>4. nref' = nref + 0 /\ free' = free
      BY <1>10 DEF WaitAndReset, IInv, TypeOK
    <3> QED BY <3>2, <3>3, <3>4 DEF CountInv, Moved, IInv
  <2>6. OwnerInv'
    BY <1>10 DEF WaitAndReset, OwnerInv, IInv, Goto
  <2>7. CheckInv'
    <3>1. lid[c] = thisId
      BY <1>10 DEF WaitAndReset, RefInv, RefPcs, IInv, Procs
    <3>2. CASE pc'[c] = "hcCheck"
      <4>1. Extra = 0 /\ \A q \in Procs \ {c, Owner} : pc[q] \notin RefPcs
        BY <1>10, <3>2, OnlyTwo DEF WaitAndReset, AtLeast, OwnerInv, RefPcs, IInv, Goto
      <4>2. status \in {"releasedOnFailure", "released"}
        BY <1>10, <4>1, RolesAssumption DEF WaitAndReset, Extra, CheckInv, Reviving, RefPcs, IInv,
               TypeOK, Procs
      <4> QED BY <1>10, <4>2 DEF WaitAndReset, CheckInv, Active, Reviving, IInv, Goto
    <3>3. CASE pc'[c] # "hcCheck"
      BY <1>10, <3>3 DEF WaitAndReset, CheckInv, Active, Waited, Reviving, IInv, Goto
    <3> QED BY <3>2, <3>3 DEF IInv
  <2>8. RecycleInv'
    BY <1>10 DEF WaitAndReset, RecycleInv, IInv, Goto
  <2> QED BY <2>1, <2>2, <2>3, <2>4, <2>5, <2>6, <2>7, <2>8 DEF IInv
<1>11. ASSUME NEW c \in Checkers, CheckHealth(c) PROVE IInv'
  <2>1. TypeOK'
    BY <1>11 DEF CheckHealth, IInv, TypeOK, Procs, Pcs, Goto
  <2>2. RoleInv'
    BY <1>11 DEF CheckHealth, IInv, RoleInv, Goto
  <2>3. VersionInv'
    BY <1>11 DEF CheckHealth, VersionInv, IInv, Goto
  <2>4. RefInv'
    BY <1>11 DEF CheckHealth, RefInv, RefPcs, IInv, Goto
  <2>5. CountInv'
    <3>1. PICK l : pc' = [pc EXCEPT ![c] = l]
      BY <1>11, Zenon DEF CheckHealth, Goto
    <3>2. Moved(c, l)
      BY <3>1, MoveCounts, Zenon DEF IInv, Procs
    <3> QED BY <1>11, <3>1, <3>2 DEF CheckHealth, CountInv, Extra, Moved, RefPcs, IInv, TypeOK,
           Procs, Goto
  <2>6. OwnerInv'
    BY <1>11 DEF CheckHealth, OwnerInv, IInv, Goto
  <2>7. CheckInv'
    BY <1>11 DEF CheckHealth, CheckInv, Active, Waited, Reviving, IInv, Goto
  <2>8. RecycleInv'
    BY <1>11 DEF CheckHealth, RecycleInv, IInv, Goto
  <2> QED BY <2>1, <2>2, <2>3, <2>4, <2>5, <2>6, <2>7, <2>8 DEF IInv
<1>12. ASSUME NEW c \in Checkers, Revive(c) PROVE IInv'
  <2>1. TypeOK'
    BY <1>12 DEF Revive, RefInv, Ids, IInv, TypeOK, Pcs, Goto
  <2>2. RoleInv'
    BY <1>12 DEF Revive, RefInv, CheckInv, Waited, RefPcs, IInv, TypeOK, RoleInv, Procs, Pcs, Goto
  <2>3. VersionInv'
    BY <1>12 DEF Revive, VersionInv, IInv, TypeOK, Goto
  <2>4. RefInv'
    BY <1>12 DEF Revive, RefInv, RefPcs, IInv, TypeOK, Goto
  <2>5. CountInv'
    <3>1. PICK l : pc' = [pc EXCEPT ![c] = l]
      BY <1>12 DEF Revive, IInv, Goto
    <3>2. Moved(c, l)
      BY <3>1, MoveCounts DEF IInv, Procs
    <3>3. Extra' = Extra /\ pc[c] \in RefPcs /\ l \in RefPcs /\ Extra \in {0, 1}
          /\ l # "dropAdditional" /\ pc[c] # "dropAdditional"
      BY <1>12, <3>1 DEF Revive, Extra, CheckInv, RefInv, RefPcs, Waited, IInv, TypeOK, Procs, Goto
    <3>4. nref' = nref + 0 /\ free' = free
      BY <1>12 DEF Revive, IInv, TypeOK
    <3> QED BY <3>2, <3>3, <3>4 DEF CountInv, Moved, IInv
  <2>6. OwnerInv'
    BY <1>12 DEF Revive, OwnerInv, IInv, TypeOK, Procs, Goto
  <2>7. CheckInv'
    BY <1>12 DEF Revive, RefInv, CheckInv, Active, Waited, Reviving, RefPcs, IInv, TypeOK, Procs,
           Goto
  <2>8. RecycleInv'
    BY <1>12 DEF Revive, RecycleInv, IInv, TypeOK, Goto
  <2> QED BY <2>1, <2>2, <2>3, <2>4, <2>5, <2>6, <2>7, <2>8 DEF IInv
<1>13. ASSUME NEW c \in Checkers, ReviveVersion(c) PROVE IInv'
  <2>1. TypeOK'
    BY <1>13 DEF ReviveVersion, vref, Ids, IInv, TypeOK, Pcs, Goto
  <2>2. RoleInv'
    <3>1. nref >= 1
      BY <1>13, Counted DEF ReviveVersion, RefPcs, IInv, Procs
    <3>2. ver = thisId + 1
      BY <1>13 DEF ReviveVersion, RefInv, VersionInv, CheckInv, Active, RefPcs, IInv, Procs
    <3> QED BY <1>13, <3>1, <3>2 DEF ReviveVersion, AtLeast, IInv, TypeOK, RoleInv, Procs, Goto
  <2>3. VersionInv'
    BY <1>13 DEF ReviveVersion, vref, VersionInv, IInv, TypeOK, RoleInv, Goto
  <2>4. RefInv'
    BY <1>13 DEF ReviveVersion, vref, VersionInv, RefInv, RefPcs, IInv, TypeOK, Goto
  <2>5. CountInv'
    <3>1. PICK l \in {"hcDrop", "revive3"} : pc' = [pc EXCEPT ![c] = l]
      BY <1>13, <2>2 DEF ReviveVersion, IInv, RoleInv, Procs, Goto
    <3>2. Moved(c, l)
      BY <3>1, MoveCounts, Zenon DEF IInv, Procs
    <3>3. pc[c] \in RefPcs /\ l \in RefPcs /\ ~free /\ pc[c] = "revive2"
      BY <1>13 DEF ReviveVersion, RefPcs, RefInv, VersionInv, IInv, Procs
    <3>4. Extra = 0 /\ Extra' = IF l = "revive3" THEN 1 ELSE 0
      BY <1>13, <3>1 DEF ReviveVersion, Extra, CheckInv, Reviving, IInv, TypeOK, Procs
    <3>5. nref' = nref + (IF l = "revive3" THEN 1 ELSE 0)
      BY <1>13, <3>1 DEF ReviveVersion, vref, IInv, TypeOK, Procs, Goto
    <3> QED BY <1>13, <3>2, <3>3, <3>4, <3>5 DEF ReviveVersion, CountInv, Moved, IInv
  <2>6. OwnerInv'
    BY <1>13 DEF ReviveVersion, OwnerInv, CheckInv, Reviving, IInv, TypeOK, Procs, Goto
  <2>7. CheckInv'
    BY <1>13 DEF ReviveVersion, RefInv, CheckInv, Active, Waited, Reviving, RefPcs, IInv, TypeOK,
           Procs, Goto
  <2>8. RecycleInv'
    BY <1>13 DEF ReviveVersion, vref, RecycleInv, IInv, TypeOK, Goto
  <2> QED BY <2>1, <2>2, <2>3, <2>4, <2>5, <2>6, <2>7, <2>8 DEF IInv
<1>14. ASSUME NEW c \in Checkers, ReviveDone(c) PROVE IInv'
  <2>1. TypeOK'
    BY <1>14 DEF ReviveDone, IInv, TypeOK, Procs, Pcs, Goto
  <2>2. RoleInv'
    BY <1>14 DEF ReviveDone, IInv, RoleInv, Goto
  <2>3. VersionInv'
    BY <1>14 DEF ReviveDone, VersionInv, RefInv, RefPcs, IInv, Procs, Goto
  <2>4. RefInv'
    BY <1>14 DEF ReviveDone, RefInv, RefPcs, IInv, Goto
  <2>5. CountInv'
    <3>1. Moved(c, "hcDrop")
      BY <1>14, MoveCounts, Zenon DEF ReviveDone, IInv, Procs, Goto
    <3> QED BY <1>14, <3>1 DEF ReviveDone, CountInv, Extra, Moved, RefPcs, IInv
  <2>6. OwnerInv'
    BY <1>14 DEF ReviveDone, OwnerInv, CheckInv, Reviving, IInv, Goto
  <2>7. CheckInv'
    BY <1>14 DEF ReviveDone, CheckInv, Active, Waited, Reviving, IInv, TypeOK, Procs, Goto
  <2>8. RecycleInv'
    BY <1>14 DEF ReviveDone, RecycleInv, IInv, Goto
  <2> QED BY <2>1, <2>2, <2>3, <2>4, <2>5, <2>6, <2>7, <2>8 DEF IInv
<1>15. ASSUME NEW p \in Procs, Unref(p) PROVE IInv'
  <2>1. TypeOK'
    BY <1>15, Counted DEF Unref, RefPcs, IInv, TypeOK, Pcs, Goto
  <2>2. RoleInv'
    BY <1>15, Counted, RolesAssumption DEF Unref, VersionInv, RefInv, CheckInv, Active, RefPcs,
           Ids, IInv, TypeOK, RoleInv, Pcs, Goto
  <2>3. VersionInv'
    BY <1>15 DEF Unref, VersionInv, Ids, IInv, TypeOK, Goto
  <2>4. RefInv'
    BY <1>15 DEF Unref, VersionInv, RefInv, RefPcs, IInv, Goto
  <2>5. CountInv'
    <3>1. PICK l : pc' = [pc EXCEPT ![p] = l]
      BY <1>15, Zenon DEF Unref, Goto
    <3>2. Moved(p, l)
      BY <3>1, MoveCounts, Zenon DEF IInv, Procs
    <3>3. Extra' = Extra /\ pc[p] \in RefPcs /\ l \notin RefPcs /\ Extra \in {0, 1}
          /\ l # "dropAdditional" /\ pc[p] # "dropAdditional"
      BY <1>15, <3>1 DEF Unref, Extra, RefPcs, IInv, TypeOK, Goto
    <3>4. nref' = nref - 1 /\ free' = free
      BY <1>15 DEF Unref, IInv
    <3> QED BY <3>2, <3>3, <3>4 DEF CountInv, Moved, IInv
  <2>6. OwnerInv'
    BY <1>15 DEF Unref, OwnerInv, IInv, Goto
  <2>7. CheckInv'
    BY <1>15 DEF Unref, CheckInv, Active, Waited, Reviving, IInv, Goto
  <2>8. RecycleInv'
    BY <1>15 DEF Unref, VersionInv, RefInv, RecycleInv, RefPcs, Ids, IInv, TypeOK, RoleInv, Procs,
           Pcs, Goto
  <2> QED BY <2>1, <2>2, <2>3, <2>4, <2>5, <2>6, <2>7, <2>8 DEF IInv
<1>16. ASSUME NEW p \in Procs, RecycleCas(p) PROVE IInv'
  <2>0. vref = <<lver[p], 0>> =>
          /\ nref = 0 /\ ver' = thisId + 2 /\ ver # thisId + 2 /\ ~free
          /\ status # "using" /\ \A q \in Procs : pc[q] \notin RefPcs
    <3> SUFFICES ASSUME vref = <<lver[p], 0>>
                 PROVE  /\ nref = 0 /\ ver' = thisId + 2 /\ ver # thisId + 2 /\ ~free
                        /\ status # "using" /\ \A q \in Procs : pc[q] \notin RefPcs
      OBVIOUS
    <3>1. nref = 0 /\ ver \in {thisId, thisId + 1} /\ ~free
      BY <1>16 DEF RecycleCas, vref, VersionInv, IInv, TypeOK
    <3>2. ver' = thisId + 2
      BY <1>16, <3>1 DEF RecycleCas, Ids, IInv, TypeOK
    <3> QED BY <1>16, <3>1, <3>2, Counted DEF RecycleCas, Extra, IInv
  <2>1. TypeOK'
    BY <1>16 DEF RecycleCas, IInv, TypeOK, Pcs, Goto
  <2>2. RoleInv'
    BY <1>16 DEF RecycleCas, IInv, TypeOK, RoleInv, Procs, Goto
  <2>3. VersionInv'
    BY <1>16, <2>0 DEF RecycleCas, VersionInv, IInv, TypeOK, Goto
  <2>4. RefInv'
    BY <1>16, <2>0 DEF RecycleCas, RefInv, RefPcs, IInv, TypeOK, Goto
  <2>5. CountInv'
    <3>1. PICK l : pc' = [pc EXCEPT ![p] = l]
      BY <1>16 DEF RecycleCas, IInv, Goto
    <3>2. Moved(p, l)
      BY <3>1, MoveCounts DEF IInv, Procs
    <3>3. Extra' = Extra /\ pc[p] \notin RefPcs /\ l \notin RefPcs /\ Extra \in {0, 1}
          /\ l # "dropAdditional" /\ pc[p] # "dropAdditional"
      BY <1>16, <3>1 DEF RecycleCas, Extra, RefPcs, IInv, TypeOK, Goto
    <3>4. nref' = nref + 0 /\ free' = free
      BY <1>16 DEF RecycleCas, IInv, TypeOK
    <3> QED BY <3>2, <3>3, <3>4 DEF CountInv, Moved, IInv
  <2>6. OwnerInv'
    BY <1>16 DEF RecycleCas, OwnerInv, IInv, TypeOK, Procs, Goto
  <2>7. CheckInv'
    BY <1>16, <2>0 DEF RecycleCas, CheckInv, Active, Waited, Reviving, IInv, TypeOK, Procs, Goto
  <2>8. RecycleInv'
    BY <1>16, <2>0 DEF RecycleCas, vref, VersionInv, RecycleInv, IInv, TypeOK, Goto
  <2> QED BY <2>1, <2>2, <2>3, <2>4, <2>5, <2>6, <2>7, <2>8 DEF IInv
<1>17. ASSUME NEW p \in Procs, Recycle(p) PROVE IInv'
  <2>1. TypeOK'
    BY <1>17 DEF Recycle, IInv, TypeOK, RoleInv, Pcs, Goto
  <2>2. RoleInv'
    BY <1>17 DEF Recycle, IInv, RoleInv, Goto
  <2>3. VersionInv'
    BY <1>17 DEF Recycle, VersionInv, IInv, TypeOK, Goto
  <2>4. RefInv'
    BY <1>17 DEF Recycle, RefInv, RefPcs, IInv, Goto
  <2>5. CountInv'
    <3>1. Moved(p, "idle")
      BY <1>17, MoveCounts, Zenon DEF Recycle, IInv, Procs, Goto
    <3>2. {q \in Procs : pc[q] \in {"dropAdditional"}} = {}
      BY <1>17 DEF Recycle, VersionInv, RefInv, RefPcs, IInv
    <3>3. Count(pc, {"dropAdditional"}) = 0
      BY <3>2, FS_EmptySet DEF Count, IInv, RoleInv, Procs, Pcs
    <3>4. Extra = 0 /\ "idle" \notin RefPcs /\ pc[p] \notin RefPcs /\ ~free
      BY <1>17 DEF Recycle, Extra, VersionInv, RefInv, RefPcs, IInv, Procs
    <3> QED BY <1>17, <3>1, <3>3, <3>4 DEF Recycle, CountInv, Moved, IInv
  <2>6. OwnerInv'
    BY <1>17 DEF Recycle, OwnerInv, IInv, Goto
  <2>7. CheckInv'
    BY <1>17 DEF Recycle, CheckInv, Active, Waited, Reviving, IInv, TypeOK, Procs, Goto
  <2>8. RecycleInv'
    <3>1. thisId \in Ids /\ recycles \in [Ids -> Nat] /\ ~free /\ ver = thisId + 2 /\ thisId \in Nat
      BY <1>17 DEF Recycle, VersionInv, Ids, IInv, TypeOK
    <3>2. \A i \in Ids : i \in Nat
      BY DEF Ids, IInv
    <3>3. \A i \in Ids : recycles[i] <= IF i < thisId THEN 1 ELSE 0
      BY <3>1 DEF RecycleInv, IInv
    <3>4. \A i \in Ids : recycles'[i] = IF i = thisId THEN recycles[i] + 1 ELSE recycles[i]
      BY <1>17, <3>1 DEF Recycle
    <3>5. \A i \in Ids : recycles'[i] <= IF i < thisId \/ i = thisId THEN 1 ELSE 0
      BY <3>1, <3>2, <3>3, <3>4
    <3> QED BY <1>17, <3>5 DEF Recycle, RecycleInv
  <2> QED BY <2>1, <2>2, <2>3, <2>4, <2>5, <2>6, <2>7, <2>8 DEF IInv
<1>18. ASSUME NEW p \in Procs, Drop(p) PROVE IInv'
  <2>1. TypeOK'
    BY <1>18, Counted DEF Drop, Dereference, RefPcs, IInv, TypeOK, Pcs, Goto
  <2>2. RoleInv'
    BY <1>18, Counted DEF Drop, Dereference, VersionInv, RefInv, RefPcs, IInv, TypeOK, RoleInv, Goto
  <2>3. VersionInv'
    BY <1>18 DEF Drop, Dereference, VersionInv, IInv, TypeOK, Goto
  <2>4. RefInv'
    BY <1>18 DEF Drop, Dereference, RefInv, RefPcs, IInv, Goto
  <2>5. CountInv'
    <3>1. PICK l : pc' = [pc EXCEPT ![p] = l]
      BY <1>18 DEF Drop, Dereference, Goto
    <3>2. Moved(p, l)
      BY <3>1, MoveCounts, Zenon DEF IInv, Procs
    <3>3. Extra' = Extra /\ pc[p] \in RefPcs /\ l \notin RefPcs /\ Extra \in {0, 1}
          /\ l # "dropAdditional" /\ pc[p] # "dropAdditional"
      BY <1>18, <3>1 DEF Drop, Dereference, Extra, RefPcs, IInv, TypeOK, Goto
    <3>4. nref' = nref - 1 /\ free' = free
      BY <1>18 DEF Drop, Dereference, IInv
    <3> QED BY <3>2, <3>3, <3>4 DEF CountInv, Moved, IInv
  <2>6. OwnerInv'
    BY <1>18 DEF Drop, Dereference, OwnerInv, IInv, Goto
  <2>7. CheckInv'
    BY <1>18 DEF Drop, Dereference, CheckInv, Active, Waited, Reviving, IInv, Goto
  <2>8. RecycleInv'
    BY <1>18 DEF Drop, Dereference, RecycleInv, IInv, TypeOK, Goto
  <2> QED BY <2>1, <2>2, <2>3, <2>4, <2>5, <2>6, <2>7, <2>8 DEF IInv
<1>19. ASSUME NEW p \in Procs, ReleaseImpl(p) PROVE IInv'
  <2>1. TypeOK'
    BY <1>19 DEF ReleaseImpl, Released, IInv, TypeOK, Pcs, Goto
  <2>2. RoleInv'
    BY <1>19, RolesAssumption DEF ReleaseImpl, Released, IInv, RoleInv, Goto
  <2>3. VersionInv'
    BY <1>19 DEF ReleaseImpl, Released, VersionInv, IInv, Goto
  <2>4. RefInv'
    BY <1>19 DEF ReleaseImpl, Released, RefInv, RefPcs, IInv, Goto
  <2>5. CountInv'
    <3>1. PICK l : pc' = [pc EXCEPT ![p] = l]
      BY <1>19 DEF ReleaseImpl, Released, Goto
    <3>2. Moved(p, l)
      BY <3>1, MoveCounts, Zenon DEF IInv, Procs
    <3> QED BY <1>19, <3>1, <3>2 DEF ReleaseImpl, Released, CountInv, Extra, Moved, RefPcs,
           CheckInv, Reviving, IInv, TypeOK, Goto
  <2>6. OwnerInv'
    BY <1>19 DEF ReleaseImpl, Released, OwnerInv, IInv, Goto
  <2>7. CheckInv'
    BY <1>19 DEF ReleaseImpl, Released, CheckInv, Active, Waited, Reviving, IInv, Goto
  <2>8. RecycleInv'
    BY <1>19 DEF ReleaseImpl, RecycleInv, IInv, Goto
  <2> QED BY <2>1, <2>2, <2>3, <2>4, <2>5, <2>6, <2>7, <2>8 DEF IInv
<1>20. ASSUME NEW p \in Procs, DropAdditional(p) PROVE IInv'
  <2>1. TypeOK'
    BY <1>20, Counted DEF DropAdditional, Dereference, Released, IInv, TypeOK, Pcs, Goto
  <2>2. RoleInv'
    BY <1>20, Counted, RolesAssumption DEF DropAdditional, Dereference, Released, IInv, TypeOK,
           RoleInv, Procs, Goto
  <2>3. VersionInv'
    BY <1>20 DEF DropAdditional, Dereference, Released, VersionInv, IInv, TypeOK, Goto
  <2>4. RefInv'
    BY <1>20 DEF DropAdditional, Dereference, Released, RefInv, RefPcs, IInv, Goto
  <2>5. CountInv'
    <3>1. PICK l : pc' = [pc EXCEPT ![p] = l]
      BY <1>20, Zenon DEF DropAdditional, Dereference, Released, Goto
    <3>2. Moved(p, l)
      BY <3>1, MoveCounts, Zenon DEF IInv, Procs
    <3>3. Extra' = Extra /\ pc[p] \in RefPcs /\ l \in RefPcs /\ l # "dropAdditional"
          /\ pc[p] = "dropAdditional" /\ ~free /\ Extra \in {0, 1}
      BY <1>20, <3>1, Counted DEF DropAdditional, Dereference, Released, Extra, VersionInv, RefInv,
             RefPcs, IInv, TypeOK, Goto
    <3>4. nref' = nref - 1 /\ free' = free
      BY <1>20 DEF DropAdditional, Dereference, IInv
    <3> QED BY <3>2, <3>3, <3>4 DEF CountInv, Moved, IInv
  <2>6. OwnerInv'
    BY <1>20, Counted DEF DropAdditional, Dereference, Released, OwnerInv, IInv, TypeOK, Goto
  <2>7. CheckInv'
    BY <1>20 DEF DropAdditional, Dereference, Released, CheckInv, Active, Waited, Reviving, IInv,
           Goto
  <2>8. RecycleInv'
    BY <1>20 DEF DropAdditional, Dereference, RecycleInv, IInv, TypeOK, Goto
  <2> QED BY <2>1, <2>2, <2>3, <2>4, <2>5, <2>6, <2>7, <2>8 DEF IInv
<1> QED
  BY <1>0, <1>1, <1>2, <1>3, <1>4, <1>5, <1>6, <1>7, <1>8, <1>9, <1>10, <1>11, <1>12, <1>13, <1>14,
     <1>15, <1>16, <1>17, <1>18, <1>19, <1>20 DEF Next, User, Finish, Check

\* nref is the number of references, for every number of threads.
LEMMA RefsAreCounted == IInv => RefsCounted
<1> SUFFICES ASSUME IInv PROVE RefsCounted
  OBVIOUS
<1>1. Refs = {p \in Procs : pc[p] \in RefPcs}
  BY DEF Refs, RefPcs
<1>2. {p \in Procs : pc[p] = "dropAdditional"} = {p \in Procs : pc[p] \in {"dropAdditional"}}
  OBVIOUS
<1>3. ~free => Additional = Count(pc, {"dropAdditional"}) + Extra
  BY <1>2 DEF Additional, Count, Extra
<1> QED BY <1>1, <1>3 DEF RefsCounted, IInv, CountInv, Count

\* What the invariant says of the properties of the run.
LEMMA IInvSafe == IInv => NoFatal /\ NoUseAfterRecycle /\ RecycledOnce
<1> SUFFICES ASSUME IInv PROVE NoFatal /\ NoUseAfterRecycle /\ RecycledOnce
  OBVIOUS
<1>1. NoFatal
  BY DEF IInv, RoleInv, NoFatal, Procs
<1>2. NoUseAfterRecycle
  BY DEF IInv, TypeOK, VersionInv, RefInv, NoUseAfterRecycle, Refs, RefPcs
<1>3. RecycledOnce
  BY DEF IInv, TypeOK, RecycleInv, RecycledOnce, Ids
<1> QED BY <1>1, <1>2, <1>3

\* The invariant holds always.
LEMMA Invariance == Spec => []IInv
BY InitIInv, StepIInv, PTL DEF Spec

\* The count in _versioned_ref is exact: additional, owner's, users', checkers'
\* and transient references are each counted once, whatever the interleaving.
THEOREM ReferencesCounted == Spec => []RefsCounted
BY Invariance, RefsAreCounted, PTL

\* A reference obtained by Address keeps its object out of the pool.
THEOREM NeverUsedAfterRecycle == Spec => []NoUseAfterRecycle
BY Invariance, IInvSafe, PTL

\* An object is recycled at most once, and a failed one that nobody references
\* is about to be.
THEOREM RecycledExactlyOnce == Spec => []RecycledOnce
BY Invariance, IInvSafe, PTL

\* No CHECK and no LOG(FATAL) of Dereference, AddressImpl, Revive and the health
\* check can be reached.
THEOREM ChecksNeverFail == Spec => []NoFatal
BY Invariance, IInvSafe, PTL

\* Once the owner released the additional reference for good, no health check
\* revives the object.
THEOREM RemovalIsFinal == Spec => RemovedStaysFailed
<1>1. IInv /\ [Next]_vars => [pc[Owner] \in {"unhold", "dropHC"}
      /\ ver = thisId + 1 => ver' # thisId]_vars
  <2> SUFFICES ASSUME IInv, Next, pc[Owner] \in {"unhold", "dropHC"}, ver = thisId + 1, ver' = thisId
               PROVE  FALSE
    OBVIOUS
  <2>1. thisId \in Nat /\ ver # thisId /\ status = "released"
        /\ \A c \in Checkers : pc[c] # "revive2"
    BY DEF IInv, TypeOK, Ids, OwnerInv, CheckInv, Reviving
  <2>2. ~\E p \in Procs : RecycleCas(p)
    BY <2>1, Parity DEF RecycleCas, vref, IInv, TypeOK, Ids
  <2>3. ver' = ver \/ ver' = thisId + 1 \/ \E c \in Checkers : ReviveVersion(c)
    BY <2>2 DEF Next, User, Finish, Check, Create, Remove, Unhold, DropHC, Address, SetFailed,
       ReleaseAdditionalReference, ReAddress, HCAddress, WaitAndReset, CheckHealth, Revive, ReviveDone,
       Unref, Recycle, Drop, ReleaseImpl, DropAdditional
  <2> QED BY <2>1, <2>3 DEF ReviveVersion
<1> QED BY <1>1, Invariance, PTL DEF Spec, RemovedStaysFailed
=============================================================================
