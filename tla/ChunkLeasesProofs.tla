------------------------- MODULE ChunkLeasesProofs -------------------------
(***************************************************************************)
(* Proofs about the lease tables, for any number of chunks, servers and    *)
(* leases, and that they implement LeaseTable.                             *)
(***************************************************************************)
EXTENDS ChunkLeasesTable, TLAPS

\* The expiration times the code assigns are within the modelled range.
LEMMA TTLRange ==
    /\ Forever \in TTL /\ LeaseInterval \in TTL /\ -1 \in TTL
    /\ 1..LeaseInterval \subseteq TTL
    /\ TTL \subseteq Int
    /\ \A t \in TTL : Later(t) \in TTL
  BY IntervalType, DelayType DEF TTL, Forever, LongExpired, Later

\* Renewal changes nothing but the expiration time.
LEMMA RenewLemma ==
    ASSUME NEW w \in WriteLease
    PROVE  /\ Renew(w) \in WriteLease
           /\ Renew(w).id = w.id
           /\ Renew(w).allocInFlight = w.allocInFlight
           /\ Renew(w).relinquished = w.relinquished
  BY TTLRange DEF Renew, WriteLease

\* Expiring a lease changes nothing but the expiration time.
LEMMA ExpireLemma ==
    ASSUME NEW w \in WriteLease
    PROVE  /\ Expire(w) \in WriteLease
           /\ Expire(w).id = w.id
           /\ Expire(w).allocInFlight = w.allocInFlight
           /\ Expire(w).relinquished = w.relinquished
  BY TTLRange DEF Expire, WriteLease

\* Renewing a lease only if it is valid changes nothing but the expiration time.
LEMMA RenewValidLemma ==
    ASSUME NEW w \in WriteLease
    PROVE  /\ RenewValid(w) \in WriteLease
           /\ RenewValid(w).id = w.id
           /\ RenewValid(w).allocInFlight = w.allocInFlight
           /\ RenewValid(w).relinquished = w.relinquished
  BY RenewLemma DEF RenewValid

\* The loss of a replica never erases a lease, hands it to another allocation,
\* or marks it relinquished.
LEMMA ReplicaLostLemma ==
    ASSUME NEW c \in Chunks, NEW s \in Servers, NEW down \in BOOLEAN,
           NEW w \in WriteLease
    PROVE  /\ ReplicaLost(c, w, s, down) \in WriteLease
           /\ ReplicaLost(c, w, s, down).id = w.id
           /\ ReplicaLost(c, w, s, down).allocInFlight = w.allocInFlight
           /\ ReplicaLost(c, w, s, down).relinquished = w.relinquished
  <1> DEFINE v == IF c \in Striped /\ Valid(w) THEN Renew(w) ELSE Expire(w)
  <1>1. /\ v \in WriteLease /\ v.id = w.id
        /\ v.allocInFlight = w.allocInFlight /\ v.relinquished = w.relinquished
    BY RenewLemma, ExpireLemma
  <1> HIDE DEF v
  <1> DEFINE u == [v EXCEPT !.ownerWasDown = @ \/ down, !.server = NoServer]
  <1>2. /\ u \in WriteLease /\ u.id = v.id
        /\ u.allocInFlight = v.allocInFlight /\ u.relinquished = v.relinquished
    <2>1. (v.ownerWasDown \/ down) \in BOOLEAN
      BY <1>1 DEF WriteLease
    <2> QED BY <1>1, <2>1, Zenon DEF WriteLease
  <1>3. ReplicaLost(c, w, s, down) = u \/ ReplicaLost(c, w, s, down) = w
    BY DEF ReplicaLost, u, v
  <1> QED BY <1>1, <1>2, <1>3, Zenon

\* The loss of a replica does not make a lease where there is none.
LEMMA ReplicaLostNone ==
    ASSUME NEW c, NEW s, NEW down
    PROVE  ReplicaLost(c, NoLease, s, down) = NoLease
  BY DEF ReplicaLost

\* Handing out a lease, and relinquishing it, keep its id.
LEMMA CommitLemma ==
    ASSUME NEW w \in WriteLease
    PROVE  /\ AllocDoneLease(w) \in WriteLease
           /\ AllocDoneLease(w).id = w.id
           /\ AllocDoneLease(w).allocInFlight = FALSE
           /\ AllocDoneLease(w).relinquished = w.relinquished
  BY TTLRange, Zenon DEF AllocDoneLease, WriteLease

\* A lease whose owner is gone keeps its id and its allocation.
LEMMA OwnerGoneLemma ==
    ASSUME NEW w \in WriteLease
    PROVE  LET v == [w EXCEPT !.relinquished = TRUE, !.server = NoServer] IN
           /\ v \in WriteLease /\ v.id = w.id
           /\ v.allocInFlight = w.allocInFlight /\ v.relinquished
  BY Zenon DEF WriteLease

\* A relinquished lease keeps its id and its allocation.
LEMMA RelinquishLemma ==
    ASSUME NEW w \in WriteLease
    PROVE  /\ Relinquished(w) \in WriteLease
           /\ Relinquished(w).id = w.id
           /\ Relinquished(w).allocInFlight = w.allocInFlight
           /\ Relinquished(w).relinquished
  <1>1. /\ Expire(w) \in WriteLease /\ Expire(w).id = w.id
        /\ Expire(w).allocInFlight = w.allocInFlight
    BY ExpireLemma
  <1> QED BY <1>1, OwnerGoneLemma, Zenon DEF Relinquished

-----------------------------------------------------------------------------
(* Type correctness. *)

\* An empty lease table has its type.
LEMMA InitTypeOK == Init => TypeOK
  BY DEF Init, TypeOK

\* Every handler keeps the types.
LEMMA NextTypeOK == TypeOK /\ [Next]_vars => TypeOK'
  <1> SUFFICES ASSUME TypeOK, [Next]_vars PROVE TypeOK'
    OBVIOUS
  <1> USE DEF TypeOK
  <1>1. ASSUME NEW a \in allocs, AllocSucceeds(a) PROVE TypeOK'
    <2> DEFINE c == a.chunk
    <2>1. a \in Alloc /\ c \in Chunks
      BY DEF Alloc
    <2>4. mWriteLeases' \in [Chunks -> WriteLease \cup {NoLease}]
      BY <1>1, <2>1, CommitLemma, Zenon DEF AllocSucceeds, Validate
    <2>5. hosts' \in [Chunks -> SUBSET Servers]
      BY <1>1, <2>1 DEF AllocSucceeds, Alloc
    <2>6. deferred' \subseteq [chunk : Chunks, id : Nat]
      BY <1>1, <2>1 DEF AllocSucceeds, Alloc
    <2> QED BY <1>1, <2>1, <2>4, <2>5, <2>6 DEF AllocSucceeds
  <1>2. ASSUME NEW a \in allocs, AllocFails(a) PROVE TypeOK'
    BY <1>2 DEF AllocFails, Alloc
  <1>3. ASSUME NEW a \in allocs, AllocStale(a) PROVE TypeOK'
    BY <1>3 DEF AllocStale
  <1>4. ASSUME NEW a \in allocs, AssignChunkIdFails(a) PROVE TypeOK'
    BY <1>4, Zenon DEF AssignChunkIdFails
  <1>5. CASE LeaseCleanup
    BY <1>5, Zenon DEF LeaseCleanup, ReadCleanup
  <1>6. CASE Tick
    <2>1. \A c \in Chunks : \A r \in mReadLeases[c] :
              [r EXCEPT !.ttl = Later(@)] \in [id : ReadIds, ttl : TTL]
      BY TTLRange
    <2>2. \A w \in WriteLease : [w EXCEPT !.ttl = Later(@)] \in WriteLease
      BY TTLRange DEF WriteLease
    <2> QED BY <1>6, <2>1, <2>2 DEF Tick
  <1>7. ASSUME NEW s \in Servers, ServerDown(s) PROVE TypeOK'
    <2>1. \A c \in Chunks :
              ReplicaLost(c, mWriteLeases[c], s, TRUE) \in WriteLease \cup {NoLease}
      <3> SUFFICES ASSUME NEW c \in Chunks
                   PROVE  ReplicaLost(c, mWriteLeases[c], s, TRUE)
                              \in WriteLease \cup {NoLease}
        BY Zenon
      <3>1. CASE mWriteLeases[c] = NoLease
        BY <3>1, ReplicaLostNone, Zenon
      <3>2. CASE mWriteLeases[c] \in WriteLease
        BY <3>2, ReplicaLostLemma, TRUE \in BOOLEAN, Zenon
      <3> QED BY <3>1, <3>2, Zenon
    <2>2. allocs' \subseteq Alloc
      BY <1>7, Zenon DEF ServerDown, Alloc
    <2> QED BY <1>7, <2>1, <2>2, Zenon DEF ServerDown
  <1>8. ASSUME NEW d \in deferred, NEW z \in BOOLEAN, DeferredRelinquish(d, z)
        PROVE TypeOK'
    <2>1. d.chunk \in Chunks
      OBVIOUS
    <2> QED BY <1>8, <2>1, RelinquishLemma
            DEF DeferredRelinquish, RelinquishWrite, MakeChunkStableInit
  <1>9. ASSUME NEW c \in Chunks PROVE
          /\ \A srvs \in SUBSET Servers, append \in BOOLEAN :
                AllocateChunk(c, srvs, append) => TypeOK'
          /\ GetChunkWriteLease(c) => TypeOK'
    <2>1. \A s \in Servers, append \in BOOLEAN : NewLease(s, append) \in WriteLease
      BY TTLRange DEF NewLease, WriteLease
    <2>2. \A new \in BOOLEAN, srvs \in SUBSET Servers :
              NewAlloc(c, new, srvs) \in Alloc
      BY DEF NewAlloc, Alloc
    <2>3. ASSUME NEW srvs \in SUBSET Servers, NEW append \in BOOLEAN,
                 AllocateChunk(c, srvs, append)
          PROVE TypeOK'
      <3> DEFINE n == NewAlloc(c, TRUE, srvs)
      <3>1. n \in Alloc /\ allocs' = allocs \cup {n}
        BY <2>2, <2>3, Zenon DEF AllocateChunk
      <3> HIDE DEF n
      <3>5. allocs' \subseteq Alloc
        BY <3>1
      <3>2. PICK s \in Servers :
              mWriteLeases' = [mWriteLeases EXCEPT ![c] = NewLease(s, append)]
        BY <2>3, Zenon DEF AllocateChunk
      <3>3. NewLease(s, append) \in WriteLease
        BY <2>1, Zenon
      <3>4. mWriteLeases' \in [Chunks -> WriteLease \cup {NoLease}]
        BY <3>2, <3>3
      <3>6. /\ nextId' = nextId + 1
            /\ UNCHANGED <<mReadLeases, mapped, hosts, nonStable, changing,
                           deferred, metaUp, asked, dirty>>
        BY <2>3, Zenon DEF AllocateChunk
      <3> QED BY <3>4, <3>5, <3>6
    <2>4. ASSUME GetChunkWriteLease(c) PROVE TypeOK'
      <3> DEFINE n == NewAlloc(c, FALSE, hosts[c])
      <3>1. n \in Alloc /\ allocs' = allocs \cup {n}
        BY <2>2, <2>4, Zenon DEF GetChunkWriteLease
      <3> HIDE DEF n
      <3>5. allocs' \subseteq Alloc
        BY <3>1
      <3>2. \A s \in hosts[c] : NewLease(s, FALSE) \in WriteLease
        BY <2>1, Zenon
      <3>3. PICK s \in hosts[c] :
              mWriteLeases' = [mWriteLeases EXCEPT ![c] = NewLease(s, FALSE)]
        BY <2>4, Zenon DEF GetChunkWriteLease
      <3>4. mWriteLeases' \in [Chunks -> WriteLease \cup {NoLease}]
        BY <3>2, <3>3, Zenon
      <3>6. /\ nextId' = nextId + 1
            /\ mReadLeases' = [mReadLeases EXCEPT ![c] = {}]
            /\ UNCHANGED <<mapped, hosts, nonStable, changing, deferred, metaUp,
                           asked, dirty>>
        BY <2>4, Zenon DEF GetChunkWriteLease
      <3> QED BY <3>4, <3>5, <3>6
    <2> QED BY <2>3, <2>4, Zenon
  <1>10. ASSUME NEW c \in Chunks, WriteLeaseDenied(c) PROVE TypeOK'
    BY <1>10, RenewValidLemma DEF WriteLeaseDenied, Valid
  <1>11. ASSUME NEW c \in Chunks, WriteLeaseCleanup(c) PROVE TypeOK'
    BY <1>11, Zenon DEF WriteLeaseCleanup, ReadCleanup, MakeChunkStableInit
  <1>12. ASSUME NEW c \in Chunks, WriteLeaseNoSpace(c) PROVE TypeOK'
    BY <1>12 DEF WriteLeaseNoSpace
  <1>13. ASSUME NEW c \in Chunks, NEW id \in ReadIds, NEW t \in 1..LeaseInterval,
                GetChunkReadLease(c, id, t)
         PROVE TypeOK'
    BY <1>13, TTLRange DEF GetChunkReadLease
  <1>14. ASSUME NEW c \in Chunks, FlushWriteLease(c) PROVE TypeOK'
    BY <1>14, Zenon DEF FlushWriteLease, MakeChunkStableInit
  <1>15. ASSUME NEW c \in Chunks, RenewRead(c) PROVE TypeOK'
    BY <1>15, TTLRange DEF RenewRead
  <1>16. ASSUME NEW c \in Chunks, NEW denied \in BOOLEAN, RenewWrite(c, denied)
         PROVE TypeOK'
    BY <1>16, RenewValidLemma, ExpireLemma DEF RenewWrite
  <1>17. ASSUME NEW c \in Chunks, RelinquishRead(c) PROVE TypeOK'
    BY <1>17 DEF RelinquishRead
  <1>18. ASSUME NEW c \in Chunks, NEW z \in BOOLEAN, LeaseRelinquish(c, z)
         PROVE TypeOK'
    <2>1. allocs' \subseteq Alloc
      <3>1. \A a \in Alloc : [a EXCEPT !.relinquish = TRUE] \in Alloc
        BY Zenon DEF Alloc
      <3> QED BY <1>18, <3>1 DEF LeaseRelinquish
    <2>2. mWriteLeases[c].id \in Nat
      BY <1>18 DEF LeaseRelinquish, WriteLease
    <2>3. mWriteLeases' \in [Chunks -> WriteLease \cup {NoLease}]
      BY <1>18, RelinquishLemma DEF LeaseRelinquish, RelinquishWrite
    <2>4. nonStable' \subseteq Chunks /\ dirty' \subseteq Chunks
      BY <1>18 DEF LeaseRelinquish, RelinquishWrite, MakeChunkStableInit
    <2> QED BY <1>18, <2>1, <2>2, <2>3, <2>4 DEF LeaseRelinquish
  <1>19. ASSUME NEW c \in Chunks, AllocateChunkForAppend(c) PROVE TypeOK'
    BY <1>19, RenewValidLemma DEF AllocateChunkForAppend, Valid
  <1>20. ASSUME NEW c \in Chunks, NEW s \in Servers, ChunkCorrupt(c, s)
         PROVE TypeOK'
    <2>1. ReplicaLost(c, mWriteLeases[c], s, FALSE) \in WriteLease \cup {NoLease}
      <3>1. CASE mWriteLeases[c] = NoLease
        BY <3>1, ReplicaLostNone, Zenon
      <3>2. CASE mWriteLeases[c] \in WriteLease
        BY <3>2, ReplicaLostLemma, FALSE \in BOOLEAN, Zenon
      <3> QED BY <3>1, <3>2, Zenon
    <2> QED BY <1>20, <2>1, Zenon DEF ChunkCorrupt
  <1>21. ASSUME NEW c \in Chunks, NEW s \in Servers, AddHosted(c, s)
         PROVE TypeOK'
    BY <1>21 DEF AddHosted
  <1>22. ASSUME NEW c \in Chunks,
                DeleteChunk(c) \/ InvalidateAllChunkReplicas(c)
         PROVE TypeOK'
    BY <1>22, Zenon DEF DeleteChunk, InvalidateAllChunkReplicas
  <1>23. ASSUME NEW c \in Chunks, NEW all \in BOOLEAN, MakeChunkStableDone(c, all)
         PROVE TypeOK'
    BY <1>23 DEF MakeChunkStableDone
  <1>24. ASSUME NEW c \in Chunks, ChunkVersChangeDone(c) PROVE TypeOK'
    BY <1>24 DEF ChunkVersChangeDone
  <1>25. CASE UNCHANGED vars
    BY <1>25 DEF vars
  <1> QED
    BY <1>1, <1>2, <1>3, <1>4, <1>5, <1>6, <1>7, <1>8, <1>9, <1>10, <1>11,
       <1>12, <1>13, <1>14, <1>15, <1>16, <1>17, <1>18, <1>19, <1>20, <1>21,
       <1>22, <1>23, <1>24, <1>25, Zenon
    DEF Next, AllocDone, HandleDeferred, StableDone

\* The lease tables stay well formed: for any number of chunks and servers no
\* handler leaves a lease with an expiration time outside of the range that the
\* code compares, or an allocation request for something that is not a chunk.
THEOREM TypeCorrect == Spec => []TypeOK
  BY InitTypeOK, NextTypeOK, PTL DEF Spec

-----------------------------------------------------------------------------
(* Allocation requests and the leases they own. *)

\* The part of the inductive invariant about lease ids and allocations.
IdInv ==
    /\ AllocationOwnsLease
    /\ \A a \in allocs : a.id < nextId
    /\ \A a, b \in allocs : a.id = b.id => a = b
    /\ \A c \in Chunks : mWriteLeases[c] # NoLease => mWriteLeases[c].id < nextId

\* What most handlers do to a lease: erase it, or leave its id and its
\* allocation alone.  A relinquished lease stays so.
KeepsLeases ==
    \A c \in Chunks : mWriteLeases'[c] # NoLease =>
        /\ mWriteLeases[c] # NoLease
        /\ mWriteLeases'[c].id = mWriteLeases[c].id
        /\ mWriteLeases'[c].allocInFlight = mWriteLeases[c].allocInFlight
        /\ mWriteLeases[c].relinquished => mWriteLeases'[c].relinquished

\* What most handlers do to the allocation requests: flag some of them.
KeepsAllocs ==
    /\ \A a \in allocs : \E b \in allocs' : b.chunk = a.chunk /\ b.id = a.id
    /\ \A b \in allocs' : \E a \in allocs : b.chunk = a.chunk /\ b.id = a.id
    /\ \A a, b \in allocs' : a.id = b.id => a = b

\* The handlers that make no new lease, and do not hand one out.
QuietStep ==
    \/ LeaseCleanup \/ Tick \/ HandleDeferred \/ UNCHANGED vars
    \/ \E s \in Servers : ServerDown(s)
    \/ \E a \in allocs : AllocFails(a) \/ AllocStale(a) \/ AssignChunkIdFails(a)
    \/ \E c \in Chunks :
        \/ WriteLeaseDenied(c) \/ AllocateChunkForAppend(c)
        \/ \E denied \in BOOLEAN : RenewWrite(c, denied)
        \/ WriteLeaseCleanup(c) \/ WriteLeaseNoSpace(c) \/ FlushWriteLease(c)
        \/ DeleteChunk(c) \/ InvalidateAllChunkReplicas(c) \/ StableDone(c)
        \/ \E s \in Servers : ChunkCorrupt(c, s)
        \/ \E z \in BOOLEAN : LeaseRelinquish(c, z)
        \/ RenewRead(c) \/ RelinquishRead(c) \/ ChunkVersChangeDone(c)
        \/ \E s \in Servers : AddHosted(c, s)
        \/ \E id \in ReadIds, t \in 1..LeaseInterval : GetChunkReadLease(c, id, t)

\* A step is one of those, a new allocation, or an allocation that succeeds.
LEMMA StepKinds ==
    ASSUME [Next]_vars
    PROVE  \/ QuietStep
           \/ \E a \in allocs : AllocSucceeds(a)
           \/ \E c \in Chunks : GetChunkWriteLease(c)
           \/ \E c \in Chunks, srvs \in SUBSET Servers, append \in BOOLEAN :
                 AllocateChunk(c, srvs, append)
  BY Zenon DEF Next, AllocDone, QuietStep

\* A lease keeps its id and whether its allocation is in flight.
LEMMA LeasesKept == TypeOK /\ QuietStep => KeepsLeases
  <1> SUFFICES ASSUME TypeOK, QuietStep PROVE KeepsLeases
    OBVIOUS
  <1>1. ASSUME NEW c \in Chunks,
               \/ WriteLeaseDenied(c)
               \/ AllocateChunkForAppend(c)
               \/ \E denied \in BOOLEAN : RenewWrite(c, denied)
        PROVE KeepsLeases
    BY <1>1, RenewValidLemma, ExpireLemma
    DEF WriteLeaseDenied, AllocateChunkForAppend, RenewWrite, Valid, TypeOK,
        KeepsLeases
  <1>2. ASSUME NEW c \in Chunks,
               \/ WriteLeaseCleanup(c)
               \/ WriteLeaseNoSpace(c)
               \/ FlushWriteLease(c)
               \/ DeleteChunk(c)
               \/ InvalidateAllChunkReplicas(c)
               \/ StableDone(c)
        PROVE KeepsLeases
    BY <1>2, Zenon
    DEF WriteLeaseCleanup, WriteLeaseNoSpace, FlushWriteLease, DeleteChunk, StableDone,
        InvalidateAllChunkReplicas, MakeChunkStableDone, TypeOK, KeepsLeases
  <1>3. ASSUME mWriteLeases' = mWriteLeases PROVE KeepsLeases
    BY <1>3 DEF KeepsLeases
  <1>4. CASE LeaseCleanup
    BY <1>4 DEF LeaseCleanup, KeepsLeases, TypeOK
  <1>5. CASE Tick
    BY <1>5 DEF Tick, KeepsLeases, TypeOK, WriteLease
  <1>6. ASSUME NEW s \in Servers, ServerDown(s) PROVE KeepsLeases
    <2> SUFFICES ASSUME NEW c \in Chunks, mWriteLeases'[c] # NoLease
                 PROVE  /\ mWriteLeases[c] # NoLease
                        /\ mWriteLeases'[c].id = mWriteLeases[c].id
                        /\ mWriteLeases'[c].allocInFlight
                             = mWriteLeases[c].allocInFlight
                        /\ mWriteLeases[c].relinquished
                             => mWriteLeases'[c].relinquished
      BY DEF KeepsLeases
    <2>1. mWriteLeases'[c] = ReplicaLost(c, mWriteLeases[c], s, TRUE)
      BY <1>6, Zenon DEF ServerDown
    <2>2. mWriteLeases[c] \in WriteLease
      BY <2>1, ReplicaLostNone, Zenon DEF TypeOK
    <2> DEFINE v == ReplicaLost(c, mWriteLeases[c], s, TRUE)
    <2>3. v.id = mWriteLeases[c].id
          /\ v.allocInFlight = mWriteLeases[c].allocInFlight
          /\ v.relinquished = mWriteLeases[c].relinquished
      BY <2>2, ReplicaLostLemma, TRUE \in BOOLEAN, Zenon
    <2>4. mWriteLeases'[c] = v
      BY <2>1
    <2> HIDE DEF v
    <2> QED BY <2>2, <2>3, <2>4, NoLeaseNew
  <1>7. ASSUME NEW c \in Chunks, NEW s \in Servers, ChunkCorrupt(c, s)
        PROVE KeepsLeases
    <2> DEFINE v == ReplicaLost(c, mWriteLeases[c], s, FALSE)
    <2>1. mWriteLeases'[c] = v
      BY <1>7 DEF ChunkCorrupt, TypeOK
    <2>2. mWriteLeases[c] \in WriteLease =>
              /\ v.id = mWriteLeases[c].id
              /\ v.allocInFlight = mWriteLeases[c].allocInFlight
              /\ v.relinquished = mWriteLeases[c].relinquished
      BY ReplicaLostLemma, FALSE \in BOOLEAN, Zenon
    <2>3. mWriteLeases[c] = NoLease => mWriteLeases'[c] = NoLease
      BY <2>1, ReplicaLostNone, Zenon
    <2>4. \A d \in Chunks : d # c => mWriteLeases'[d] = mWriteLeases[d]
      BY <1>7, Zenon DEF ChunkCorrupt, TypeOK
    <2> HIDE DEF v
    <2> QED BY <2>1, <2>2, <2>3, <2>4 DEF KeepsLeases, TypeOK
  <1>8. ASSUME NEW c \in Chunks, NEW z \in BOOLEAN, LeaseRelinquish(c, z)
        PROVE KeepsLeases
    BY <1>8, RelinquishLemma
    DEF LeaseRelinquish, RelinquishWrite, KeepsLeases, TypeOK
  <1>9. ASSUME NEW d \in deferred, NEW z \in BOOLEAN, DeferredRelinquish(d, z)
        PROVE KeepsLeases
    BY <1>9, RelinquishLemma
    DEF DeferredRelinquish, RelinquishWrite, KeepsLeases, TypeOK
  <1>10. ASSUME NEW a \in allocs, AllocFails(a) \/ AllocStale(a) PROVE KeepsLeases
    <2>1. a.chunk \in Chunks
      BY DEF TypeOK, Alloc
    <2> QED BY <1>10, <2>1 DEF AllocFails, AllocStale, TypeOK, KeepsLeases
  <1>11. ASSUME NEW c \in Chunks,
                \/ RenewRead(c)
                \/ RelinquishRead(c)
                \/ ChunkVersChangeDone(c)
                \/ \E s \in Servers : AddHosted(c, s)
                \/ \E id \in ReadIds, t \in 1..LeaseInterval :
                      GetChunkReadLease(c, id, t)
         PROVE KeepsLeases
    BY <1>3, <1>11
    DEF RenewRead, RelinquishRead, ChunkVersChangeDone, AddHosted,
        GetChunkReadLease
  <1>12. ASSUME NEW a \in allocs, AssignChunkIdFails(a) PROVE KeepsLeases
    BY <1>3, <1>12 DEF AssignChunkIdFails
  <1>13. CASE UNCHANGED vars
    BY <1>3, <1>13 DEF vars
  <1> QED
    BY <1>1, <1>2, <1>4, <1>5, <1>6, <1>7, <1>8, <1>9, <1>10, <1>11, <1>12, <1>13, Zenon
    DEF QuietStep, HandleDeferred

\* A handler that issues no lease and leaves the allocations in flight and their
\* leases alone keeps what the invariant says about ids.
LEMMA KeepsIdInv ==
    ASSUME IdInv, KeepsLeases, KeepsAllocs, nextId' = nextId
    PROVE  IdInv'
  <1>1. AllocationOwnsLease'
    BY DEF IdInv, KeepsLeases, KeepsAllocs, AllocationOwnsLease
  <1>2. \A a \in allocs' : a.id < nextId'
    BY DEF IdInv, KeepsAllocs
  <1> QED BY <1>1, <1>2 DEF IdInv, KeepsLeases, KeepsAllocs

\* Untouched allocations are kept.
LEMMA SameAllocs ==
    ASSUME IdInv, allocs' = allocs
    PROVE  KeepsAllocs
  BY DEF IdInv, KeepsAllocs

\* Every handler keeps what the invariant says about lease ids.
LEMMA NextIdInv == TypeOK /\ IdInv /\ [Next]_vars => IdInv'
  <1> SUFFICES ASSUME TypeOK, IdInv, [Next]_vars PROVE IdInv'
    OBVIOUS
  <1>1. ASSUME NEW c \in Chunks,
               \/ WriteLeaseDenied(c)
               \/ AllocateChunkForAppend(c)
               \/ \E denied \in BOOLEAN : RenewWrite(c, denied)
        PROVE IdInv'
    <2>1. KeepsLeases
      BY <1>1, LeasesKept, Zenon DEF QuietStep
    <2>2. allocs' = allocs /\ nextId' = nextId
      BY <1>1 DEF WriteLeaseDenied, AllocateChunkForAppend, RenewWrite
    <2> QED BY <2>1, <2>2, KeepsIdInv, SameAllocs
  <1>2. ASSUME NEW c \in Chunks,
               \/ WriteLeaseCleanup(c)
               \/ WriteLeaseNoSpace(c)
               \/ FlushWriteLease(c)
               \/ DeleteChunk(c)
               \/ InvalidateAllChunkReplicas(c)
               \/ StableDone(c)
        PROVE IdInv'
    <2>1. KeepsLeases
      BY <1>2, LeasesKept, Zenon DEF QuietStep
    <2>2. allocs' = allocs /\ nextId' = nextId
      BY <1>2, Zenon
      DEF WriteLeaseCleanup, WriteLeaseNoSpace, FlushWriteLease, DeleteChunk,
          InvalidateAllChunkReplicas, StableDone, MakeChunkStableDone
    <2> QED BY <2>1, <2>2, KeepsIdInv, SameAllocs
  <1>3. ASSUME UNCHANGED <<mWriteLeases, allocs, nextId>> PROVE IdInv'
    BY <1>3 DEF IdInv, AllocationOwnsLease
  <1>4. CASE LeaseCleanup
    <2>1. KeepsLeases
      BY <1>4, LeasesKept, Zenon DEF QuietStep
    <2> QED BY <1>4, <2>1, KeepsIdInv, SameAllocs DEF LeaseCleanup
  <1>5. CASE Tick
    <2>1. KeepsLeases
      BY <1>5, LeasesKept, Zenon DEF QuietStep
    <2> QED BY <1>5, <2>1, KeepsIdInv, SameAllocs DEF Tick
  <1>6. ASSUME NEW s \in Servers, ServerDown(s) PROVE IdInv'
    <2>1. KeepsLeases
      BY <1>6, LeasesKept, Zenon DEF QuietStep
    <2>2. KeepsAllocs
      <3> DEFINE f(a) == IF s \in a.servers THEN [a EXCEPT !.serverDown = TRUE]
                         ELSE a
      <3>1. allocs' = {f(a) : a \in allocs}
        BY <1>6 DEF ServerDown
      <3>2. \A a \in allocs : f(a).chunk = a.chunk /\ f(a).id = a.id
        BY DEF TypeOK, Alloc
      <3> HIDE DEF f
      <3> QED BY <3>1, <3>2 DEF KeepsAllocs, IdInv
    <2> QED BY <1>6, <2>1, <2>2, KeepsIdInv DEF ServerDown
  <1>7. ASSUME NEW c \in Chunks, NEW s \in Servers, ChunkCorrupt(c, s)
        PROVE IdInv'
    <2>1. KeepsLeases
      BY <1>7, LeasesKept, Zenon DEF QuietStep
    <2> QED BY <1>7, <2>1, KeepsIdInv, SameAllocs DEF ChunkCorrupt
  <1>8. ASSUME NEW c \in Chunks, NEW z \in BOOLEAN, LeaseRelinquish(c, z)
        PROVE IdInv'
    <2>1. KeepsLeases
      BY <1>8, LeasesKept, Zenon DEF QuietStep
    <2>2. KeepsAllocs
      <3>1. CASE allocs' = allocs
        BY <3>1, SameAllocs
      <3>2. CASE allocs' # allocs
        <4> DEFINE f(a) == IF a.chunk = c /\ a.id = mWriteLeases[c].id
                           THEN [a EXCEPT !.relinquish = TRUE] ELSE a
        <4>1. allocs' = {f(a) : a \in allocs}
          BY <1>8, <3>2, Zenon DEF LeaseRelinquish
        <4>2. \A a \in allocs : f(a).chunk = a.chunk /\ f(a).id = a.id
          BY DEF TypeOK, Alloc
        <4> HIDE DEF f
        <4> QED BY <4>1, <4>2 DEF KeepsAllocs, IdInv
      <3> QED BY <3>1, <3>2
    <2> QED BY <1>8, <2>1, <2>2, KeepsIdInv DEF LeaseRelinquish
  <1>9. ASSUME NEW d \in deferred, NEW z \in BOOLEAN, DeferredRelinquish(d, z)
        PROVE IdInv'
    <2>1. KeepsLeases
      BY <1>9, LeasesKept, Zenon DEF QuietStep, HandleDeferred
    <2> QED BY <1>9, <2>1, KeepsIdInv, SameAllocs DEF DeferredRelinquish
  <1>10. ASSUME NEW a \in allocs, AllocSucceeds(a) PROVE IdInv'
    <2>1. a.chunk \in Chunks /\ mWriteLeases[a.chunk] \in WriteLease
          /\ mWriteLeases[a.chunk].id = a.id
      BY <1>10 DEF AllocSucceeds, Validate, TypeOK, Alloc
    <2>2. /\ mWriteLeases'[a.chunk].id = a.id
          /\ mWriteLeases'[a.chunk].allocInFlight = FALSE
          /\ \A c \in Chunks : c # a.chunk => mWriteLeases'[c] = mWriteLeases[c]
          /\ allocs' = allocs \ {a}
          /\ nextId' = nextId
      BY <1>10, <2>1, CommitLemma, Zenon DEF AllocSucceeds, TypeOK
    <2>3. \A c \in Chunks : c # a.chunk /\ mWriteLeases[c] # NoLease
             => mWriteLeases[c].id # a.id \/ ~mWriteLeases[c].allocInFlight
      BY <2>1 DEF IdInv, AllocationOwnsLease
    <2>4. AllocationOwnsLease'
      BY <2>1, <2>2, <2>3 DEF IdInv, AllocationOwnsLease
    <2> QED BY <2>1, <2>2, <2>4 DEF IdInv
  <1>11. ASSUME NEW a \in allocs, AllocFails(a) \/ AllocStale(a) PROVE IdInv'
    <2>1. a.chunk \in Chunks /\ allocs' = allocs \ {a} /\ nextId' = nextId
      BY <1>11 DEF AllocFails, AllocStale, TypeOK, Alloc
    <2>2. KeepsLeases
      BY <1>11, LeasesKept, Zenon DEF QuietStep
    <2>3. mWriteLeases'[a.chunk] # NoLease =>
             mWriteLeases[a.chunk].id # a.id
      BY <1>11, <2>1
      DEF AllocFails, AllocStale, Validate, TypeOK, IdInv, AllocationOwnsLease
    <2>4. AllocationOwnsLease'
      BY <2>1, <2>2, <2>3 DEF IdInv, AllocationOwnsLease, KeepsLeases
    <2> QED BY <2>1, <2>2, <2>4 DEF IdInv, KeepsLeases
  <1>12. ASSUME NEW c \in Chunks, NEW w, NEW n,
                w.id = nextId, w.allocInFlight = TRUE, w # NoLease,
                n.chunk = c, n.id = nextId, nextId' = nextId + 1,
                mWriteLeases' = [mWriteLeases EXCEPT ![c] = w],
                allocs' = allocs \cup {n}
         PROVE IdInv'
    <2>1. \A a \in allocs : a.id \in Nat /\ a.id # nextId
      BY DEF IdInv, TypeOK, Alloc
    <2>2. \A d \in Chunks : mWriteLeases[d] # NoLease => mWriteLeases[d].id \in Nat
      BY DEF TypeOK, WriteLease
    <2>3. AllocationOwnsLease'
      BY <1>12, <2>1 DEF IdInv, TypeOK, AllocationOwnsLease
    <2> QED BY <1>12, <2>1, <2>2, <2>3 DEF IdInv, TypeOK
  <1>13. \A s, append : /\ NewLease(s, append).id = nextId
                        /\ NewLease(s, append).allocInFlight = TRUE
    BY DEF NewLease
  <1>14. \A c, new, srvs : /\ NewAlloc(c, new, srvs).chunk = c
                           /\ NewAlloc(c, new, srvs).id = nextId
    BY DEF NewAlloc
  <1>15. \A s \in Servers, append \in BOOLEAN : NewLease(s, append) # NoLease
    <2>1. \A s \in Servers, append \in BOOLEAN : NewLease(s, append) \in WriteLease
      BY TTLRange DEF NewLease, WriteLease, TypeOK
    <2> QED BY <2>1, NoLeaseNew
  <1>16. ASSUME NEW c \in Chunks, NEW srvs \in SUBSET Servers,
                NEW append \in BOOLEAN, AllocateChunk(c, srvs, append)
         PROVE IdInv'
    <2>1. PICK s \in Servers :
             mWriteLeases' = [mWriteLeases EXCEPT ![c] = NewLease(s, append)]
      BY <1>16, Zenon DEF AllocateChunk
    <2> DEFINE w == NewLease(s, append)
               n == NewAlloc(c, TRUE, srvs)
    <2>2. w.id = nextId /\ w.allocInFlight = TRUE /\ w # NoLease
      BY <1>13, <1>15
    <2>3. n.chunk = c /\ n.id = nextId
      BY ONLY <1>14, Zenon
    <2>4. /\ nextId' = nextId + 1
          /\ mWriteLeases' = [mWriteLeases EXCEPT ![c] = w]
          /\ allocs' = allocs \cup {n}
      BY <1>16, <2>1, Zenon DEF AllocateChunk
    <2> HIDE DEF w, n
    <2> QED BY <2>2, <2>3, <2>4, <1>12, Zenon
  <1>17. ASSUME NEW c \in Chunks, GetChunkWriteLease(c)
         PROVE IdInv'
    <2>1. \E s \in hosts[c] :
             mWriteLeases' = [mWriteLeases EXCEPT ![c] = NewLease(s, FALSE)]
      BY <1>17, Zenon DEF GetChunkWriteLease
    <2>2. /\ hosts[c] \subseteq Servers
          /\ \A s \in Servers : NewLease(s, FALSE) # NoLease
      <3>1. hosts[c] \subseteq Servers
        BY DEF TypeOK
      <3>2. \A s \in Servers : NewLease(s, FALSE) # NoLease
        BY ONLY <1>15, FALSE \in BOOLEAN, Zenon
      <3> QED BY <3>1, <3>2, Zenon
    <2>3. PICK s, append : /\ mWriteLeases' = [mWriteLeases EXCEPT ![c] = NewLease(s, append)]
                           /\ NewLease(s, append) # NoLease
      BY ONLY <2>1, <2>2, Zenon
    <2>4. PICK new, srvs : allocs' = allocs \cup {NewAlloc(c, new, srvs)}
      BY <1>17, Zenon DEF GetChunkWriteLease
    <2>5. nextId' = nextId + 1
      BY <1>17, Zenon DEF GetChunkWriteLease
    <2> DEFINE w == NewLease(s, append)
               n == NewAlloc(c, new, srvs)
    <2>6. w.id = nextId /\ w.allocInFlight = TRUE /\ w # NoLease
      BY <1>13, <2>3, Zenon
    <2>7. n.chunk = c /\ n.id = nextId
      BY ONLY <1>14, Zenon
    <2>8. mWriteLeases' = [mWriteLeases EXCEPT ![c] = w] /\ allocs' = allocs \cup {n}
      BY <2>3, <2>4, Zenon
    <2> HIDE DEF w, n
    <2> QED BY <2>5, <2>6, <2>7, <2>8, <1>12, Zenon
  <1>18. ASSUME NEW c \in Chunks,
                \/ RenewRead(c)
                \/ RelinquishRead(c)
                \/ ChunkVersChangeDone(c)
                \/ \E s \in Servers : AddHosted(c, s)
                \/ \E id \in ReadIds, t \in 1..LeaseInterval :
                      GetChunkReadLease(c, id, t)
         PROVE IdInv'
    BY <1>3, <1>18
    DEF RenewRead, RelinquishRead, ChunkVersChangeDone, AddHosted,
        GetChunkReadLease
  <1>19. ASSUME NEW a \in allocs, AssignChunkIdFails(a) PROVE IdInv'
    BY <1>3, <1>19 DEF AssignChunkIdFails
  <1>20. CASE UNCHANGED vars
    BY <1>3, <1>20 DEF vars
  <1> QED
    BY <1>1, <1>2, <1>4, <1>5, <1>6, <1>7, <1>8, <1>9, <1>10, <1>11, <1>16,
       <1>17, <1>18, <1>19, <1>20
    DEF Next, AllocDone, HandleDeferred

-----------------------------------------------------------------------------
(* Readers, writers and make chunk stable.  Every conjunct is about one chunk, *)
(* so a handler that works on chunk c has to be looked at for c only.         *)

StableAt(c) ==
    LET w == mWriteLeases[c] IN
    /\ mReadLeases[c] = {} \/ w = NoLease
    /\ c \in nonStable /\ c \in mapped /\ w # NoLease => w.relinquished
    /\ c \in Crowded \/ (c \in dirty => w # NoLease /\ ~w.relinquished)
    /\ w # NoLease /\ w.allocInFlight => ~w.relinquished /\ c \notin nonStable
    /\ c \notin mapped => mReadLeases[c] = {} /\ c \notin dirty

StableInv == \A c \in Chunks : StableAt(c)

\* Nothing that StableAt(d) is about changes.
Same(d) ==
    /\ mWriteLeases'[d] = mWriteLeases[d]
    /\ mReadLeases'[d] = mReadLeases[d]
    /\ d \in nonStable' <=> d \in nonStable
    /\ d \in mapped' <=> d \in mapped
    /\ d \in dirty' <=> d \in dirty

\* A handler that touches one chunk need only be looked at for that chunk.
LEMMA OneChunk ==
    ASSUME StableInv, NEW c \in Chunks, StableAt(c)',
           \A d \in Chunks : d # c => Same(d)
    PROVE  StableInv'
  BY DEF StableInv, StableAt, Same

\* The lease of c may be renewed or expired, or lose its owner.
LEMMA LeaseTouched ==
    ASSUME NEW c \in Chunks, StableAt(c),
           mWriteLeases'[c] # NoLease <=> mWriteLeases[c] # NoLease,
           mWriteLeases[c] # NoLease =>
             /\ mWriteLeases'[c].relinquished = mWriteLeases[c].relinquished
             /\ mWriteLeases'[c].allocInFlight = mWriteLeases[c].allocInFlight,
           mReadLeases'[c] = mReadLeases[c],
           UNCHANGED <<nonStable, mapped, dirty>>
    PROVE  StableAt(c)'
  BY DEF StableAt

\* Every handler keeps what the invariant says about a chunk and its make stable.
LEMMA NextStableInv == TypeOK /\ StableInv /\ [Next]_vars => StableInv'
  <1> SUFFICES ASSUME TypeOK, StableInv, [Next]_vars PROVE StableInv'
    OBVIOUS
  <1>1. ASSUME NEW c \in Chunks,
               \/ WriteLeaseDenied(c)
               \/ AllocateChunkForAppend(c)
               \/ \E denied \in BOOLEAN : RenewWrite(c, denied)
        PROVE StableInv'
    <2>1. /\ \A d \in Chunks : d # c => Same(d)
          /\ mReadLeases' = mReadLeases
          /\ UNCHANGED <<nonStable, mapped, dirty>>
      BY <1>1
      DEF WriteLeaseDenied, AllocateChunkForAppend, RenewWrite, Same, TypeOK
    <2>2. /\ mWriteLeases[c] \in WriteLease
          /\ mWriteLeases'[c] \in WriteLease
          /\ mWriteLeases'[c].relinquished = mWriteLeases[c].relinquished
          /\ mWriteLeases'[c].allocInFlight = mWriteLeases[c].allocInFlight
      BY <1>1, RenewValidLemma, ExpireLemma
      DEF WriteLeaseDenied, AllocateChunkForAppend, RenewWrite, Valid, TypeOK
    <2>3. StableAt(c)'
      BY <2>1, <2>2, LeaseTouched, NoLeaseNew DEF StableInv
    <2> QED BY <2>1, <2>3, OneChunk
  <1>2. ASSUME NEW c \in Chunks, WriteLeaseCleanup(c) PROVE StableInv'
    <2>1. \A d \in Chunks : d # c => Same(d)
      BY <1>2, Zenon DEF WriteLeaseCleanup, MakeChunkStableInit, Same, TypeOK
    <2>2. mReadLeases'[c] \subseteq mReadLeases[c]
      BY <1>2 DEF WriteLeaseCleanup, ReadCleanup, TypeOK
    <2>3. StableAt(c)'
      BY <1>2, <2>2, Zenon
      DEF WriteLeaseCleanup, MakeChunkStableInit, CleanupMakesStable, StableInv,
          StableAt, TypeOK
    <2> QED BY <2>1, <2>3, OneChunk
  <1>3. ASSUME NEW c \in Chunks, WriteLeaseNoSpace(c) PROVE StableInv'
    <2>1. \A d \in Chunks : d # c => Same(d)
      BY <1>3 DEF WriteLeaseNoSpace, Same, TypeOK
    <2>2. StableAt(c)'
      BY <1>3 DEF WriteLeaseNoSpace, ReadyForNewLease, StableInv, StableAt, TypeOK
    <2> QED BY <2>1, <2>2, OneChunk
  <1>4. ASSUME NEW c \in Chunks,
               \/ FlushWriteLease(c)
               \/ DeleteChunk(c)
               \/ InvalidateAllChunkReplicas(c)
        PROVE StableInv'
    <2>1. \A d \in Chunks : d # c => Same(d)
      BY <1>4, Zenon
      DEF FlushWriteLease, MakeChunkStableInit, DeleteChunk,
          InvalidateAllChunkReplicas, Same, TypeOK
    <2>2. StableAt(c)'
      BY <1>4, Zenon
      DEF FlushWriteLease, MakeChunkStableInit, DeleteChunk,
          InvalidateAllChunkReplicas, StableInv, StableAt, TypeOK
    <2> QED BY <2>1, <2>2, OneChunk
  <1>5. ASSUME NEW c \in Chunks, NEW all \in BOOLEAN, MakeChunkStableDone(c, all)
        PROVE StableInv'
    <2>1. \A d \in Chunks : d # c => Same(d)
      BY <1>5 DEF MakeChunkStableDone, Same, TypeOK
    <2>2. StableAt(c)'
      BY <1>5
      DEF MakeChunkStableDone, WriteCleanupDue, StableInv, StableAt, TypeOK
    <2> QED BY <2>1, <2>2, OneChunk
  <1>6. ASSUME NEW c \in Chunks, NEW z \in BOOLEAN, RelinquishWrite(c, z),
               mWriteLeases[c] # NoLease, ~mWriteLeases[c].allocInFlight,
               c \in mapped, UNCHANGED <<mReadLeases, mapped>>
        PROVE StableInv'
    <2>1. \A d \in Chunks : d # c => Same(d)
      BY <1>6 DEF RelinquishWrite, MakeChunkStableInit, Same, TypeOK
    <2>2. ~mWriteLeases'[c].allocInFlight /\ mWriteLeases'[c].relinquished
      <3>1. mWriteLeases[c] \in WriteLease
            /\ mWriteLeases'[c] = Relinquished(mWriteLeases[c])
        BY <1>6 DEF RelinquishWrite, TypeOK
      <3> QED BY <1>6, <3>1, RelinquishLemma
    <2>3. StableAt(c)'
      BY <1>6, <2>2
      DEF RelinquishWrite, MakeChunkStableInit, StableInv, StableAt, TypeOK
    <2> QED BY <2>1, <2>3, OneChunk
  <1>7. ASSUME UNCHANGED <<mReadLeases, mWriteLeases, mapped, nonStable, dirty>>
        PROVE StableInv'
    BY <1>7 DEF StableInv, StableAt
  <1>8. ASSUME NEW c \in Chunks, NEW z \in BOOLEAN, LeaseRelinquish(c, z)
        PROVE StableInv'
    BY <1>6, <1>7, <1>8 DEF LeaseRelinquish
  <1>9. ASSUME NEW d \in deferred, NEW z \in BOOLEAN, DeferredRelinquish(d, z)
        PROVE StableInv'
    BY <1>6, <1>7, <1>9 DEF DeferredRelinquish, TypeOK
  <1>10. CASE LeaseCleanup
    <2> SUFFICES ASSUME NEW c \in Chunks PROVE StableAt(c)'
      BY DEF StableInv
    <2>1. mReadLeases'[c] \subseteq mReadLeases[c]
      BY <1>10 DEF LeaseCleanup, ReadCleanup
    <2> QED BY <1>10, <2>1, Zenon
            DEF LeaseCleanup, CleanupMakesStable, WriteCleanupDue, StableInv,
                StableAt
  <1>11. CASE Tick
    <2> SUFFICES ASSUME NEW c \in Chunks PROVE StableAt(c)'
      BY DEF StableInv
    <2>1. mReadLeases[c] = {} => mReadLeases'[c] = {}
      BY <1>11 DEF Tick
    <2>2. /\ mWriteLeases[c] = NoLease => mWriteLeases'[c] = NoLease
          /\ mWriteLeases[c] # NoLease =>
                /\ mWriteLeases'[c] \in WriteLease
                /\ mWriteLeases'[c].relinquished = mWriteLeases[c].relinquished
                /\ mWriteLeases'[c].allocInFlight = mWriteLeases[c].allocInFlight
      BY <1>11, TTLRange DEF Tick, TypeOK, WriteLease
    <2> QED BY <1>11, <2>1, <2>2, NoLeaseNew DEF Tick, StableInv, StableAt
  <1>12. ASSUME NEW s \in Servers, ServerDown(s) PROVE StableInv'
    <2> SUFFICES ASSUME NEW c \in Chunks PROVE StableAt(c)'
      BY DEF StableInv
    <2> DEFINE v == ReplicaLost(c, mWriteLeases[c], s, TRUE)
    <2>1. mWriteLeases'[c] = v
      BY <1>12, Zenon DEF ServerDown
    <2>2. mWriteLeases[c] \in WriteLease =>
              /\ v \in WriteLease
              /\ v.relinquished = mWriteLeases[c].relinquished
              /\ v.allocInFlight = mWriteLeases[c].allocInFlight
      BY ReplicaLostLemma, TRUE \in BOOLEAN, Zenon
    <2>3. mWriteLeases[c] = NoLease => v = NoLease
      BY ReplicaLostNone, Zenon
    <2>4. UNCHANGED <<mReadLeases, mapped, nonStable, dirty>>
      BY <1>12, Zenon DEF ServerDown
    <2> HIDE DEF v
    <2> QED BY <2>1, <2>2, <2>3, <2>4, LeaseTouched, NoLeaseNew DEF StableInv, TypeOK
  <1>13. ASSUME NEW c \in Chunks, NEW s \in Servers, ChunkCorrupt(c, s)
         PROVE StableInv'
    <2> DEFINE v == ReplicaLost(c, mWriteLeases[c], s, FALSE)
    <2>1. mWriteLeases'[c] = v
      BY <1>13 DEF ChunkCorrupt, TypeOK
    <2>2. mWriteLeases[c] \in WriteLease =>
              /\ v \in WriteLease
              /\ v.relinquished = mWriteLeases[c].relinquished
              /\ v.allocInFlight = mWriteLeases[c].allocInFlight
              /\ v.relinquished = mWriteLeases[c].relinquished
      BY ReplicaLostLemma, FALSE \in BOOLEAN, Zenon
    <2>3. mWriteLeases[c] = NoLease => v = NoLease
      BY ReplicaLostNone, Zenon
    <2>4. UNCHANGED <<mReadLeases, mapped, nonStable, dirty>>
      BY <1>13, Zenon DEF ChunkCorrupt
    <2>5. mWriteLeases' = [mWriteLeases EXCEPT ![c] = v]
      BY <1>13, Zenon DEF ChunkCorrupt
    <2> HIDE DEF v
    <2>6. StableAt(c)'
      BY <2>1, <2>2, <2>3, <2>4, LeaseTouched, NoLeaseNew DEF StableInv, TypeOK
    <2>7. \A d \in Chunks : d # c => Same(d)
      BY <2>4, <2>5 DEF Same, TypeOK
    <2> QED BY <2>6, <2>7, OneChunk
  <1>14. ASSUME NEW c \in Chunks,
                \/ RenewRead(c)
                \/ RelinquishRead(c)
                \/ \E id \in ReadIds, t \in 1..LeaseInterval :
                      GetChunkReadLease(c, id, t)
         PROVE StableInv'
    <2>1. \A d \in Chunks : d # c => Same(d)
      BY <1>14 DEF RenewRead, RelinquishRead, GetChunkReadLease, Same, TypeOK
    <2>2. /\ UNCHANGED <<mWriteLeases, mapped, nonStable, dirty>>
          /\ mWriteLeases[c] = NoLease /\ c \in mapped
      BY <1>14
      DEF RenewRead, RelinquishRead, GetChunkReadLease, NoWriteLease, StableInv,
          StableAt
    <2>3. StableAt(c)'
      BY <2>2 DEF StableInv, StableAt
    <2> QED BY <2>1, <2>3, OneChunk
  <1>15. ASSUME NEW c \in Chunks, NEW w,
                w.allocInFlight = TRUE, w.relinquished = FALSE, w # NoLease,
                mWriteLeases' = [mWriteLeases EXCEPT ![c] = w],
                mReadLeases' = [mReadLeases EXCEPT ![c] = {}],
                c \notin nonStable,
                UNCHANGED <<mapped, nonStable, dirty>>
         PROVE StableInv'
    <2>1. \A d \in Chunks : d # c => Same(d)
      BY <1>15 DEF Same, TypeOK
    <2>2. StableAt(c)'
      BY <1>15 DEF StableInv, StableAt, TypeOK
    <2> QED BY <2>1, <2>2, OneChunk
  <1>16. /\ \A s, append : /\ NewLease(s, append).relinquished = FALSE
                            /\ NewLease(s, append).allocInFlight = TRUE
         /\ \A s \in Servers, append \in BOOLEAN : NewLease(s, append) # NoLease
    <2>1. \A s \in Servers, append \in BOOLEAN : NewLease(s, append) \in WriteLease
      BY TTLRange DEF NewLease, WriteLease, TypeOK
    <2>2. \A s, append : /\ NewLease(s, append).relinquished = FALSE
                         /\ NewLease(s, append).allocInFlight = TRUE
      BY DEF NewLease
    <2> QED BY <2>1, <2>2, NoLeaseNew
  <1>17. ASSUME NEW c \in Chunks, NEW srvs \in SUBSET Servers,
                NEW append \in BOOLEAN, AllocateChunk(c, srvs, append)
         PROVE StableInv'
    <2>1. PICK s \in Servers :
             mWriteLeases' = [mWriteLeases EXCEPT ![c] = NewLease(s, append)]
      BY <1>17, Zenon DEF AllocateChunk
    <2> DEFINE w == NewLease(s, append)
    <2>2. w.relinquished = FALSE /\ w.allocInFlight = TRUE /\ w # NoLease
      BY <1>16
    <2>3. /\ mWriteLeases' = [mWriteLeases EXCEPT ![c] = w]
          /\ UNCHANGED <<mReadLeases, mapped, nonStable, dirty>>
          /\ c \notin nonStable /\ c \notin mapped
      BY <1>17, <2>1, Zenon DEF AllocateChunk
    <2>4. mReadLeases' = [mReadLeases EXCEPT ![c] = {}]
      BY <2>3 DEF StableInv, StableAt, TypeOK
    <2> HIDE DEF w
    <2> QED BY <2>2, <2>3, <2>4, <1>15, Zenon
  <1>18. ASSUME NEW c \in Chunks, GetChunkWriteLease(c) PROVE StableInv'
    <2>1. PICK s \in hosts[c] :
             mWriteLeases' = [mWriteLeases EXCEPT ![c] = NewLease(s, FALSE)]
      BY <1>18, Zenon DEF GetChunkWriteLease
    <2> DEFINE w == NewLease(s, FALSE)
    <2>2. w.relinquished = FALSE /\ w.allocInFlight = TRUE /\ w # NoLease
      <3>1. s \in Servers
        BY DEF TypeOK
      <3> QED BY <1>16, <3>1, FALSE \in BOOLEAN, Zenon
    <2>3. /\ mWriteLeases' = [mWriteLeases EXCEPT ![c] = w]
          /\ mReadLeases' = [mReadLeases EXCEPT ![c] = {}]
          /\ UNCHANGED <<mapped, nonStable, dirty>>
          /\ c \notin nonStable
      BY <1>18, <2>1, Zenon DEF GetChunkWriteLease, ReadyForNewLease
    <2> HIDE DEF w
    <2> QED BY <2>2, <2>3, <1>15, Zenon
  <1>19. ASSUME NEW a \in allocs, AllocSucceeds(a) PROVE StableInv'
    <2> DEFINE c == a.chunk
    <2>1. c \in Chunks /\ mWriteLeases[c] \in WriteLease
          /\ mWriteLeases[c] # NoLease /\ mWriteLeases[c].allocInFlight
      BY <1>19, NoLeaseNew DEF AllocSucceeds, Validate, TypeOK, Alloc
    <2>2. mWriteLeases'[c] = AllocDoneLease(mWriteLeases[c])
      BY <1>19, <2>1 DEF AllocSucceeds, TypeOK
    <2>3. /\ mWriteLeases'[c] \in WriteLease
          /\ ~mWriteLeases'[c].allocInFlight
          /\ mWriteLeases'[c].relinquished = mWriteLeases[c].relinquished
      BY <2>1, <2>2, CommitLemma, Zenon
    <2>4. /\ mapped' = mapped \cup {c} /\ dirty' = dirty \cup {c}
          /\ nonStable' = nonStable /\ mReadLeases' = mReadLeases
      BY <1>19 DEF AllocSucceeds
    <2>5. \A d \in Chunks : d # c => Same(d)
      BY <1>19, <2>1 DEF AllocSucceeds, Same, TypeOK
    <2>6. StableAt(c)'
      BY <2>1, <2>3, <2>4, NoLeaseNew DEF StableInv, StableAt
    <2> QED BY <2>1, <2>5, <2>6, OneChunk
  <1>20. ASSUME NEW a \in allocs, AllocFails(a) PROVE StableInv'
    <2> DEFINE c == a.chunk
    <2>1. c \in Chunks
      BY DEF TypeOK, Alloc
    <2>2. \A d \in Chunks : d # c => Same(d)
      BY <1>20, <2>1 DEF AllocFails, Same, TypeOK
    <2>3. StableAt(c)'
      BY <1>20, <2>1 DEF AllocFails, StableInv, StableAt, TypeOK
    <2> QED BY <2>1, <2>2, <2>3, OneChunk
  <1>21. ASSUME NEW a \in allocs, AllocStale(a) \/ AssignChunkIdFails(a)
         PROVE StableInv'
    BY <1>7, <1>21 DEF AllocStale, AssignChunkIdFails
  <1>22. ASSUME NEW c \in Chunks,
                ChunkVersChangeDone(c) \/ \E s \in Servers : AddHosted(c, s)
         PROVE StableInv'
    BY <1>7, <1>22 DEF ChunkVersChangeDone, AddHosted
  <1>23. CASE UNCHANGED vars
    BY <1>7, <1>23 DEF vars
  <1> QED
    BY <1>1, <1>2, <1>3, <1>4, <1>5, <1>8, <1>9, <1>10, <1>11, <1>12, <1>13,
       <1>14, <1>17, <1>18, <1>19, <1>20, <1>21, <1>22, <1>23
    DEF Next, AllocDone, HandleDeferred, StableDone

-----------------------------------------------------------------------------
(* The theorems. *)

\* The invariant is the part about ids and the part about one chunk.
LEMMA LeaseInvParts == TypeOK => (LeaseInv <=> IdInv /\ StableInv)
  <1> SUFFICES ASSUME TypeOK PROVE LeaseInv <=> IdInv /\ StableInv
    OBVIOUS
  <1>1. ASSUME LeaseInv PROVE IdInv
    BY <1>1 DEF LeaseInv, IdInv
  <1>2. ASSUME LeaseInv, NEW c \in Chunks PROVE StableAt(c)
    BY <1>2 DEF LeaseInv, StableAt, ReadWriteExclusive,
                NoWriterWhileMakingStable, DirtyHasLease
  <1>3. ASSUME IdInv, StableInv PROVE LeaseInv
    BY <1>3 DEF LeaseInv, IdInv, StableInv, StableAt, ReadWriteExclusive,
                NoWriterWhileMakingStable, DirtyHasLease, TypeOK
  <1> QED BY <1>1, <1>2, <1>3 DEF StableInv

\* The inductive invariant of the lease tables: through any interleaving of
\* allocation, renewal, relinquish, cleanup, server loss and make stable.
THEOREM LeaseInvHolds == Spec => []LeaseInv
  <1>1. Init => IdInv /\ StableInv
    BY DEF Init, IdInv, StableInv, StableAt, AllocationOwnsLease
  <1>2. TypeOK /\ IdInv /\ StableInv /\ [Next]_vars => IdInv' /\ StableInv'
    BY NextIdInv, NextStableInv
  <1>3. Spec => [](IdInv /\ StableInv)
    BY <1>1, <1>2, TypeCorrect, PTL DEF Spec
  <1> QED BY <1>3, LeaseInvParts, TypeCorrect, PTL

\* No chunk ever has readers and a writer at once, as ExpiredCleanup,
\* NewReadLease, NewWriteLease, Renew and LeaseRelinquish assert.
THEOREM ReadWriteExclusion == Spec => []ReadWriteExclusive
  <1>1. LeaseInv => ReadWriteExclusive
    BY DEF LeaseInv
  <1> QED BY <1>1, LeaseInvHolds, PTL

\* Validate(MetaAllocate*) never takes one allocation for another: the lease in
\* flight belongs to the request that created it.
THEOREM AllocationOwnership == Spec => []AllocationOwnsLease
  <1>1. LeaseInv => AllocationOwnsLease
    BY DEF LeaseInv
  <1> QED BY <1>1, LeaseInvHolds, PTL

\* MakeChunkStableInit never runs under a writer that holds its lease.
THEOREM NoWriterWhenFreezing == Spec => []NoWriterWhileMakingStable
  <1>1. LeaseInv => NoWriterWhileMakingStable
    BY DEF LeaseInv
  <1> QED BY <1>1, LeaseInvHolds, PTL

\* GetChunkReadLease issues a read lease only on a chunk that is not open for
\* write, as long as none of its servers is out of space in GetChunkWriteLease.
THEOREM StableReads == Spec => []ReadersSeeStable
  <1>1. LeaseInv => ReadersSeeStable
    BY DEF LeaseInv, ReadersSeeStable, DirtyHasLease, ReadWriteExclusive
  <1> QED BY <1>1, LeaseInvHolds, PTL

\* A valid lease of chunk c may go.
Excused(c) ==
    \/ c \notin mapped'
    \/ c \in Striped /\ hosts'[c] = {}
    \/ mWriteLeases[c].append /\ c \in nonStable'
    \/ c \in Crowded /\ ~mWriteLeases[c].append

\* The action of ValidLeaseKept for one chunk.
KeptAt(c) ==
    LET w == mWriteLeases[c] IN
    (Valid(w) /\ ~w.allocInFlight /\ mWriteLeases'[c] = NoLease) => Excused(c)

\* The cleanup only finds leases that have expired (ExpiredCleanup).
LEMMA DueIsExpired ==
    ASSUME TypeOK, NEW c \in Chunks, NEW delay \in Nat, c \in mapped,
           WriteCleanupDue(c, mWriteLeases[c], delay)
    PROVE  ~Valid(mWriteLeases[c])
  <1> DEFINE w == mWriteLeases[c]
  <1>1. w \in WriteLease /\ w.ttl \in Int
    BY TTLRange, Zenon DEF WriteCleanupDue, TypeOK, WriteLease
  <1>2. w.ttl + delay < 0 \/ w.ttl + 0 < 0
    BY DEF WriteCleanupDue
  <1> HIDE DEF w
  <1>3. w.ttl < 0
    BY <1>1, <1>2
  <1> QED BY <1>1, <1>3 DEF w, Valid

\* No handler takes away a valid lease without an excuse.
LEMMA NextKept ==
    ASSUME TypeOK, [Next]_vars, NEW c \in Chunks
    PROVE  KeptAt(c)
  <1> SUFFICES ASSUME Valid(mWriteLeases[c]), ~mWriteLeases[c].allocInFlight,
                      mWriteLeases'[c] = NoLease
               PROVE  Excused(c)
    BY DEF KeptAt
  <1>1. mWriteLeases[c] # NoLease
    BY DEF Valid
  <1>2. ASSUME mWriteLeases'[c] # NoLease \/ mWriteLeases[c] = NoLease
        PROVE Excused(c)
    BY <1>2, <1>1
  <1>3. ASSUME NEW d \in Chunks,
               \/ WriteLeaseDenied(d)
               \/ AllocateChunkForAppend(d)
               \/ \E denied \in BOOLEAN : RenewWrite(d, denied)
        PROVE Excused(c)
    <2>1. mWriteLeases[d] # NoLease /\ mWriteLeases[d] \in WriteLease
      BY <1>3 DEF WriteLeaseDenied, AllocateChunkForAppend, RenewWrite, Valid, TypeOK
    <2>2. /\ RenewValid(mWriteLeases[d]) # NoLease
          /\ Expire(mWriteLeases[d]) # NoLease
      BY <2>1, RenewValidLemma, ExpireLemma, NoLeaseNew
    <2>3. PICK w : mWriteLeases' = [mWriteLeases EXCEPT ![d] = w] /\ w # NoLease
      BY <1>3, <2>2 DEF WriteLeaseDenied, AllocateChunkForAppend, RenewWrite
    <2>4. mWriteLeases'[c] # NoLease
      BY <1>1, <2>3 DEF TypeOK
    <2> QED BY <2>4, <1>2
  <1>4. ASSUME NEW d \in Chunks, WriteLeaseCleanup(d) PROVE Excused(c)
    BY <1>1, <1>4, Zenon DEF WriteLeaseCleanup, Excused, TypeOK
  <1>5. ASSUME NEW d \in Chunks, WriteLeaseNoSpace(d) PROVE Excused(c)
    <2>1. d \in mapped /\ ReadyForNewLease(d)
      BY <1>5 DEF WriteLeaseNoSpace, ReadyForNewLease
    <2>2. Valid(mWriteLeases[d]) => ~mWriteLeases[d].append
      BY <2>1, DueIsExpired DEF ReadyForNewLease, Valid
    <2> QED BY <1>1, <1>5, <2>2 DEF WriteLeaseNoSpace, Excused, TypeOK
  <1>6. ASSUME NEW d \in Chunks,
               \/ FlushWriteLease(d)
               \/ DeleteChunk(d)
               \/ InvalidateAllChunkReplicas(d)
        PROVE Excused(c)
    BY <1>1, <1>6 DEF FlushWriteLease, MakeChunkStableInit, EntersNonStable,
                DeleteChunk, InvalidateAllChunkReplicas, Excused, TypeOK
  <1>7. ASSUME NEW d \in Chunks, NEW all \in BOOLEAN, MakeChunkStableDone(d, all)
        PROVE Excused(c)
    <2>1. c \in mapped /\ WriteCleanupDue(c, mWriteLeases[c], 0)
            => ~Valid(mWriteLeases[c])
      BY DueIsExpired
    <2> QED BY <1>1, <1>7, <2>1 DEF MakeChunkStableDone, Excused, TypeOK
  <1>8. CASE LeaseCleanup
    <2>1. c \in mapped /\ WriteCleanupDue(c, mWriteLeases[c], OwnerDownExpireDelay)
            => ~Valid(mWriteLeases[c])
      BY DueIsExpired, DelayType
    <2> QED BY <1>1, <1>8, <2>1, Zenon DEF LeaseCleanup, Excused, TypeOK
  <1>9. CASE Tick
    <2>1. \A w \in WriteLease : [w EXCEPT !.ttl = Later(@)] \in WriteLease
      BY TTLRange DEF WriteLease
    <2> QED BY <1>2, <1>9, <2>1, NoLeaseNew DEF Tick, TypeOK
  <1>10. ASSUME NEW s \in Servers, ServerDown(s) PROVE Excused(c)
    <2> DEFINE v == ReplicaLost(c, mWriteLeases[c], s, TRUE)
    <2>1. mWriteLeases'[c] = v
      BY <1>10, Zenon DEF ServerDown
    <2>2. mWriteLeases[c] \in WriteLease => v \in WriteLease
      BY ReplicaLostLemma, TRUE \in BOOLEAN, Zenon
    <2> HIDE DEF v
    <2> QED BY <1>2, <2>1, <2>2, NoLeaseNew DEF TypeOK
  <1>11. ASSUME NEW d \in Chunks, NEW s \in Servers, ChunkCorrupt(d, s)
         PROVE Excused(c)
    <2> DEFINE v == ReplicaLost(d, mWriteLeases[d], s, FALSE)
    <2>1. mWriteLeases' = [mWriteLeases EXCEPT ![d] = v]
      BY <1>11, Zenon DEF ChunkCorrupt
    <2>2. mWriteLeases[d] \in WriteLease => v \in WriteLease
      BY ReplicaLostLemma, FALSE \in BOOLEAN, Zenon
    <2> HIDE DEF v
    <2> QED BY <1>2, <2>1, <2>2, NoLeaseNew DEF TypeOK
  <1>12. ASSUME NEW d \in Chunks, NEW z \in BOOLEAN, LeaseRelinquish(d, z)
         PROVE Excused(c)
    BY <1>2, <1>12, RelinquishLemma, NoLeaseNew
    DEF LeaseRelinquish, RelinquishWrite, TypeOK
  <1>13. ASSUME NEW d \in deferred, NEW z \in BOOLEAN, DeferredRelinquish(d, z)
         PROVE Excused(c)
    BY <1>2, <1>13, RelinquishLemma, NoLeaseNew
    DEF DeferredRelinquish, RelinquishWrite, TypeOK
  <1>14. ASSUME NEW a \in allocs, AllocSucceeds(a) PROVE Excused(c)
    BY <1>2, <1>14, CommitLemma, NoLeaseNew
    DEF AllocSucceeds, Validate, TypeOK, Alloc
  <1>15. ASSUME NEW a \in allocs, AllocFails(a) PROVE Excused(c)
    BY <1>1, <1>15 DEF AllocFails, Validate, Excused, TypeOK, Alloc
  <1>16. ASSUME NEW d \in Chunks, NEW s, NEW append,
                mWriteLeases' = [mWriteLeases EXCEPT ![d] = NewLease(s, append)],
                NewLease(s, append) # NoLease
         PROVE Excused(c)
    BY <1>2, <1>16 DEF TypeOK
  <1>17. \A s \in Servers, append \in BOOLEAN : NewLease(s, append) # NoLease
    <2>1. \A s \in Servers, append \in BOOLEAN : NewLease(s, append) \in WriteLease
      BY TTLRange DEF NewLease, WriteLease, TypeOK
    <2> QED BY <2>1, NoLeaseNew
  <1>18. ASSUME NEW d \in Chunks, NEW srvs \in SUBSET Servers,
                NEW append \in BOOLEAN, AllocateChunk(d, srvs, append)
         PROVE Excused(c)
    BY <1>16, <1>17, <1>18, ZenonT(40) DEF AllocateChunk
  <1>19. ASSUME NEW d \in Chunks, GetChunkWriteLease(d) PROVE Excused(c)
    <2>1. hosts[d] \subseteq Servers
      BY DEF TypeOK
    <2>2. \A s \in Servers : NewLease(s, FALSE) # NoLease
      BY <1>17, FALSE \in BOOLEAN, Zenon
    <2> QED BY <1>16, <1>19, <2>1, <2>2, Zenon DEF GetChunkWriteLease
  <1>20. ASSUME mWriteLeases' = mWriteLeases PROVE Excused(c)
    BY <1>2, <1>20
  <1>21. ASSUME NEW d \in Chunks,
                \/ RenewRead(d)
                \/ RelinquishRead(d)
                \/ ChunkVersChangeDone(d)
                \/ \E s \in Servers : AddHosted(d, s)
                \/ \E id \in ReadIds, t \in 1..LeaseInterval :
                      GetChunkReadLease(d, id, t)
         PROVE Excused(c)
    BY <1>20, <1>21
    DEF RenewRead, RelinquishRead, ChunkVersChangeDone, AddHosted,
        GetChunkReadLease
  <1>22. ASSUME NEW a \in allocs, AllocStale(a) \/ AssignChunkIdFails(a)
         PROVE Excused(c)
    BY <1>20, <1>22 DEF AllocStale, AssignChunkIdFails
  <1>23. CASE UNCHANGED vars
    BY <1>20, <1>23 DEF vars
  <1> QED
    BY <1>3, <1>4, <1>5, <1>6, <1>7, <1>8, <1>9, <1>10, <1>11, <1>12, <1>13,
       <1>14, <1>15, <1>18, <1>19, <1>21, <1>22, <1>23, Zenon
    DEF Next, AllocDone, HandleDeferred, StableDone

\* The timer, the cleanups before an allocation and after make stable, and the
\* loss of a server never erase a lease that its owner may still rely on.
THEOREM ValidLeasesAreKept == Spec => ValidLeaseKept
  <1>1. TypeOK /\ [Next]_vars => [\A c \in Chunks : KeptAt(c)]_vars
    BY NextKept
  <1>2. Spec => [][\A c \in Chunks : KeptAt(c)]_vars
    BY <1>1, TypeCorrect, PTL DEF Spec
  <1> QED BY <1>2 DEF ValidLeaseKept, KeptAt, Excused
-----------------------------------------------------------------------------
(* A relinquish request that comes before its allocation is done. *)

\* The request to relinquish the lease of chunk c is not lost.
RequestKept(c) ==
    mWriteLeases[c] # NoLease /\ mWriteLeases[c].id \in asked =>
        \/ mWriteLeases[c].relinquished
        \/ \E a \in allocs :
              a.chunk = c /\ a.id = mWriteLeases[c].id /\ a.relinquish
        \/ [chunk |-> c, id |-> mWriteLeases[c].id] \in deferred

\* The lease ids of different chunks are different, and a chunk that is not
\* mapped has no lease but one in flight.
LeaseIds ==
    /\ \A c, d \in Chunks :
          /\ mWriteLeases[c] # NoLease /\ mWriteLeases[d] # NoLease
          /\ mWriteLeases[c].id = mWriteLeases[d].id
          => c = d
    /\ \A c \in Chunks \ mapped :
          mWriteLeases[c] # NoLease => mWriteLeases[c].allocInFlight

\* A request that was submitted is of an allocation that is done.
DeferredIds ==
    \A d \in deferred : d.id < nextId /\ \A a \in allocs : a.id # d.id

\* What makes RelinquishNotLost inductive.
RelinquishInv ==
    /\ \A c \in Chunks : RequestKept(c)
    /\ \A i \in asked : i < nextId
    /\ LeaseIds
    /\ DeferredIds

\* The property, chunk by chunk.
LEMMA RequestsKept == RelinquishNotLost <=> \A c \in Chunks : RequestKept(c)
  BY DEF RelinquishNotLost, RequestKept

\* Leases that are only erased keep their ids apart; a chunk may leave the map
\* with its lease.
LEMMA KeepsLeaseIds ==
    ASSUME LeaseIds, KeepsLeases,
           \A c \in Chunks : c \in mapped => c \in mapped' \/ mWriteLeases'[c] = NoLease
    PROVE  LeaseIds'
  BY DEF LeaseIds, KeepsLeases

\* The allocation requests that are there after the step were so before it, and
\* one that holds a relinquish is there after it, unless its lease is gone.
AllocsKept ==
    /\ \A b \in allocs' : \E a \in allocs : a.id = b.id
    /\ \A a \in allocs : a.relinquish =>
          \/ \E b \in allocs' : b.chunk = a.chunk /\ b.id = a.id /\ b.relinquish
          \/ mWriteLeases'[a.chunk] = NoLease
          \/ mWriteLeases[a.chunk].id # a.id

\* Handlers that take no relinquish request and handle none.
LEMMA QuietRequests ==
    ASSUME RelinquishInv, KeepsLeases, AllocsKept,
           UNCHANGED <<asked, deferred, nextId>>,
           \A c \in Chunks : c \in mapped => c \in mapped' \/ mWriteLeases'[c] = NoLease
    PROVE  RelinquishInv'
  <1>1. LeaseIds'
    BY KeepsLeaseIds DEF RelinquishInv
  <1>2. DeferredIds'
    BY DEF RelinquishInv, DeferredIds, AllocsKept
  <1>3. ASSUME NEW c \in Chunks PROVE RequestKept(c)'
    BY DEF RelinquishInv, RequestKept, KeepsLeases, AllocsKept
  <1>4. \A i \in asked' : i < nextId'
    BY DEF RelinquishInv
  <1> QED BY <1>1, <1>2, <1>3, <1>4 DEF RelinquishInv

\* A server that goes down only flags the allocations in flight.
LEMMA ServerDownAllocs ==
    ASSUME TypeOK, NEW s \in Servers, ServerDown(s)
    PROVE  AllocsKept
  <1>1. allocs' = {IF s \in a.servers THEN [a EXCEPT !.serverDown = TRUE] ELSE a : a \in allocs}
    BY DEF ServerDown
  <1>2. \A b \in allocs' : \E a \in allocs : a.id = b.id
    BY <1>1 DEF TypeOK, Alloc
  <1>3. ASSUME NEW a \in allocs, a.relinquish
        PROVE  \E b \in allocs' : b.chunk = a.chunk /\ b.id = a.id /\ b.relinquish
    <2> DEFINE b == IF s \in a.servers THEN [a EXCEPT !.serverDown = TRUE] ELSE a
    <2>1. b \in allocs'
      BY <1>1
    <2>2. b.chunk = a.chunk /\ b.id = a.id /\ b.relinquish
      BY <1>3 DEF TypeOK, Alloc
    <2> QED BY <2>1, <2>2
  <1> QED BY <1>2, <1>3 DEF AllocsKept

\* An allocation that fails takes its lease along; a stale one has none.
LEMMA FailedAllocs ==
    ASSUME TypeOK, IdInv, NEW a \in allocs,
           AllocFails(a) \/ AllocStale(a) \/ AssignChunkIdFails(a)
    PROVE  AllocsKept
  <1>0. a.chunk \in Chunks
    BY DEF TypeOK, Alloc
  <1>1. CASE AllocFails(a)
    <2>1. allocs' = allocs \ {a} /\ mWriteLeases'[a.chunk] = NoLease
      BY <1>0, <1>1 DEF AllocFails, TypeOK
    <2> QED BY <2>1 DEF AllocsKept
  <1>2. CASE AllocStale(a)
    <2>1. allocs' = allocs \ {a} /\ ~Validate(a) /\ mWriteLeases' = mWriteLeases
      BY <1>2 DEF AllocStale
    <2>2. mWriteLeases[a.chunk] = NoLease \/ mWriteLeases[a.chunk].id # a.id
      BY <1>0, <2>1 DEF IdInv, AllocationOwnsLease, Validate
    <2> QED BY <2>1, <2>2 DEF AllocsKept
  <1>3. CASE AssignChunkIdFails(a)
    BY <1>3 DEF AssignChunkIdFails, AllocsKept
  <1> QED BY <1>1, <1>2, <1>3

\* A chunk whose lease was just relinquished, the others being left alone.
LEMMA RelinquishedRequests ==
    ASSUME TypeOK, RelinquishInv, NEW c \in Chunks, NEW z \in BOOLEAN,
           mWriteLeases[c] # NoLease, RelinquishWrite(c, z),
           UNCHANGED <<allocs, nextId, mapped>>, deferred' \subseteq deferred,
           \A d \in deferred : d.chunk = c \/ d \in deferred',
           asked' \subseteq asked \cup {mWriteLeases[c].id},
           mWriteLeases[c].id < nextId
    PROVE  RelinquishInv'
  <1>1. mWriteLeases[c] \in WriteLease
    BY DEF TypeOK
  <1>2. /\ mWriteLeases'[c].relinquished
        /\ mWriteLeases'[c].id = mWriteLeases[c].id
        /\ mWriteLeases'[c].allocInFlight = mWriteLeases[c].allocInFlight
        /\ \A d \in Chunks : d # c => mWriteLeases'[d] = mWriteLeases[d]
    BY <1>1, RelinquishLemma, Zenon DEF RelinquishWrite, TypeOK
  <1>3. KeepsLeases
    BY <1>2 DEF KeepsLeases
  <1>4. LeaseIds'
    BY <1>3, KeepsLeaseIds DEF RelinquishInv
  <1>5. DeferredIds'
    BY DEF RelinquishInv, DeferredIds
  <1>6. ASSUME NEW d \in Chunks PROVE RequestKept(d)'
    <2>1. CASE d = c
      BY <1>2, <2>1 DEF RequestKept
    <2>2. CASE d # c
      <3>1. mWriteLeases'[d] = mWriteLeases[d]
        BY <1>2, <2>2
      <3>2. mWriteLeases[d] # NoLease /\ mWriteLeases[d].id \in asked' => mWriteLeases[d].id \in asked
        BY <2>2 DEF RelinquishInv, LeaseIds
      <3>3. [chunk |-> d, id |-> mWriteLeases[d].id] \in deferred
              => [chunk |-> d, id |-> mWriteLeases[d].id] \in deferred'
        BY <2>2
      <3>4. RequestKept(d)
        BY DEF RelinquishInv
      <3> QED BY <3>1, <3>2, <3>3, <3>4 DEF RequestKept
    <2> QED BY <2>1, <2>2
  <1>7. \A i \in asked' : i < nextId'
    BY DEF RelinquishInv
  <1> QED BY <1>4, <1>5, <1>6, <1>7 DEF RelinquishInv

\* LeaseRelinquish: the request is refused, remembered, or handled.
LEMMA RequestTaken ==
    ASSUME TypeOK, IdInv, RelinquishInv, KeepsLeases,
           NEW c \in Chunks, NEW z \in BOOLEAN, LeaseRelinquish(c, z)
    PROVE  RelinquishInv'
  <1> DEFINE w == mWriteLeases[c]
  <1>1. /\ w # NoLease /\ UNCHANGED <<mapped, deferred, nextId>>
        /\ asked' = IF c \in mapped THEN asked \cup {w.id} ELSE asked
    BY Zenon DEF LeaseRelinquish
  <1>2. w.id < nextId
    BY <1>1 DEF IdInv
  <1>3. CASE c \notin mapped
    <2>1. UNCHANGED <<mWriteLeases, allocs, asked>>
      BY <1>1, <1>3 DEF LeaseRelinquish
    <2>2. AllocsKept
      BY <2>1 DEF AllocsKept
    <2> QED BY <1>1, <2>1, <2>2, QuietRequests
  <1>4. CASE c \in mapped /\ w.allocInFlight
    <2>1. /\ mWriteLeases' = mWriteLeases /\ asked' = asked \cup {w.id}
          /\ allocs' = {IF a.chunk = c /\ a.id = w.id
                        THEN [a EXCEPT !.relinquish = TRUE] ELSE a : a \in allocs}
      BY <1>1, <1>4, Zenon DEF LeaseRelinquish
    <2>2. PICK a \in allocs : a.chunk = c /\ a.id = w.id
      BY <1>1, <1>4 DEF IdInv, AllocationOwnsLease
    <2>3. \A b \in allocs' : \E e \in allocs : e.id = b.id
      BY <2>1 DEF TypeOK, Alloc
    <2>4. ASSUME NEW e \in allocs, e.relinquish \/ e = a
          PROVE  \E b \in allocs' : b.chunk = e.chunk /\ b.id = e.id /\ b.relinquish
      <3> DEFINE b == IF e.chunk = c /\ e.id = w.id
                      THEN [e EXCEPT !.relinquish = TRUE] ELSE e
      <3>1. b \in allocs'
        BY <2>1
      <3>2. b.chunk = e.chunk /\ b.id = e.id /\ b.relinquish
        BY <2>2, <2>4 DEF TypeOK, Alloc
      <3> QED BY <3>1, <3>2
    <2>5. LeaseIds'
      BY <1>1, <2>1 DEF RelinquishInv, LeaseIds
    <2>6. DeferredIds'
      BY <1>1, <2>3 DEF RelinquishInv, DeferredIds
    <2>7. ASSUME NEW d \in Chunks PROVE RequestKept(d)'
      <3>1. CASE d = c
        <4>1. PICK b \in allocs' : b.chunk = a.chunk /\ b.id = a.id /\ b.relinquish
          BY <2>4
        <4> QED BY <2>1, <2>2, <3>1, <4>1 DEF RequestKept
      <3>2. CASE d # c
        <4>1. mWriteLeases[d] # NoLease /\ mWriteLeases[d].id \in asked'
                => mWriteLeases[d].id \in asked
          BY <1>1, <2>1, <3>2 DEF RelinquishInv, LeaseIds
        <4>2. RequestKept(d)
          BY DEF RelinquishInv
        <4> HIDE DEF w
        <4> QED BY <1>1, <2>1, <2>4, <4>1, <4>2 DEF RequestKept
      <3> QED BY <3>1, <3>2
    <2>8. \A i \in asked' : i < nextId'
      BY <1>1, <1>2, <2>1 DEF RelinquishInv
    <2> QED BY <2>5, <2>6, <2>7, <2>8 DEF RelinquishInv
  <1>5. CASE c \in mapped /\ ~w.allocInFlight
    <2>1. RelinquishWrite(c, z) /\ allocs' = allocs /\ asked' = asked \cup {w.id}
      BY <1>1, <1>5, Zenon DEF LeaseRelinquish
    <2> QED BY <1>1, <1>2, <2>1, RelinquishedRequests
  <1> QED BY <1>3, <1>4, <1>5

\* The submitted request finds its lease mapped and handed out, or no lease.
LEMMA RequestHandled ==
    ASSUME TypeOK, IdInv, RelinquishInv, KeepsLeases,
           NEW d \in deferred, NEW z \in BOOLEAN, DeferredRelinquish(d, z)
    PROVE  RelinquishInv'
  <1> DEFINE c == d.chunk
             w == mWriteLeases[c]
  <1>1. /\ UNCHANGED <<mapped, allocs, nextId, asked>>
        /\ deferred' = deferred \ {d}
    BY DEF DeferredRelinquish
  <1>2. c \in Chunks /\ d = [chunk |-> c, id |-> d.id]
    BY DEF TypeOK
  <1>3. CASE w # NoLease /\ w.id = d.id
    <2>1. ~w.allocInFlight
      BY <1>2, <1>3 DEF IdInv, AllocationOwnsLease, RelinquishInv, DeferredIds
    <2>2. c \in mapped
      BY <1>2, <1>3, <2>1 DEF RelinquishInv, LeaseIds
    <2>3. RelinquishWrite(c, z)
      BY <1>3, <2>1, <2>2 DEF DeferredRelinquish
    <2>4. \A e \in deferred : e.chunk = c \/ e \in deferred'
      BY <1>1
    <2>5. w.id < nextId
      BY <1>2, <1>3 DEF IdInv
    <2> QED BY <1>1, <1>2, <1>3, <2>3, <2>4, <2>5, RelinquishedRequests
  <1>4. CASE ~(w # NoLease /\ w.id = d.id)
    <2>1. mWriteLeases' = mWriteLeases
      BY <1>4 DEF DeferredRelinquish
    <2>2. LeaseIds'
      BY <1>1, <2>1 DEF RelinquishInv, LeaseIds
    <2>3. DeferredIds'
      BY <1>1 DEF RelinquishInv, DeferredIds
    <2>4. ASSUME NEW e \in Chunks PROVE RequestKept(e)'
      <3>1. mWriteLeases[e] # NoLease => [chunk |-> e, id |-> mWriteLeases[e].id] # d
        BY <1>2, <1>4
      <3>2. RequestKept(e)
        BY DEF RelinquishInv
      <3> HIDE DEF w, c
      <3> QED BY <1>1, <2>1, <3>1, <3>2 DEF RequestKept
    <2> QED BY <1>1, <2>2, <2>3, <2>4 DEF RelinquishInv
  <1> QED BY <1>3, <1>4

\* LayoutDone submits the request the allocation held.
LEMMA RequestSubmitted ==
    ASSUME TypeOK, IdInv, RelinquishInv, NEW a \in allocs, AllocSucceeds(a)
    PROVE  RelinquishInv'
  <1> DEFINE c == a.chunk
             d == [chunk |-> a.chunk, id |-> a.id]
  <1>1. /\ Validate(a) /\ mapped' = mapped \cup {c} /\ allocs' = allocs \ {a}
        /\ UNCHANGED <<asked, nextId>>
        /\ deferred' = IF a.relinquish THEN deferred \cup {d} ELSE deferred
    BY DEF AllocSucceeds
  <1>2. c \in Chunks /\ mWriteLeases[c] \in WriteLease /\ mWriteLeases[c].id = a.id
    BY <1>1, NoLeaseNew DEF Validate, TypeOK, Alloc
  <1>3. /\ mWriteLeases'[c] # NoLease
        /\ mWriteLeases'[c].id = a.id
        /\ mWriteLeases'[c].relinquished = mWriteLeases[c].relinquished
        /\ \A e \in Chunks : e # c => mWriteLeases'[e] = mWriteLeases[e]
    BY <1>2, CommitLemma, NoLeaseNew, Zenon DEF AllocSucceeds, TypeOK
  <1>4. LeaseIds'
    BY <1>1, <1>2, <1>3, NoLeaseNew DEF RelinquishInv, LeaseIds
  <1>5. DeferredIds'
    BY <1>1 DEF RelinquishInv, DeferredIds, IdInv
  <1>6. ASSUME NEW e \in Chunks PROVE RequestKept(e)'
    <2>1. RequestKept(e)
      BY DEF RelinquishInv
    <2>2. CASE e = c
      <3>1. \A b \in allocs : b.id = a.id => b = a
        BY DEF IdInv
      <3>2. mWriteLeases[c] # NoLease /\ mWriteLeases[c].id = mWriteLeases'[c].id
        BY <1>2, <1>3, NoLeaseNew
      <3>3. a.relinquish => d \in deferred'
        BY <1>1
      <3>4. deferred \subseteq deferred'
        BY <1>1
      <3> QED BY <1>1, <1>2, <1>3, <2>1, <2>2, <3>1, <3>2, <3>3, <3>4 DEF RequestKept
    <2>3. CASE e # c
      <3>1. mWriteLeases'[e] = mWriteLeases[e] /\ deferred \subseteq deferred'
        BY <1>1, <1>3, <2>3
      <3>2. \A b \in allocs : b.chunk = e => b \in allocs'
        BY <1>1, <2>3
      <3> QED BY <1>1, <2>1, <3>1, <3>2 DEF RequestKept
    <2> QED BY <2>2, <2>3
  <1>7. \A i \in asked' : i < nextId'
    BY <1>1 DEF RelinquishInv
  <1> QED BY <1>4, <1>5, <1>6, <1>7 DEF RelinquishInv

\* A new allocation, with the next id, puts a lease in flight on its chunk.
LEMMA NoRequestYet ==
    ASSUME TypeOK, IdInv, RelinquishInv, NEW c \in Chunks, NEW w, NEW n,
           n.id = nextId, nextId' = nextId + 1, w.id = nextId, w.allocInFlight,
           mWriteLeases' = [mWriteLeases EXCEPT ![c] = w],
           allocs' = allocs \cup {n}, UNCHANGED <<mapped, asked, deferred>>
    PROVE  RelinquishInv'
  <1>1. nextId \in Nat /\ \A i \in asked : i \in Nat /\ i < nextId
    BY DEF TypeOK, RelinquishInv
  <1>2. /\ mWriteLeases'[c] = w
        /\ \A d \in Chunks : d # c => mWriteLeases'[d] = mWriteLeases[d]
    BY DEF TypeOK
  <1>3. \A d \in Chunks : mWriteLeases[d] # NoLease => mWriteLeases[d].id # nextId
    <2>1. \A d \in Chunks : mWriteLeases[d] # NoLease => mWriteLeases[d].id \in Nat
      BY DEF TypeOK, WriteLease
    <2> QED BY <1>1, <2>1 DEF IdInv
  <1>4. nextId \notin asked /\ \A i \in asked' : i < nextId'
    BY <1>1
  <1>5. LeaseIds'
    <2>1. \A d, e \in Chunks :
             /\ mWriteLeases'[d] # NoLease /\ mWriteLeases'[e] # NoLease
             /\ mWriteLeases'[d].id = mWriteLeases'[e].id
             => d = e
      BY <1>2, <1>3 DEF RelinquishInv, LeaseIds
    <2>2. \A d \in Chunks \ mapped' :
             mWriteLeases'[d] # NoLease => mWriteLeases'[d].allocInFlight
      BY <1>2 DEF RelinquishInv, LeaseIds
    <2> QED BY <2>1, <2>2 DEF LeaseIds
  <1>6. DeferredIds'
    <2>1. \A d \in deferred : d.id \in Nat
      BY DEF TypeOK
    <2> QED BY <1>1, <2>1 DEF RelinquishInv, DeferredIds
  <1>7. ASSUME NEW d \in Chunks PROVE RequestKept(d)'
    <2>1. CASE d = c
      BY <1>2, <1>4, <2>1 DEF RequestKept
    <2>2. CASE d # c
      BY <1>2, <2>2 DEF RelinquishInv, RequestKept
    <2> QED BY <2>1, <2>2
  <1> QED BY <1>4, <1>5, <1>6, <1>7 DEF RelinquishInv

\* Every handler keeps the requests.
LEMMA NextRelinquishInv ==
    TypeOK /\ IdInv /\ RelinquishInv /\ [Next]_vars => RelinquishInv'
  <1> SUFFICES ASSUME TypeOK, IdInv, RelinquishInv, [Next]_vars
               PROVE  RelinquishInv'
    OBVIOUS
  <1>1. CASE QuietStep
    <2>1. KeepsLeases
      BY <1>1, LeasesKept
    <2>2. ASSUME UNCHANGED <<allocs, mapped, asked, deferred, nextId>>
          PROVE  RelinquishInv'
      <3>1. AllocsKept
        BY <2>2 DEF AllocsKept
      <3> QED BY <2>1, <2>2, <3>1, QuietRequests
    <2>3. ASSUME NEW s \in Servers, ServerDown(s) PROVE RelinquishInv'
      <3>1. UNCHANGED <<mapped, asked, deferred, nextId>>
        BY <2>3 DEF ServerDown
      <3> QED BY <2>1, <2>3, <3>1, ServerDownAllocs, QuietRequests
    <2>4. ASSUME NEW c \in Chunks, NEW z \in BOOLEAN, LeaseRelinquish(c, z)
          PROVE  RelinquishInv'
      BY <2>1, <2>4, RequestTaken
    <2>5. ASSUME NEW c \in Chunks, DeleteChunk(c) PROVE RelinquishInv'
      <3>1. /\ mapped' = mapped \ {c} /\ mWriteLeases'[c] = NoLease
            /\ UNCHANGED <<allocs, asked, deferred, nextId>>
        BY <2>5 DEF DeleteChunk, TypeOK
      <3>2. AllocsKept
        BY <3>1 DEF AllocsKept
      <3> QED BY <2>1, <3>1, <3>2, QuietRequests
    <2>6. ASSUME NEW a \in allocs, AllocFails(a) \/ AllocStale(a) \/ AssignChunkIdFails(a)
          PROVE  RelinquishInv'
      <3>1. UNCHANGED <<mapped, asked, deferred, nextId>>
        BY <2>6, Zenon DEF AllocFails, AllocStale, AssignChunkIdFails
      <3> QED BY <2>1, <2>6, <3>1, FailedAllocs, QuietRequests
    <2>7. ASSUME NEW c \in Chunks,
                 \/ WriteLeaseDenied(c) \/ AllocateChunkForAppend(c)
                 \/ \E denied \in BOOLEAN : RenewWrite(c, denied)
                 \/ WriteLeaseCleanup(c) \/ WriteLeaseNoSpace(c) \/ FlushWriteLease(c)
                 \/ InvalidateAllChunkReplicas(c) \/ StableDone(c)
                 \/ \E s \in Servers : ChunkCorrupt(c, s)
                 \/ RenewRead(c) \/ RelinquishRead(c) \/ ChunkVersChangeDone(c)
                 \/ \E s \in Servers : AddHosted(c, s)
                 \/ \E id \in ReadIds, t \in 1..LeaseInterval : GetChunkReadLease(c, id, t)
          PROVE  RelinquishInv'
      <3>1. UNCHANGED <<allocs, mapped, asked, deferred, nextId>>
        BY <2>7, Zenon
        DEF WriteLeaseDenied, AllocateChunkForAppend, RenewWrite, WriteLeaseCleanup,
            WriteLeaseNoSpace, FlushWriteLease, InvalidateAllChunkReplicas, StableDone,
            MakeChunkStableDone, ChunkCorrupt, RenewRead, RelinquishRead,
            ChunkVersChangeDone, AddHosted, GetChunkReadLease
      <3> QED BY <2>2, <3>1
    <2>8. CASE LeaseCleanup \/ Tick \/ UNCHANGED vars
      <3>1. UNCHANGED <<allocs, mapped, asked, deferred, nextId>>
        BY <2>8, Zenon DEF LeaseCleanup, Tick, vars
      <3> QED BY <2>2, <3>1
    <2>9. CASE HandleDeferred
      BY <2>1, <2>9, RequestHandled DEF HandleDeferred
    <2> QED BY <1>1, <2>3, <2>4, <2>5, <2>6, <2>7, <2>8, <2>9, Zenon DEF QuietStep
  <1>2. \A s, append : NewLease(s, append).id = nextId /\ NewLease(s, append).allocInFlight
    BY DEF NewLease
  <1>3. \A c, new, srvs : NewAlloc(c, new, srvs).id = nextId
    BY DEF NewAlloc
  <1>4. ASSUME NEW c \in Chunks, NEW srvs \in SUBSET Servers,
               NEW append \in BOOLEAN, AllocateChunk(c, srvs, append)
        PROVE  RelinquishInv'
    <2>1. PICK s \in Servers :
             mWriteLeases' = [mWriteLeases EXCEPT ![c] = NewLease(s, append)]
      BY <1>4, Zenon DEF AllocateChunk
    <2> DEFINE w == NewLease(s, append)
               n == NewAlloc(c, TRUE, srvs)
    <2>2. w.id = nextId /\ w.allocInFlight /\ n.id = nextId
      BY <1>2, <1>3
    <2>3. /\ nextId' = nextId + 1 /\ UNCHANGED <<mapped, asked, deferred>>
          /\ allocs' = allocs \cup {n}
      BY <1>4, Zenon DEF AllocateChunk
    <2>4. mWriteLeases' = [mWriteLeases EXCEPT ![c] = w]
      BY <2>1
    <2> HIDE DEF w, n
    <2> QED BY <2>2, <2>3, <2>4, NoRequestYet, Zenon
  <1>5. ASSUME NEW c \in Chunks, GetChunkWriteLease(c)
        PROVE  RelinquishInv'
    <2>1. PICK s, append :
             mWriteLeases' = [mWriteLeases EXCEPT ![c] = NewLease(s, append)]
      BY <1>5, Zenon DEF GetChunkWriteLease
    <2> DEFINE w == NewLease(s, append)
               n == NewAlloc(c, FALSE, hosts[c])
    <2>2. w.id = nextId /\ w.allocInFlight /\ n.id = nextId
      BY <1>2, <1>3
    <2>3. /\ nextId' = nextId + 1 /\ UNCHANGED <<mapped, asked, deferred>>
          /\ allocs' = allocs \cup {n}
      BY <1>5, Zenon DEF GetChunkWriteLease
    <2>4. mWriteLeases' = [mWriteLeases EXCEPT ![c] = w]
      BY <2>1
    <2> HIDE DEF w, n
    <2> QED BY <2>2, <2>3, <2>4, NoRequestYet, Zenon
  <1>6. ASSUME NEW a \in allocs, AllocSucceeds(a) PROVE RelinquishInv'
    BY <1>6, RequestSubmitted
  <1> QED BY <1>1, <1>4, <1>5, <1>6, StepKinds, Zenon

\* A relinquish request that was not refused is never lost: the allocation in
\* flight holds it (pendingLeaseRelinquish), its completion submits it, and it
\* then finds the lease it is for, through deletes, failures of servers and
\* other allocations.
THEOREM RelinquishKept == Spec => []RelinquishNotLost
  <1>1. Init => RelinquishInv
    BY DEF Init, RelinquishInv, RequestKept, LeaseIds, DeferredIds
  <1>2. RelinquishInv => RelinquishNotLost
    BY RequestsKept DEF RelinquishInv
  <1>3. TypeOK => (LeaseInv => IdInv)
    BY LeaseInvParts
  <1>4. Spec => []IdInv
    BY <1>3, TypeCorrect, LeaseInvHolds, PTL
  <1> QED BY <1>1, <1>2, <1>4, TypeCorrect, NextRelinquishInv, PTL DEF Spec

-----------------------------------------------------------------------------
(* ChunkLeases implements LeaseTable                                       *)

\* A chunk that is left alone, or whose readers or writer leave.
WriterLeft(c) ==
    \/ Writer(c)' = Writer(c) /\ (c \in dirty' <=> c \in dirty)
    \/ /\ Writer(c).phase = "held"
       /\ Writer(c)' = [id |-> Writer(c).id, phase |-> "returned"]
       /\ c \notin dirty'
    \/ Writer(c)' = Table!Idle /\ c \notin dirty'
    \/ c \in Crowded /\ Writer(c)' = Table!Idle /\ (c \in dirty' <=> c \in dirty)

Left(c) == Readers(c)' \subseteq Readers(c) /\ WriterLeft(c)

\* When readers and writers only leave, the table takes a step.
LEMMA LeftIsStep ==
    ASSUME \A c \in Chunks : Left(c), nextId' = nextId
    PROVE  Table!Next
  <1>1. Table!Leave
    BY DEF Left, WriterLeft, Table!Leave, Table!WriterStays, Table!WriterReturns,
           Table!WriterLeaves, Table!WriterDropped
  <1> QED BY <1>1 DEF Table!Next

\* The empty lease table is an initial state of the abstract table.
LEMMA InitIsInit == Init => Table!Init
  BY DEF Init, Table!Init, Table!Idle, Readers, Writer

\* Fewer read leases, fewer readers.
LEMMA FewerReaders ==
    ASSUME NEW c \in Chunks, mReadLeases'[c] \subseteq mReadLeases[c]
    PROVE  Readers(c)' \subseteq Readers(c)
  BY DEF Readers

\* An untouched chunk.
LEMMA SameIsLeft ==
    ASSUME NEW c \in Chunks, mReadLeases'[c] = mReadLeases[c],
           mWriteLeases'[c] = mWriteLeases[c], c \in dirty' <=> c \in dirty
    PROVE  Left(c)
  BY FewerReaders DEF Left, WriterLeft, Writer, Phase

\* The lease of c is renewed or expired, or loses its owner.
LEMMA TouchedIsLeft ==
    ASSUME NEW c \in Chunks, Readers(c)' \subseteq Readers(c),
           mWriteLeases[c] # NoLease, mWriteLeases'[c] # NoLease,
           mWriteLeases'[c].id = mWriteLeases[c].id,
           mWriteLeases'[c].relinquished = mWriteLeases[c].relinquished,
           mWriteLeases'[c].allocInFlight = mWriteLeases[c].allocInFlight,
           c \in dirty' <=> c \in dirty
    PROVE  Left(c)
  BY DEF Left, WriterLeft, Writer, Phase

\* The lease of c is removed.
LEMMA GoneIsLeft ==
    ASSUME NEW c \in Chunks, Readers(c)' \subseteq Readers(c),
           mWriteLeases'[c] = NoLease,
           c \notin dirty' \/ (c \in Crowded /\ (c \in dirty' <=> c \in dirty))
    PROVE  Left(c)
  BY DEF Left, WriterLeft, Writer, Table!Idle

\* The lease of c is relinquished.
LEMMA ReturnedIsLeft ==
    ASSUME NEW c \in Chunks, mReadLeases'[c] = mReadLeases[c],
           mWriteLeases[c] # NoLease, ~mWriteLeases[c].allocInFlight,
           ~mWriteLeases[c].relinquished,
           mWriteLeases'[c] # NoLease,
           mWriteLeases'[c].id = mWriteLeases[c].id,
           ~mWriteLeases'[c].allocInFlight, mWriteLeases'[c].relinquished,
           c \notin dirty'
    PROVE  Left(c)
  BY FewerReaders DEF Left, WriterLeft, Writer, Phase

\* Every handler but the three that let in a reader or a writer.
LEMMA LeaveSteps ==
    ASSUME TypeOK, StableInv, NEW c \in Chunks,
           \/ WriteLeaseDenied(c)
           \/ AllocateChunkForAppend(c)
           \/ \E denied \in BOOLEAN : RenewWrite(c, denied)
           \/ WriteLeaseCleanup(c)
           \/ WriteLeaseNoSpace(c)
           \/ FlushWriteLease(c)
           \/ DeleteChunk(c)
           \/ InvalidateAllChunkReplicas(c)
           \/ \E all \in BOOLEAN : MakeChunkStableDone(c, all)
           \/ RenewRead(c)
           \/ RelinquishRead(c)
           \/ \E s \in Servers : ChunkCorrupt(c, s)
           \/ \E s \in Servers : AddHosted(c, s)
           \/ ChunkVersChangeDone(c)
    PROVE  Table!Next
  <1>1. ASSUME \/ WriteLeaseDenied(c)
               \/ AllocateChunkForAppend(c)
               \/ \E denied \in BOOLEAN : RenewWrite(c, denied)
        PROVE  Table!Next
    <2>1. /\ mWriteLeases[c] \in WriteLease
          /\ mWriteLeases'[c] \in WriteLease
          /\ mWriteLeases'[c].id = mWriteLeases[c].id
          /\ mWriteLeases'[c].relinquished = mWriteLeases[c].relinquished
          /\ mWriteLeases'[c].allocInFlight = mWriteLeases[c].allocInFlight
      BY <1>1, RenewValidLemma, ExpireLemma
      DEF WriteLeaseDenied, AllocateChunkForAppend, RenewWrite, Valid, TypeOK
    <2>2. /\ mReadLeases' = mReadLeases /\ dirty' = dirty /\ nextId' = nextId
          /\ \A d \in Chunks : d # c => mWriteLeases'[d] = mWriteLeases[d]
      BY <1>1 DEF WriteLeaseDenied, AllocateChunkForAppend, RenewWrite, TypeOK
    <2>3. Left(c)
      BY <2>1, <2>2, FewerReaders, TouchedIsLeft, NoLeaseNew
    <2>4. \A d \in Chunks : d # c => Left(d)
      BY <2>2, SameIsLeft
    <2> QED BY <2>2, <2>3, <2>4, LeftIsStep
  <1>2. ASSUME \/ WriteLeaseCleanup(c)
               \/ WriteLeaseNoSpace(c)
               \/ FlushWriteLease(c)
               \/ DeleteChunk(c)
               \/ InvalidateAllChunkReplicas(c)
               \/ \E all \in BOOLEAN : MakeChunkStableDone(c, all)
        PROVE  Table!Next
    <2>1. /\ mReadLeases'[c] \subseteq mReadLeases[c] /\ nextId' = nextId
          /\ \A d \in Chunks : d # c => /\ mReadLeases'[d] = mReadLeases[d]
                                        /\ mWriteLeases'[d] = mWriteLeases[d]
                                        /\ d \in dirty' <=> d \in dirty
      BY <1>2, Zenon
      DEF WriteLeaseCleanup, WriteLeaseNoSpace, FlushWriteLease, DeleteChunk,
          InvalidateAllChunkReplicas, MakeChunkStableDone, MakeChunkStableInit,
          ReadCleanup, TypeOK
    <2>2. \/ mWriteLeases'[c] = mWriteLeases[c] /\ (c \in dirty' <=> c \in dirty)
          \/ /\ mWriteLeases'[c] = NoLease
             /\ \/ c \notin dirty'
                \/ c \in Crowded /\ (c \in dirty' <=> c \in dirty)
      <3>1. CASE WriteLeaseCleanup(c)
        BY <3>1, Zenon
        DEF WriteLeaseCleanup, CleanupMakesStable, MakeChunkStableInit,
            StableInv, StableAt, TypeOK
      <3>2. CASE WriteLeaseNoSpace(c)
        BY <3>2 DEF WriteLeaseNoSpace, TypeOK
      <3>3. CASE FlushWriteLease(c)
        BY <3>3 DEF FlushWriteLease, MakeChunkStableInit, TypeOK
      <3>4. CASE DeleteChunk(c) \/ InvalidateAllChunkReplicas(c)
        BY <3>4 DEF DeleteChunk, InvalidateAllChunkReplicas, TypeOK
      <3>5. ASSUME NEW all \in BOOLEAN, MakeChunkStableDone(c, all)
            PROVE  \/ mWriteLeases'[c] = mWriteLeases[c] /\ (c \in dirty' <=> c \in dirty)
                   \/ /\ mWriteLeases'[c] = NoLease
                      /\ \/ c \notin dirty'
                         \/ c \in Crowded /\ (c \in dirty' <=> c \in dirty)
        BY <3>5
        DEF MakeChunkStableDone, WriteCleanupDue, StableInv, StableAt, TypeOK
      <3> QED BY <1>2, <3>1, <3>2, <3>3, <3>4, <3>5
    <2>3. Left(c)
      <3>1. Readers(c)' \subseteq Readers(c)
        BY <2>1, FewerReaders
      <3>2. CASE mWriteLeases'[c] = mWriteLeases[c] /\ (c \in dirty' <=> c \in dirty)
        BY <3>1, <3>2 DEF Left, WriterLeft, Writer, Phase
      <3> QED BY <2>2, <3>1, <3>2, GoneIsLeft
    <2>4. \A d \in Chunks : d # c => Left(d)
      BY <2>1, SameIsLeft
    <2> QED BY <2>1, <2>3, <2>4, LeftIsStep
  <1>3. ASSUME RenewRead(c) \/ RelinquishRead(c) PROVE Table!Next
    <2>1. /\ UNCHANGED <<mWriteLeases, dirty, nextId>>
          /\ \A d \in Chunks : d # c => mReadLeases'[d] = mReadLeases[d]
      BY <1>3 DEF RenewRead, RelinquishRead, TypeOK
    <2>2. ASSUME NEW r \in mReadLeases'[c], 0 <= r.ttl
          PROVE  \E q \in mReadLeases[c] : 0 <= q.ttl /\ q.id = r.id
      <3>1. CASE RelinquishRead(c)
        BY <2>2, <3>1 DEF RelinquishRead, TypeOK
      <3>2. CASE RenewRead(c)
        <4>1. PICK q \in mReadLeases[c] : mReadLeases' = [mReadLeases EXCEPT ![c] =
                (@ \ {q}) \cup (IF q.ttl < 0 THEN {}
                                ELSE {[q EXCEPT !.ttl = LeaseInterval]})]
          BY <3>2, Zenon DEF RenewRead
        <4>2. q \in [id : ReadIds, ttl : TTL] /\ q.ttl \in Int
          <5>1. q \in [id : ReadIds, ttl : TTL]
            BY DEF TypeOK
          <5> QED BY <5>1, TTLRange, Zenon
        <4>3. r \in mReadLeases[c] \/ (0 <= q.ttl /\ r.id = q.id)
          BY <2>2, <4>1, <4>2 DEF TypeOK
        <4> QED BY <2>2, <4>3
      <3> QED BY <1>3, <3>1, <3>2
    <2>3. Readers(c)' \subseteq Readers(c)
      BY <2>2 DEF Readers
    <2>4. Left(c)
      BY <2>1, <2>3 DEF Left, WriterLeft, Writer, Phase
    <2>5. \A d \in Chunks : d # c => Left(d)
      BY <2>1, SameIsLeft
    <2> QED BY <2>1, <2>4, <2>5, LeftIsStep
  <1>4. ASSUME NEW s \in Servers, ChunkCorrupt(c, s) PROVE Table!Next
    <2> DEFINE v == ReplicaLost(c, mWriteLeases[c], s, FALSE)
    <2>1. /\ mWriteLeases' = [mWriteLeases EXCEPT ![c] = v]
          /\ UNCHANGED <<mReadLeases, dirty, nextId>>
      BY <1>4, Zenon DEF ChunkCorrupt
    <2>2. mWriteLeases[c] \in WriteLease =>
              /\ v \in WriteLease
              /\ v.id = mWriteLeases[c].id
              /\ v.relinquished = mWriteLeases[c].relinquished
              /\ v.allocInFlight = mWriteLeases[c].allocInFlight
              /\ v.relinquished = mWriteLeases[c].relinquished
      BY ReplicaLostLemma, FALSE \in BOOLEAN, Zenon
    <2>3. mWriteLeases[c] = NoLease => v = NoLease
      BY ReplicaLostNone, Zenon
    <2> HIDE DEF v
    <2>4. \A d \in Chunks : mWriteLeases'[d] = IF d = c THEN v ELSE mWriteLeases[d]
      BY <2>1 DEF TypeOK
    <2>5. CASE mWriteLeases[c] = NoLease
      <3>1. \A d \in Chunks : Left(d)
        BY <2>1, <2>3, <2>4, <2>5, SameIsLeft
      <3> QED BY <2>1, <3>1, LeftIsStep
    <2>6. CASE mWriteLeases[c] \in WriteLease
      <3>1. \A d \in Chunks : d # c => Left(d)
        BY <2>1, <2>4, SameIsLeft
      <3>2. Left(c)
        BY <2>1, <2>2, <2>4, <2>6, FewerReaders, TouchedIsLeft, NoLeaseNew
      <3> QED BY <2>1, <3>1, <3>2, LeftIsStep
    <2> QED BY <2>5, <2>6 DEF TypeOK
  <1>5. ASSUME \/ ChunkVersChangeDone(c)
               \/ \E s \in Servers : AddHosted(c, s)
        PROVE  Table!Next
    <2>1. UNCHANGED <<mReadLeases, mWriteLeases, dirty, nextId>>
      BY <1>5 DEF ChunkVersChangeDone, AddHosted
    <2> QED BY <2>1, SameIsLeft, LeftIsStep
  <1> QED BY <1>1, <1>2, <1>3, <1>4, <1>5

\* A relinquished write lease gives the chunk back (LeaseRelinquish).
LEMMA RelinquishStep ==
    ASSUME TypeOK, StableInv, NEW c \in Chunks, NEW z \in BOOLEAN,
           RelinquishWrite(c, z), mWriteLeases[c] # NoLease,
           ~mWriteLeases[c].allocInFlight, c \in mapped,
           UNCHANGED <<mReadLeases, nextId>>
    PROVE  Table!Next
  <1> DEFINE w == mWriteLeases[c]
             v == mWriteLeases'[c]
  <1>1. /\ w \in WriteLease /\ v = Relinquished(w)
        /\ \A d \in Chunks : d # c => /\ mWriteLeases'[d] = mWriteLeases[d]
                                      /\ d \in dirty' <=> d \in dirty
    BY DEF RelinquishWrite, MakeChunkStableInit, TypeOK
  <1>2. /\ v \in WriteLease /\ v.id = w.id /\ v.allocInFlight = w.allocInFlight
        /\ v.relinquished
    BY <1>1, RelinquishLemma
  <1>3. CASE w.relinquished
    <2>1. dirty' = dirty
      BY <1>3 DEF RelinquishWrite
    <2>2. v.relinquished = w.relinquished
      BY <1>1, <1>2, <1>3 DEF WriteLease
    <2> QED BY <1>1, <1>2, <2>1, <2>2, FewerReaders, TouchedIsLeft, SameIsLeft,
               NoLeaseNew, LeftIsStep
  <1>4. CASE ~w.relinquished
    <2>1. c \notin dirty'
      BY <1>4 DEF RelinquishWrite, MakeChunkStableInit, StableInv, StableAt
    <2>2. Left(c)
      BY <1>1, <1>2, <1>4, <2>1, ReturnedIsLeft, NoLeaseNew
    <2>3. \A d \in Chunks : d # c => Left(d)
      BY <1>1, SameIsLeft
    <2> QED BY <2>2, <2>3, LeftIsStep
  <1> QED BY <1>3, <1>4

\* The two handlers that let in a writer.
LEMMA EnterStep ==
    ASSUME TypeOK, NEW c \in Chunks, NEW w,
           w # NoLease, w.id = nextId, w.allocInFlight,
           mWriteLeases[c] = NoLease \/ ~mWriteLeases[c].allocInFlight,
           mWriteLeases' = [mWriteLeases EXCEPT ![c] = w],
           Readers(c) = {}, Readers(c)' = {},
           \A d \in Chunks : d # c => mReadLeases'[d] = mReadLeases[d],
           nextId' = nextId + 1, dirty' = dirty
    PROVE  Table!Next
  <1> DEFINE writer == [d \in Chunks |-> Writer(d)]
  <1>1. Writer(c)' = [id |-> (nextId - 1) + 1, phase |-> "granting"]
    <2>1. nextId = (nextId - 1) + 1
      BY DEF TypeOK
    <2>2. mWriteLeases'[c] = w
      BY DEF TypeOK
    <2> QED BY <2>1, <2>2 DEF Writer, Phase
  <1>2. \A d \in Chunks : d # c => Writer(d)' = Writer(d)
    BY DEF Writer, Phase, TypeOK
  <1>3. writer' = [writer EXCEPT ![c] = [id |-> (nextId - 1) + 1, phase |-> "granting"]]
    BY <1>1, <1>2, Zenon
  <1>4. [d \in Chunks |-> Readers(d)]' = [d \in Chunks |-> Readers(d)]
    BY DEF Readers
  <1>5. nextId' - 1 = (nextId - 1) + 1
    BY DEF TypeOK
  <1>6. Writer(c).phase # "granting"
    BY DEF Writer, Phase
  <1>7. Table!WriterEnters(c)
    BY <1>3, <1>4, <1>5, <1>6 DEF Table!WriterEnters
  <1> QED BY <1>7 DEF Table!Next

\* Every handler is a step of the abstract table.
LEMMA NextIsStep ==
    ASSUME TypeOK, StableInv, Next
    PROVE  Table!Next
  <1>1. ASSUME NEW a \in allocs, AllocSucceeds(a) PROVE Table!Next
    <2> DEFINE c == a.chunk
               w == mWriteLeases[c]
               v == AllocDoneLease(w)
               writer == [d \in Chunks |-> Writer(d)]
    <2>1. c \in Chunks /\ w \in WriteLease /\ w # NoLease /\ w.allocInFlight
      BY <1>1 DEF AllocSucceeds, Validate, TypeOK, Alloc
    <2>2. /\ mWriteLeases' = [mWriteLeases EXCEPT ![c] = v]
          /\ dirty' = dirty \cup {c} /\ mReadLeases' = mReadLeases
          /\ nextId' = nextId
      BY <1>1, Zenon DEF AllocSucceeds
    <2>3. v \in WriteLease /\ v.id = w.id /\ v.allocInFlight = FALSE
          /\ v.relinquished = w.relinquished
      BY <2>1, CommitLemma, Zenon
    <2>4. ~w.relinquished
      BY <2>1 DEF StableInv, StableAt
    <2> HIDE DEF v
    <2>5. mWriteLeases'[c] = v /\ \A d \in Chunks :
              d # c => mWriteLeases'[d] = mWriteLeases[d]
      BY <2>1, <2>2 DEF TypeOK
    <2>6. /\ Writer(c).phase = "granting"
          /\ Writer(c)' = [id |-> Writer(c).id, phase |-> "held"]
          /\ \A d \in Chunks : d # c => Writer(d)' = Writer(d)
      BY <2>1, <2>3, <2>4, <2>5, NoLeaseNew DEF Writer, Phase
    <2>7. writer' = [writer EXCEPT ![c] = [id |-> writer[c].id, phase |-> "held"]]
      BY <2>1, <2>6
    <2>8. [d \in Chunks |-> Readers(d)]' = [d \in Chunks |-> Readers(d)]
      BY <2>2 DEF Readers
    <2>9. Table!WriterStarts(c)
      BY <2>1, <2>2, <2>6, <2>7, <2>8 DEF Table!WriterStarts
    <2> QED BY <2>1, <2>9 DEF Table!Next
  <1>2. ASSUME NEW a \in allocs, AllocFails(a) PROVE Table!Next
    <2> DEFINE c == a.chunk
    <2>1. c \in Chunks
      BY DEF TypeOK, Alloc
    <2>2. /\ mWriteLeases'[c] = NoLease /\ c \notin dirty'
          /\ mReadLeases' = mReadLeases /\ nextId' = nextId
          /\ \A d \in Chunks : d # c => /\ mWriteLeases'[d] = mWriteLeases[d]
                                        /\ d \in dirty' <=> d \in dirty
      BY <1>2, <2>1 DEF AllocFails, TypeOK
    <2>3. Left(c)
      BY <2>1, <2>2, FewerReaders, GoneIsLeft
    <2>4. \A d \in Chunks : d # c => Left(d)
      BY <2>2, SameIsLeft
    <2> QED BY <2>2, <2>3, <2>4, LeftIsStep
  <1>3. ASSUME UNCHANGED <<mReadLeases, mWriteLeases, dirty, nextId>>
        PROVE  Table!Next
    BY <1>3, SameIsLeft, LeftIsStep
  <1>4. ASSUME NEW a \in allocs, AllocStale(a) \/ AssignChunkIdFails(a)
        PROVE  Table!Next
    BY <1>3, <1>4 DEF AllocStale, AssignChunkIdFails
  <1>5. ASSUME NEW c \in Chunks, NEW z \in BOOLEAN, LeaseRelinquish(c, z)
        PROVE  Table!Next
    BY <1>3, <1>5, RelinquishStep DEF LeaseRelinquish
  <1>6. ASSUME NEW d \in deferred, NEW z \in BOOLEAN, DeferredRelinquish(d, z)
        PROVE  Table!Next
    BY <1>3, <1>6, RelinquishStep DEF DeferredRelinquish, TypeOK
  <1>7. CASE LeaseCleanup
    <2>1. ASSUME NEW c \in Chunks PROVE Left(c)
      <3>1. Readers(c)' \subseteq Readers(c)
        BY <1>7, FewerReaders DEF LeaseCleanup, ReadCleanup
      <3>2. CASE WriteCleanupDue(c, mWriteLeases[c], OwnerDownExpireDelay)
        <4>1. mWriteLeases'[c] = NoLease
          BY <1>7, <3>2 DEF LeaseCleanup
        <4>2. c \notin dirty' \/ (c \in Crowded /\ (c \in dirty' <=> c \in dirty))
          BY <1>7, <3>2
          DEF LeaseCleanup, CleanupMakesStable, WriteCleanupDue, StableInv, StableAt
        <4> QED BY <3>1, <4>1, <4>2, GoneIsLeft
      <3>3. CASE ~WriteCleanupDue(c, mWriteLeases[c], OwnerDownExpireDelay)
        <4>1. mWriteLeases'[c] = mWriteLeases[c] /\ (c \in dirty' <=> c \in dirty)
          BY <1>7, <3>3 DEF LeaseCleanup, CleanupMakesStable
        <4> QED BY <3>1, <4>1 DEF Left, WriterLeft, Writer, Phase
      <3> QED BY <3>2, <3>3
    <2> QED BY <1>7, <2>1, LeftIsStep DEF LeaseCleanup
  <1>8. CASE Tick
    <2>1. ASSUME NEW c \in Chunks PROVE Left(c)
      <3>1. Readers(c)' \subseteq Readers(c)
        <4>1. ASSUME NEW r \in mReadLeases'[c], 0 <= r.ttl
              PROVE  \E q \in mReadLeases[c] : 0 <= q.ttl /\ q.id = r.id
          <5>1. PICK q \in mReadLeases[c] : r = [q EXCEPT !.ttl = Later(@)]
            BY <1>8 DEF Tick
          <5>2. q \in [id : ReadIds, ttl : TTL]
            BY DEF TypeOK
          <5>3. r.id = q.id /\ r.ttl = Later(q.ttl)
            BY <5>1, <5>2
          <5>4. q.ttl \in Int
            BY <5>2, TTLRange
          <5> QED BY <4>1, <5>3, <5>4 DEF Later
        <4> QED BY <4>1 DEF Readers
      <3>2. dirty' = dirty
        BY <1>8 DEF Tick
      <3>3. CASE mWriteLeases[c] = NoLease
        BY <1>8, <3>1, <3>2, <3>3 DEF Tick, Left, WriterLeft, Writer
      <3>4. CASE mWriteLeases[c] # NoLease
        <4>1. /\ mWriteLeases'[c] \in WriteLease
              /\ mWriteLeases'[c].id = mWriteLeases[c].id
              /\ mWriteLeases'[c].relinquished = mWriteLeases[c].relinquished
              /\ mWriteLeases'[c].allocInFlight = mWriteLeases[c].allocInFlight
          BY <1>8, <3>4, TTLRange DEF Tick, TypeOK, WriteLease
        <4> QED BY <3>1, <3>2, <3>4, <4>1, TouchedIsLeft, NoLeaseNew
      <3> QED BY <3>3, <3>4
    <2> QED BY <1>8, <2>1, LeftIsStep DEF Tick
  <1>9. ASSUME NEW s \in Servers, ServerDown(s) PROVE Table!Next
    <2>1. ASSUME NEW c \in Chunks PROVE Left(c)
      <3> DEFINE v == ReplicaLost(c, mWriteLeases[c], s, TRUE)
      <3>1. mWriteLeases'[c] = v
        BY <1>9, Zenon DEF ServerDown
      <3>2. mWriteLeases[c] \in WriteLease =>
                /\ v \in WriteLease
                /\ v.id = mWriteLeases[c].id
                /\ v.relinquished = mWriteLeases[c].relinquished
                /\ v.allocInFlight = mWriteLeases[c].allocInFlight
        BY ReplicaLostLemma, TRUE \in BOOLEAN, Zenon
      <3>3. mWriteLeases[c] = NoLease => v = NoLease
        BY ReplicaLostNone, Zenon
      <3>4. mReadLeases' = mReadLeases /\ dirty' = dirty
        BY <1>9, Zenon DEF ServerDown
      <3> HIDE DEF v
      <3>5. CASE mWriteLeases[c] = NoLease
        BY <3>1, <3>3, <3>4, <3>5, SameIsLeft
      <3>6. CASE mWriteLeases[c] \in WriteLease
        BY <3>1, <3>2, <3>4, <3>6, FewerReaders, TouchedIsLeft, NoLeaseNew
      <3> QED BY <3>5, <3>6 DEF TypeOK
    <2> QED BY <1>9, <2>1, LeftIsStep DEF ServerDown
  <1>10. ASSUME NEW c \in Chunks, NEW s \in Servers, NEW append \in BOOLEAN
         PROVE  /\ NewLease(s, append) # NoLease
                /\ NewLease(s, append).id = nextId
                /\ NewLease(s, append).allocInFlight
    <2>1. NewLease(s, append) \in WriteLease
      BY TTLRange DEF NewLease, WriteLease, TypeOK
    <2> QED BY <2>1, NoLeaseNew, Zenon DEF NewLease
  <1>11. ASSUME NEW c \in Chunks, NEW srvs \in SUBSET Servers,
                NEW append \in BOOLEAN, AllocateChunk(c, srvs, append)
         PROVE  Table!Next
    <2>1. PICK s \in Servers :
             mWriteLeases' = [mWriteLeases EXCEPT ![c] = NewLease(s, append)]
      BY <1>11, Zenon DEF AllocateChunk
    <2>2. /\ mWriteLeases[c] = NoLease /\ c \notin mapped
          /\ UNCHANGED <<mReadLeases, dirty>> /\ nextId' = nextId + 1
      BY <1>11, Zenon DEF AllocateChunk
    <2>3. mReadLeases[c] = {}
      BY <2>2 DEF StableInv, StableAt
    <2>4. Readers(c) = {} /\ Readers(c)' = {}
      BY <2>2, <2>3 DEF Readers
    <2> DEFINE w == NewLease(s, append)
    <2>5. w # NoLease /\ w.id = nextId /\ w.allocInFlight
      BY <1>10
    <2> HIDE DEF w
    <2>6. mWriteLeases' = [mWriteLeases EXCEPT ![c] = w]
      BY <2>1 DEF w
    <2> QED BY <2>2, <2>4, <2>5, <2>6, EnterStep, Zenon
  <1>12. ASSUME NEW c \in Chunks, GetChunkWriteLease(c) PROVE Table!Next
    <2>1. PICK s \in hosts[c] :
             mWriteLeases' = [mWriteLeases EXCEPT ![c] = NewLease(s, FALSE)]
      BY <1>12, Zenon DEF GetChunkWriteLease
    <2>2. /\ ReadyForNewLease(c) /\ mReadLeases' = [mReadLeases EXCEPT ![c] = {}]
          /\ UNCHANGED dirty /\ nextId' = nextId + 1
      BY <1>12, Zenon DEF GetChunkWriteLease
    <2>3. mWriteLeases[c] = NoLease \/ ~mWriteLeases[c].allocInFlight
      BY <2>2 DEF ReadyForNewLease, WriteCleanupDue
    <2>4. Readers(c) = {} /\ Readers(c)' = {}
      BY <2>2 DEF ReadyForNewLease, ReadCleanup, Readers, TypeOK
    <2>5. \A d \in Chunks : d # c => mReadLeases'[d] = mReadLeases[d]
      BY <2>2 DEF TypeOK
    <2>6. s \in Servers
      BY DEF TypeOK
    <2> DEFINE w == NewLease(s, FALSE)
    <2>7. w # NoLease /\ w.id = nextId /\ w.allocInFlight
      BY <1>10, <2>6, FALSE \in BOOLEAN, Zenon
    <2> HIDE DEF w
    <2>8. mWriteLeases' = [mWriteLeases EXCEPT ![c] = w]
      BY <2>1 DEF w
    <2> QED BY <2>2, <2>3, <2>4, <2>5, <2>7, <2>8, EnterStep, Zenon
  <1>13. ASSUME NEW c \in Chunks, NEW id \in ReadIds, NEW t \in 1..LeaseInterval,
                GetChunkReadLease(c, id, t)
         PROVE  Table!Next
    <2> DEFINE readers == [d \in Chunks |-> Readers(d)]
               r == [id |-> id, ttl |-> t]
    <2>1. /\ mWriteLeases[c] = NoLease /\ mReadLeases[c] \cup {r} = mReadLeases'[c]
          /\ UNCHANGED <<mWriteLeases, dirty, nextId>>
          /\ \A d \in Chunks : d # c => mReadLeases'[d] = mReadLeases[d]
      BY <1>13 DEF GetChunkReadLease, NoWriteLease, TypeOK
    <2>2. r.id = id /\ 0 <= r.ttl
      BY IntervalType
    <2> HIDE DEF r
    <2>3. Readers(c)' = Readers(c) \cup {id}
      BY <2>1, <2>2 DEF Readers
    <2>4. \A d \in Chunks : d # c => Readers(d)' = Readers(d)
      BY <2>1 DEF Readers
    <2>5. readers' = [readers EXCEPT ![c] = @ \cup {id}]
      BY <2>3, <2>4, Zenon
    <2>6. [d \in Chunks |-> Writer(d)]' = [d \in Chunks |-> Writer(d)]
      BY <2>1 DEF Writer, Phase
    <2>7. Writer(c) = Table!Idle /\ (c \in dirty => c \in Crowded)
      BY <2>1 DEF Writer, Table!Idle, StableInv, StableAt
    <2>8. Table!ReaderEnters(c, id)
      BY <2>1, <2>5, <2>6, <2>7 DEF Table!ReaderEnters
    <2> QED BY <2>8 DEF Table!Next
  <1> QED
    BY <1>1, <1>2, <1>4, <1>5, <1>6, <1>7, <1>8, <1>9, <1>11, <1>12, <1>13,
       LeaveSteps
    DEF Next, AllocDone, HandleDeferred, StableDone

\* The handlers of the meta server's lease code implement the table of readers
\* and writers: a reader is let in only where there is no writer and nothing to
\* make stable, a writer only where every valid reader has left.
THEOREM LeasesImplementTable == Spec => ImplementsLeaseTable
  <1>1. TypeOK /\ StableInv /\ [Next]_vars => [Table!Next]_(Table!tableVars)
    <2>1. ASSUME UNCHANGED vars PROVE UNCHANGED Table!tableVars
      BY <2>1 DEF vars, Table!tableVars, Readers, Writer, Phase
    <2> QED BY <2>1, NextIsStep
  <1>2. Spec => []StableInv
    <2>1. TypeOK /\ LeaseInv => StableInv
      BY LeaseInvParts
    <2> QED BY <2>1, TypeCorrect, LeaseInvHolds, PTL
  <1> QED BY <1>1, <1>2, InitIsInit, TypeCorrect, PTL
          DEF Spec, ImplementsLeaseTable, Table!Spec
=============================================================================
