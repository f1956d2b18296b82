---------------------------- MODULE ChunkLeases ----------------------------
(***************************************************************************)
(* The meta server's chunk lease tables (class ChunkLeases) together with  *)
(* the write allocation requests (MetaAllocate) that create write leases,  *)
(* and the lease timer.                                                    *)
(*                                                                         *)
(* The meta server is a single threaded event loop: a handler is one       *)
(* action.  The code compares lease expiration times with TimeNow() only,  *)
(* so a lease carries `ttl', its expiration time relative to now: it is    *)
(* valid while 0 <= ttl.  Tick is the advance of TimeNow() by one unit.    *)
(***************************************************************************)
EXTENDS Integers, FiniteSets

CONSTANTS
    Chunks,                 \* chunk ids
    Servers,                \* chunk servers
    ReadIds,                \* read lease ids (even ids in the code)
    NoLease, NoServer,      \* null WEntry, null chunk server pointer
    Striped,                \* chunks of striped files
    LeaseInterval,          \* LEASE_INTERVAL_SECS
    OwnerDownExpireDelay,   \* mLeaseOwnerDownExpireDelay
    Crowded,                \* chunks with a server that may be short of space
    MaxLeaseId              \* bound: write leases issued

ASSUME StripedType == Striped \subseteq Chunks
ASSUME IntervalType == LeaseInterval \in Nat \ {0}
ASSUME DelayType == OwnerDownExpireDelay \in Nat
ASSUME CrowdedType == Crowded \subseteq Chunks
ASSUME MaxLeaseIdType == MaxLeaseId \in Nat
ASSUME NoServerNew == NoServer \notin Servers

VARIABLES
    mReadLeases,    \* [Chunks -> set of [id, ttl]]; empty set: no entry
    mWriteLeases,   \* [Chunks -> WriteLease or NoLease]
    mapped,         \* chunks in mChunkToServerMap
    hosts,          \* [Chunks -> SUBSET Servers], servers of the mapping
    nonStable,      \* chunks in mNonStableChunks
    changing,       \* chunks with a version roll back RPC in flight
    allocs,         \* MetaAllocate requests in flight
    deferred,       \* relinquish requests put off until the allocation ends
    nextId,         \* next write lease id
    metaUp,         \* FALSE once the meta server process has crashed
    asked,          \* ghost: write lease ids whose owner asked to relinquish
                    \* them, and was not refused
    dirty           \* ghost: chunks opened for write by a committed lease,
                    \* and not since handed to make stable or discarded

vars == <<mReadLeases, mWriteLeases, mapped, hosts, nonStable, changing,
          allocs, deferred, nextId, metaUp, asked, dirty>>

\* GetInitialWriteLeaseExpireTime(): ten years, longer than any allocation.
Forever == LeaseInterval + 1
\* A lease this long past its expiration is past every deadline in the code.
LongExpired == -(OwnerDownExpireDelay + 1)
TTL == LongExpired..Forever

WriteLease ==
    [id : Nat, ttl : TTL, server : Servers \cup {NoServer}, append : BOOLEAN,
     relinquished : BOOLEAN, ownerWasDown : BOOLEAN, allocInFlight : BOOLEAN]

ASSUME NoLeaseNew == NoLease \notin WriteLease

Alloc == [chunk : Chunks, id : Nat, new : BOOLEAN, servers : SUBSET Servers,
          serverDown : BOOLEAN, relinquish : BOOLEAN]

TypeOK ==
    /\ mReadLeases \in [Chunks -> SUBSET [id : ReadIds, ttl : TTL]]
    /\ mWriteLeases \in [Chunks -> WriteLease \cup {NoLease}]
    /\ mapped \subseteq Chunks
    /\ hosts \in [Chunks -> SUBSET Servers]
    /\ nonStable \subseteq Chunks
    /\ changing \subseteq Chunks
    /\ allocs \subseteq Alloc
    /\ deferred \subseteq [chunk : Chunks, id : Nat]
    /\ nextId \in Nat
    /\ metaUp \in BOOLEAN
    /\ asked \subseteq Nat
    /\ dirty \subseteq Chunks

Init ==
    /\ mReadLeases = [c \in Chunks |-> {}]
    /\ mWriteLeases = [c \in Chunks |-> NoLease]
    /\ mapped = {}
    /\ hosts = [c \in Chunks |-> {}]
    /\ nonStable = {}
    /\ changing = {}
    /\ allocs = {}
    /\ deferred = {}
    /\ nextId = 1
    /\ metaUp = TRUE
    /\ asked = {}
    /\ dirty = {}

-----------------------------------------------------------------------------
(* Operations on one lease. *)

Valid(w) == w # NoLease /\ 0 <= w.ttl

\* Mutant: an expired lease, not cleaned up yet, does not stop a reader.
NoValidWriteLease(c) == ~Valid(mWriteLeases[c])

\* ~ChunkLeases::HasWriteLease: an expired entry counts.
NoWriteLease(c) == mWriteLeases[c] = NoLease

\* ChunkLeases::Renew(WEntry&): never shortens a lease.
Renew(w) == [w EXCEPT !.ttl = IF @ < LeaseInterval THEN LeaseInterval ELSE @]

\* ChunkLeases::Expire(WEntry&)
Expire(w) == [w EXCEPT !.ttl = IF -1 < @ THEN -1 ELSE @]

\* ChunkLeases::RenewValidWriteLease: an allocation in flight is not renewed.
RenewValid(w) == IF w.allocInFlight THEN w ELSE Renew(w)

\* Mutant: the lease of every chunk is kept, as for striped files.
ReplicaLostKeeps(c, w, s, down) ==
    IF w # NoLease /\ w.server = s /\ ~w.relinquished /\ ~w.allocInFlight
    THEN [(IF Valid(w) THEN Renew(w) ELSE Expire(w))
            EXCEPT !.ownerWasDown = @ \/ down, !.server = NoServer]
    ELSE w

\* ChunkLeases::ReplicaLost(WEntry&, chunkServer)
ReplicaLost(c, w, s, down) ==
    IF w # NoLease /\ w.server = s /\ ~w.relinquished /\ ~w.allocInFlight
    THEN [(IF c \in Striped /\ Valid(w) THEN Renew(w) ELSE Expire(w))
            EXCEPT !.ownerWasDown = @ \/ down, !.server = NoServer]
    ELSE w

\* Mutant: "exp <= now" for "exp < now".
CleanupDueEarly(c, w, delay) ==
    /\ w # NoLease
    /\ ~w.allocInFlight
    /\ \/ c \notin mapped
       \/ w.ttl + (IF w.ownerWasDown THEN delay ELSE 0) <= 0

\* ChunkLeases::ExpiredCleanup(WEntry&, now, delay): is the entry erased?
WriteCleanupDue(c, w, delay) ==
    /\ w # NoLease
    /\ ~w.allocInFlight
    /\ \/ c \notin mapped
       \/ w.ttl + (IF w.ownerWasDown THEN delay ELSE 0) < 0

\* ... and does erasing it start make chunk stable?
CleanupMakesStable(c, w, delay) ==
    WriteCleanupDue(c, w, delay) /\ c \in mapped /\ ~w.relinquished

\* MakeChunkStableInit puts the chunk in mNonStableChunks, unless it has no
\* replica: an append chunk with a known size is then still logged.
EntersNonStable(c, append, sizeKnown) ==
    hosts[c] # {} \/ (append /\ sizeKnown)

\* MakeChunkStableInit when the chunk is not in mNonStableChunks takes over the
\* chunk; otherwise make stable is "already in progress", and it does nothing.
MakeChunkStableInit(c, append, sizeKnown) ==
    /\ nonStable' = IF EntersNonStable(c, append, sizeKnown)
                    THEN nonStable \cup {c} ELSE nonStable
    /\ dirty' = IF c \in nonStable THEN dirty ELSE dirty \ {c}

\* ChunkLeases::ExpiredCleanup(REntry&, now)
ReadCleanup(c) == {r \in mReadLeases[c] : 0 <= r.ttl}

-----------------------------------------------------------------------------
(* Write allocation: MetaAllocate, GetChunkWriteLease, LayoutDone. *)

NewLease(s, append) ==
    [id |-> nextId, ttl |-> Forever, server |-> s, append |-> append,
     relinquished |-> FALSE, ownerWasDown |-> FALSE, allocInFlight |-> TRUE]

NewAlloc(c, new, srvs) ==
    [chunk |-> c, id |-> nextId, new |-> new, servers |-> srvs,
     serverDown |-> FALSE, relinquish |-> FALSE]

\* MetaAllocate::handle, LayoutManager::AllocateChunk: a new chunk id.  The
\* chunk is not mapped until the allocation succeeds.
AllocateChunk(c, srvs, append) ==
    /\ metaUp
    /\ c \notin mapped
    /\ mWriteLeases[c] = NoLease
    /\ c \notin nonStable \cup changing
    /\ \A a \in allocs : a.chunk # c
    /\ \A d \in deferred : d.chunk # c
    /\ append => c \notin Striped
    /\ srvs # {}
    /\ nextId <= MaxLeaseId
    /\ \E s \in srvs : mWriteLeases' =
            [mWriteLeases EXCEPT ![c] = NewLease(s, append)]
    /\ allocs' = allocs \cup {NewAlloc(c, TRUE, srvs)}
    /\ nextId' = nextId + 1
    /\ UNCHANGED <<mReadLeases, mapped, hosts, nonStable, changing, deferred,
                   metaUp, asked, dirty>>

\* LayoutManager::GetChunkWriteLease, early returns that keep the lease: an
\* allocation in flight or an append lease (EBUSY), or a striped chunk with
\* no replica (EDATAUNAVAIL).  The valid lease is renewed all the same.
WriteLeaseDenied(c) ==
    /\ metaUp
    /\ c \in mapped
    /\ c \notin changing
    /\ hosts[c] = {} => c \in Striped
    /\ Valid(mWriteLeases[c])
    /\ \/ mWriteLeases[c].allocInFlight
       \/ mWriteLeases[c].append
       \/ hosts[c] = {}
    /\ mWriteLeases' = [mWriteLeases EXCEPT ![c] = RenewValid(@)]
    /\ UNCHANGED <<mReadLeases, mapped, hosts, nonStable, changing, allocs,
                   deferred, nextId, metaUp, asked, dirty>>

\* GetChunkWriteLease, ExpiredLeaseCleanup() with no valid write lease: the
\* expired read leases go, and so does an expired write lease, which starts
\* make chunk stable unless it was relinquished.  The request fails with EBUSY:
\* valid read leases are left, or the chunk is not stable.
WriteLeaseCleanup(c) ==
    /\ metaUp
    /\ c \in mapped
    /\ c \notin changing
    /\ hosts[c] # {}
    /\ ~Valid(mWriteLeases[c])
    /\ mReadLeases' = [mReadLeases EXCEPT ![c] = ReadCleanup(c)]
    /\ \/ /\ ReadCleanup(c) # {}
          /\ UNCHANGED <<mWriteLeases, nonStable, dirty>>
       \/ /\ CleanupMakesStable(c, mWriteLeases[c], 0)
          /\ mWriteLeases' = [mWriteLeases EXCEPT ![c] = NoLease]
          /\ MakeChunkStableInit(c, mWriteLeases[c].append, FALSE)
       \/ /\ WriteCleanupDue(c, mWriteLeases[c], 0)
          /\ mWriteLeases[c].relinquished
          /\ c \in nonStable
          /\ mWriteLeases' = [mWriteLeases EXCEPT ![c] = NoLease]
          /\ UNCHANGED <<nonStable, dirty>>
    /\ UNCHANGED <<mapped, hosts, changing, allocs, deferred, nextId, metaUp, asked>>

\* The lease table lets GetChunkWriteLease go on to the version bump: a valid
\* lease is deleted, an expired relinquished one is cleaned up.
ReadyForNewLease(c) ==
    /\ metaUp
    /\ c \in mapped
    /\ c \notin changing
    /\ c \notin nonStable
    /\ hosts[c] # {}
    /\ ReadCleanup(c) = {}
    /\ LET w == mWriteLeases[c] IN
       \/ w = NoLease
       \/ Valid(w) /\ ~w.allocInFlight /\ ~w.append
       \/ WriteCleanupDue(c, w, 0) /\ w.relinquished

\* GetChunkWriteLease: bump the version and issue a new lease.
GetChunkWriteLease(c) ==
    /\ ReadyForNewLease(c)
    /\ nextId <= MaxLeaseId
    /\ mReadLeases' = [mReadLeases EXCEPT ![c] = {}]
    /\ \E s \in hosts[c] : mWriteLeases' =
            [mWriteLeases EXCEPT ![c] = NewLease(s, FALSE)]
    /\ allocs' = allocs \cup {NewAlloc(c, FALSE, hosts[c])}
    /\ nextId' = nextId + 1
    /\ UNCHANGED <<mapped, hosts, nonStable, changing, deferred, metaUp, asked, dirty>>

\* GetChunkWriteLease: a hosting server is out of space, -ENOSPC.  The lease
\* that was in the way is gone by then.
WriteLeaseNoSpace(c) ==
    /\ c \in Crowded
    /\ ReadyForNewLease(c)
    /\ mReadLeases' = [mReadLeases EXCEPT ![c] = {}]
    /\ mWriteLeases' = [mWriteLeases EXCEPT ![c] = NoLease]
    /\ UNCHANGED <<mapped, hosts, nonStable, changing, allocs, deferred,
                   nextId, metaUp, asked, dirty>>

\* LayoutManager::Validate(MetaAllocate*)
Validate(a) ==
    LET w == mWriteLeases[a.chunk] IN
    w # NoLease /\ w.allocInFlight /\ w.id = a.id

\* ChunkLeases::Renew with allocDoneFlag.
AllocDoneLease(w) ==
    [w EXCEPT !.allocInFlight = FALSE, !.ttl = LeaseInterval]

\* Mutant: the relinquish that came in the meantime is never submitted.
AllocSucceedsForgets(a) ==
    LET c == a.chunk IN
    /\ metaUp
    /\ Validate(a)
    /\ ~a.serverDown
    /\ mapped' = mapped \cup {c}
    /\ mWriteLeases' = [mWriteLeases EXCEPT ![c] = AllocDoneLease(@)]
    /\ hosts' = IF a.new THEN [hosts EXCEPT ![c] = a.servers] ELSE hosts
    /\ dirty' = dirty \cup {c}
    /\ allocs' = allocs \ {a}
    /\ UNCHANGED <<mReadLeases, nonStable, changing, deferred, nextId, metaUp, asked>>

\* MetaAllocate::LayoutDone with status 0: assignChunkId() maps the chunk, and
\* CommitOrRollBackChunkVersion() renews the lease with allocDoneFlag.  A
\* relinquish that came in the meantime is submitted once the op is logged.
AllocSucceeds(a) ==
    LET c == a.chunk IN
    /\ metaUp
    /\ Validate(a)
    /\ ~a.serverDown
    /\ mapped' = mapped \cup {c}
    /\ mWriteLeases' = [mWriteLeases EXCEPT ![c] = AllocDoneLease(@)]
    /\ hosts' = IF a.new THEN [hosts EXCEPT ![c] = a.servers] ELSE hosts
    /\ dirty' = dirty \cup {c}
    /\ allocs' = allocs \ {a}
    /\ deferred' = IF a.relinquish
                   THEN deferred \cup {[chunk |-> c, id |-> a.id]}
                   ELSE deferred
    /\ UNCHANGED <<mReadLeases, nonStable, changing, nextId, metaUp, asked>>

\* MetaAllocate::ChunkAllocDone takes the first server that failed the version
\* change out of the mapping, unless a server went down or it is the only one.
FirstFailed(a) ==
    IF ~a.new /\ ~a.serverDown /\ Cardinality(a.servers) > 1
    THEN a.servers ELSE {NoServer}

\* LayoutDone with an error, the op still valid.  A new chunk is deleted.  An
\* existing one is rolled back to its initial version, the version change RPC
\* making the replicas stable.
AllocFails(a) ==
    LET c == a.chunk IN
    /\ metaUp
    /\ Validate(a)
    /\ \E f \in FirstFailed(a) :
          /\ hosts' = [hosts EXCEPT ![c] = @ \ {f}]
          /\ changing' = IF a.new \/ hosts[c] \ {f} = {} THEN changing
                         ELSE changing \cup {c}
    /\ mWriteLeases' = [mWriteLeases EXCEPT ![c] = NoLease]
    /\ dirty' = dirty \ {c}
    /\ allocs' = allocs \ {a}
    /\ UNCHANGED <<mReadLeases, mapped, nonStable, deferred, nextId, metaUp, asked>>

\* LayoutDone, the op stale: its lease was deleted by DeleteChunk or by
\* InvalidateAllChunkReplicas while it was in flight.
AllocStale(a) ==
    /\ metaUp
    /\ ~Validate(a)
    /\ allocs' = allocs \ {a}
    /\ UNCHANGED <<mReadLeases, mWriteLeases, mapped, hosts, nonStable,
                   changing, deferred, nextId, metaUp, asked, dirty>>

\* LayoutDone with status 0 of a new chunk whose file was removed, or whose
\* offset was taken by another chunk: assignChunkId() fails, the chunk has no
\* MetaChunkInfo, and the null pointer is dereferenced.
AssignChunkIdFails(a) ==
    /\ metaUp
    /\ Validate(a)
    /\ ~a.serverDown
    /\ a.new
    /\ metaUp' = FALSE
    /\ UNCHANGED <<mReadLeases, mWriteLeases, mapped, hosts, nonStable,
                   changing, allocs, deferred, nextId, asked, dirty>>

-----------------------------------------------------------------------------
(* Requests of clients and chunk servers. *)

\* LayoutManager::GetChunkReadLease(s): the chunk is stable, has a replica and
\* no write lease.
GetChunkReadLease(c, id, timeout) ==
    /\ metaUp
    /\ c \in mapped \ nonStable
    /\ hosts[c] # {}
    /\ NoWriteLease(c)
    /\ \A r \in mReadLeases[c] : r.id # id
    /\ mReadLeases' = [mReadLeases EXCEPT ![c] =
            @ \cup {[id |-> id, ttl |-> timeout]}]
    /\ UNCHANGED <<mWriteLeases, mapped, hosts, nonStable, changing, allocs,
                   deferred, nextId, metaUp, asked, dirty>>

\* ... with a write lease in the way and flushFlag set: FlushWriteLease()
\* expires an append lease, and cleans it up.
FlushWriteLease(c) ==
    LET w == mWriteLeases[c] IN
    /\ metaUp
    /\ c \in mapped \ nonStable
    /\ hosts[c] # {}
    /\ w # NoLease
    /\ w.append /\ ~w.allocInFlight /\ ~w.relinquished /\ ~w.ownerWasDown
    /\ mWriteLeases' = [mWriteLeases EXCEPT ![c] = NoLease]
    /\ MakeChunkStableInit(c, w.append, FALSE)
    /\ UNCHANGED <<mReadLeases, mapped, hosts, changing, allocs, deferred,
                   nextId, metaUp, asked>>

\* ChunkLeases::Renew of a read lease.  An expired lease is erased.
RenewRead(c) ==
    /\ metaUp
    /\ c \in mapped
    /\ \E r \in mReadLeases[c] : mReadLeases' = [mReadLeases EXCEPT ![c] =
            (@ \ {r}) \cup (IF r.ttl < 0 THEN {}
                            ELSE {[r EXCEPT !.ttl = LeaseInterval]})]
    /\ UNCHANGED <<mWriteLeases, mapped, hosts, nonStable, changing, allocs,
                   deferred, nextId, metaUp, asked, dirty>>

\* ChunkLeases::Renew of a write lease by its owner.  Write permission or the
\* client's session may be gone, which expires the lease.
RenewWrite(c, denied) ==
    LET w == mWriteLeases[c] IN
    /\ metaUp
    /\ c \in mapped
    /\ w # NoLease
    /\ 0 <= w.ttl \/ w.allocInFlight
    /\ mWriteLeases' = [mWriteLeases EXCEPT ![c] =
            IF denied THEN Expire(w) ELSE RenewValid(w)]
    /\ UNCHANGED <<mReadLeases, mapped, hosts, nonStable, changing, allocs,
                   deferred, nextId, metaUp, asked, dirty>>

\* ChunkLeases::LeaseRelinquish of a read lease.
RelinquishRead(c) ==
    /\ metaUp
    /\ \E r \in mReadLeases[c] :
          mReadLeases' = [mReadLeases EXCEPT ![c] = @ \ {r}]
    /\ UNCHANGED <<mWriteLeases, mapped, hosts, nonStable, changing, allocs,
                   deferred, nextId, metaUp, asked, dirty>>

Relinquished(w) ==
    [Expire(w) EXCEPT !.relinquished = TRUE, !.server = NoServer]

\* Mutant: the lease is relinquished, and nothing makes the chunk stable.
RelinquishOnly(c, sizeKnown) ==
    /\ mWriteLeases' = [mWriteLeases EXCEPT ![c] = Relinquished(@)]
    /\ UNCHANGED <<nonStable, dirty>>

\* ChunkLeases::LeaseRelinquish of a write lease: the first request expires it,
\* and starts make chunk stable.
RelinquishWrite(c, sizeKnown) ==
    LET w == mWriteLeases[c] IN
    /\ mWriteLeases' = [mWriteLeases EXCEPT ![c] = Relinquished(w)]
    /\ IF w.relinquished THEN UNCHANGED <<nonStable, dirty>>
       ELSE MakeChunkStableInit(c, w.append, sizeKnown)

\* Mutant: a lease in flight is relinquished at once.
LeaseRelinquishAtOnce(c, sizeKnown) ==
    LET w == mWriteLeases[c] IN
    /\ metaUp
    /\ w # NoLease
    /\ asked' = IF c \in mapped THEN asked \cup {w.id} ELSE asked
    /\ IF c \in mapped THEN RelinquishWrite(c, sizeKnown)
       ELSE UNCHANGED <<mWriteLeases, nonStable, dirty>>
    /\ UNCHANGED <<mReadLeases, mapped, hosts, changing, deferred, nextId,
                   allocs, metaUp>>

\* A relinquish request of the owner: dropped when the chunk is not mapped,
\* put off while the allocation is in flight.
LeaseRelinquish(c, sizeKnown) ==
    LET w == mWriteLeases[c] IN
    /\ metaUp
    /\ w # NoLease
    /\ asked' = IF c \in mapped THEN asked \cup {w.id} ELSE asked
    /\ \/ /\ c \notin mapped
          /\ UNCHANGED <<mWriteLeases, nonStable, dirty, allocs>>
       \/ /\ c \in mapped
          /\ w.allocInFlight
          /\ allocs' = {IF a.chunk = c /\ a.id = w.id
                        THEN [a EXCEPT !.relinquish = TRUE] ELSE a : a \in allocs}
          /\ UNCHANGED <<mWriteLeases, nonStable, dirty>>
       \/ /\ c \in mapped
          /\ ~w.allocInFlight
          /\ RelinquishWrite(c, sizeKnown)
          /\ UNCHANGED allocs
    /\ UNCHANGED <<mReadLeases, mapped, hosts, changing, deferred, nextId,
                   metaUp>>

\* MetaAllocate::logOrLeaseRelinquishDone submits the request put off.
DeferredRelinquish(d, sizeKnown) ==
    LET w == mWriteLeases[d.chunk] IN
    /\ metaUp
    /\ deferred' = deferred \ {d}
    /\ IF /\ w # NoLease /\ w.id = d.id
          /\ d.chunk \in mapped
          /\ ~w.allocInFlight
       THEN RelinquishWrite(d.chunk, sizeKnown)
       ELSE UNCHANGED <<mWriteLeases, nonStable, dirty>>
    /\ UNCHANGED <<mReadLeases, mapped, hosts, changing, allocs, nextId,
                   metaUp, asked>>

\* LayoutManager::AllocateChunkForAppend: the append cache finds the chunk, and
\* its valid lease is renewed.
AllocateChunkForAppend(c) ==
    LET w == mWriteLeases[c] IN
    /\ metaUp
    /\ Valid(w)
    /\ w.append
    /\ mWriteLeases' = [mWriteLeases EXCEPT ![c] = RenewValid(w)]
    /\ UNCHANGED <<mReadLeases, mapped, hosts, nonStable, changing, allocs,
                   deferred, nextId, metaUp, asked, dirty>>

-----------------------------------------------------------------------------
(* Timers, failures, and the end of the protocols leases start. *)

\* LayoutManager::LeaseCleanup, ChunkLeases::Timer: every lease that is due.
LeaseCleanup ==
    LET due(c) == WriteCleanupDue(c, mWriteLeases[c], OwnerDownExpireDelay)
        init   == {c \in Chunks :
                     CleanupMakesStable(c, mWriteLeases[c], OwnerDownExpireDelay)}
    IN
    /\ metaUp
    /\ mReadLeases' = [c \in Chunks |-> ReadCleanup(c)]
    /\ mWriteLeases' = [c \in Chunks |->
            IF due(c) THEN NoLease ELSE mWriteLeases[c]]
    /\ nonStable' = nonStable \cup {c \in init :
            EntersNonStable(c, mWriteLeases[c].append, FALSE)}
    /\ dirty' = dirty \ (init \ nonStable)
    /\ UNCHANGED <<mapped, hosts, changing, allocs, deferred, nextId, metaUp,
                   asked>>

\* LayoutManager::ServerDown, ChunkLeases::ServerDown
ServerDown(s) ==
    /\ metaUp
    /\ hosts' = [c \in Chunks |-> hosts[c] \ {s}]
    /\ mWriteLeases' = [c \in Chunks |->
            ReplicaLost(c, mWriteLeases[c], s, TRUE)]
    /\ allocs' = {IF s \in a.servers THEN [a EXCEPT !.serverDown = TRUE]
                  ELSE a : a \in allocs}
    /\ UNCHANGED <<mReadLeases, mapped, nonStable, changing, deferred, nextId,
                   metaUp, asked, dirty>>

\* LayoutManager::ChunkCorrupt
ChunkCorrupt(c, s) ==
    /\ metaUp
    /\ c \in mapped
    /\ hosts' = [hosts EXCEPT ![c] = @ \ {s}]
    /\ mWriteLeases' = [mWriteLeases EXCEPT ![c] = ReplicaLost(c, @, s, FALSE)]
    /\ UNCHANGED <<mReadLeases, mapped, nonStable, changing, allocs, deferred,
                   nextId, metaUp, asked, dirty>>

\* LayoutManager::AddHosted: a replica (re)appears, by a hello, a chunks
\* available notice, or a finished replication.
AddHosted(c, s) ==
    /\ metaUp
    /\ c \in mapped
    /\ hosts' = [hosts EXCEPT ![c] = @ \cup {s}]
    /\ UNCHANGED <<mReadLeases, mWriteLeases, mapped, nonStable, changing,
                   allocs, deferred, nextId, metaUp, asked, dirty>>

\* LayoutManager::DeleteChunk(CSMap::Entry&): remove or truncate of the file.
DeleteChunk(c) ==
    /\ metaUp
    /\ c \in mapped
    /\ mapped' = mapped \ {c}
    /\ hosts' = [hosts EXCEPT ![c] = {}]
    /\ mReadLeases' = [mReadLeases EXCEPT ![c] = {}]
    /\ mWriteLeases' = [mWriteLeases EXCEPT ![c] = NoLease]
    /\ dirty' = dirty \ {c}
    /\ UNCHANGED <<nonStable, changing, allocs, deferred, nextId, metaUp, asked>>

\* LayoutManager::InvalidateAllChunkReplicas: striped files only.
InvalidateAllChunkReplicas(c) ==
    /\ metaUp
    /\ c \in mapped
    /\ c \in Striped
    /\ hosts' = [hosts EXCEPT ![c] = {}]
    /\ mReadLeases' = [mReadLeases EXCEPT ![c] = {}]
    /\ mWriteLeases' = [mWriteLeases EXCEPT ![c] = NoLease]
    /\ dirty' = dirty \ {c}
    /\ UNCHANGED <<mapped, nonStable, changing, allocs, deferred, nextId,
                   metaUp, asked>>

\* The make stable protocol ends (DeleteNonStableEntry); when all servers have
\* acknowledged, MakeChunkStableDone() runs ExpiredLeaseCleanup() first.
MakeChunkStableDone(c, allAcks) ==
    /\ metaUp
    /\ c \in nonStable
    /\ nonStable' = nonStable \ {c}
    /\ mWriteLeases' = [mWriteLeases EXCEPT ![c] =
            IF allAcks /\ WriteCleanupDue(c, @, 0) THEN NoLease ELSE @]
    /\ UNCHANGED <<mReadLeases, mapped, hosts, changing, allocs, deferred,
                   nextId, metaUp, asked, dirty>>

\* The version change RPCs of a roll back end.
ChunkVersChangeDone(c) ==
    /\ metaUp
    /\ c \in changing
    /\ changing' = changing \ {c}
    /\ UNCHANGED <<mReadLeases, mWriteLeases, mapped, hosts, nonStable, allocs,
                   deferred, nextId, metaUp, asked, dirty>>

Later(ttl) == IF ttl = Forever \/ ttl = LongExpired THEN ttl ELSE ttl - 1

\* TimeNow() advances.
Tick ==
    /\ mReadLeases' = [c \in Chunks |->
            {[r EXCEPT !.ttl = Later(@)] : r \in mReadLeases[c]}]
    /\ mWriteLeases' = [c \in Chunks |->
            IF mWriteLeases[c] = NoLease THEN NoLease
            ELSE [mWriteLeases[c] EXCEPT !.ttl = Later(@)]]
    /\ UNCHANGED <<mapped, hosts, nonStable, changing, allocs, deferred, nextId,
                   metaUp, asked, dirty>>
-----------------------------------------------------------------------------

AllocDone ==
    \E a \in allocs : \/ AllocSucceeds(a)
                      \/ AllocFails(a)
                      \/ AllocStale(a)
                      \/ AssignChunkIdFails(a)

HandleDeferred == \E d \in deferred, sizeKnown \in BOOLEAN :
                      DeferredRelinquish(d, sizeKnown)

StableDone(c) == \E allAcks \in BOOLEAN : MakeChunkStableDone(c, allAcks)

Next ==
    \/ AllocDone
    \/ HandleDeferred
    \/ LeaseCleanup
    \/ Tick
    \/ \E s \in Servers : ServerDown(s)
    \/ \E c \in Chunks :
        \/ \E srvs \in SUBSET Servers, append \in BOOLEAN :
              AllocateChunk(c, srvs, append)
        \/ WriteLeaseDenied(c)
        \/ WriteLeaseCleanup(c)
        \/ GetChunkWriteLease(c)
        \/ WriteLeaseNoSpace(c)
        \/ \E id \in ReadIds, timeout \in 1..LeaseInterval :
              GetChunkReadLease(c, id, timeout)
        \/ FlushWriteLease(c)
        \/ RenewRead(c)
        \/ \E denied \in BOOLEAN : RenewWrite(c, denied)
        \/ RelinquishRead(c)
        \/ \E sizeKnown \in BOOLEAN : LeaseRelinquish(c, sizeKnown)
        \/ AllocateChunkForAppend(c)
        \/ \E s \in Servers : ChunkCorrupt(c, s)
        \/ \E s \in Servers : AddHosted(c, s)
        \/ DeleteChunk(c)
        \/ InvalidateAllChunkReplicas(c)
        \/ StableDone(c)
        \/ ChunkVersChangeDone(c)

Spec == Init /\ [][Next]_vars

\* Time passes, the lease timer runs, every RPC ends (with a reply, a time out
\* or the loss of the connection), and the submitted requests are handled.
Fairness ==
    /\ WF_vars(Tick)
    /\ WF_vars(LeaseCleanup)
    /\ WF_vars(AllocDone)
    /\ WF_vars(HandleDeferred)
    /\ \A c \in Chunks : WF_vars(StableDone(c))
    /\ \A c \in Chunks : WF_vars(ChunkVersChangeDone(c))

FairSpec == Spec /\ Fairness

-----------------------------------------------------------------------------
(* Properties. *)

\* A chunk never has read leases and a write lease at the same time: what the
\* assertions in ExpiredCleanup, LeaseRelinquish, NewReadLease, NewWriteLease
\* and Renew state, through every order of allocation, renewal, and cleanup.
ReadWriteExclusive ==
    \A c \in Chunks : mReadLeases[c] = {} \/ mWriteLeases[c] = NoLease

\* A write lease marked as in flight belongs to exactly one allocation request
\* in flight, and a lease that was handed out belongs to none: Validate() can
\* not take one allocation for another.
AllocationOwnsLease ==
    \A c \in Chunks : LET w == mWriteLeases[c] IN
        w # NoLease =>
            (w.allocInFlight <=> \E a \in allocs : a.chunk = c /\ a.id = w.id)

\* A chunk opened for write keeps a write lease that was not relinquished until
\* make chunk stable has taken it over (or a roll back, or its replicas are
\* discarded), so that some later step makes its replicas stable.  A lack of
\* space breaks it, see WriteLeaseNoSpace.
DirtyHasLease ==
    \A c \in dirty \ Crowded :
        mWriteLeases[c] # NoLease /\ ~mWriteLeases[c].relinquished

\* "Even if there is no write lease, wait until the chunk is stable before the
\* client can read the data": a read lease is issued only on a chunk that is
\* not open for write.  It holds of the chunks GetChunkWriteLease never refuses
\* for lack of space.
ReadersSeeStable ==
    \A c \in Chunks \ Crowded : mReadLeases[c] # {} => c \notin dirty

\* Make chunk stable never runs while a lease that was not relinquished exists:
\* no writer may be appending while the replicas are being frozen.
NoWriterWhileMakingStable ==
    \A c \in nonStable \cap mapped :
        mWriteLeases[c] # NoLease => mWriteLeases[c].relinquished

\* The inductive invariant behind the properties above.  Lease ids are not
\* reused; a lease in flight was not relinquished and its chunk is not being
\* made stable; a deleted chunk has no readers and is not open for write.
LeaseInv ==
    /\ ReadWriteExclusive
    /\ AllocationOwnsLease
    /\ NoWriterWhileMakingStable
    /\ DirtyHasLease
    /\ \A a \in allocs : a.id < nextId
    /\ \A a, b \in allocs : a.id = b.id => a = b
    /\ \A c \in Chunks : mWriteLeases[c] # NoLease => mWriteLeases[c].id < nextId
    /\ \A c \in Chunks :
          mWriteLeases[c] # NoLease /\ mWriteLeases[c].allocInFlight
            => ~mWriteLeases[c].relinquished /\ c \notin nonStable
    /\ \A c \in Chunks \ mapped : mReadLeases[c] = {} /\ c \notin dirty

\* "If relinquish comes in before alloc completes, then run completion when /
\* if allocation finishes successfully": a request that was not refused is not
\* lost, before the allocation is done, while it is logged, or after.  For as
\* long as the lease exists it has been relinquished, or the request is held by
\* the allocation in flight, or it has been submitted and not handled yet.
RelinquishNotLost ==
    \A c \in Chunks : LET w == mWriteLeases[c] IN
        w # NoLease /\ w.id \in asked =>
            \/ w.relinquished
            \/ \E a \in allocs : a.chunk = c /\ a.id = w.id /\ a.relinquish
            \/ [chunk |-> c, id |-> w.id] \in deferred

\* Nothing but the deletion of the chunk, the invalidation of its replicas, an
\* allocation, or the flush of an append lease for a reader, which freezes the
\* chunk, takes away a valid lease that was handed out: the timer and the
\* cleanups only take expired ones.  (Of an append lease it says less: its chunk
\* is being made stable, whoever took it.)
ValidLeaseKept ==
    [][\A c \in Chunks : LET w == mWriteLeases[c] IN
         (Valid(w) /\ ~w.allocInFlight /\ mWriteLeases'[c] = NoLease) =>
            \/ c \notin mapped'
            \/ c \in Striped /\ hosts'[c] = {}
            \/ w.append /\ c \in nonStable'
            \/ c \in Crowded /\ ~w.append]_vars

\* A lease whose owner is gone, or has asked to relinquish it, does not linger:
\* unless its chunk is striped (the code keeps renewing it), the timer removes
\* it, and the chunk becomes available again.
OrphanedLeaseGoesAway ==
    \A c \in Chunks :
        (mWriteLeases[c] # NoLease /\ mWriteLeases[c].server = NoServer
            /\ c \notin Striped /\ metaUp)
        ~> (mWriteLeases[c] = NoLease \/ mWriteLeases[c].server # NoServer
                \/ ~metaUp)
=============================================================================
