----------------------------- MODULE MakeStable -----------------------------
(***************************************************************************)
(* The "make chunk stable" protocol of the meta server, for one chunk that *)
(* was allocated for record append (meta/LayoutManager.cc), together with  *)
(* what the log, the checkpoint and the replay keep of it, and with the    *)
(* chunk servers as the meta server sees them: a replica, the requests     *)
(* queued on a connection, and the answers.                                *)
(*                                                                         *)
(* The meta server is one thread.  A handler is therefore one action, and  *)
(* because a request to a server that is down fails inside the call that   *)
(* queues it, handlers call each other: they are written as functions from *)
(* the meta server's state m to its next state.  The log write is a part   *)
(* of the handler that requests it (Logger::dispatch is synchronous), so   *)
(* the "L" phase of an entry is never seen by another handler, and neither *)
(* is serverAddedFlag, which is cleared before the log write.              *)
(***************************************************************************)
EXTENDS Integers, Sequences, FiniteSets, SequencesExt, Functions

CONSTANTS
    Servers,        \* chunk servers of the replication chain
    Sizes,          \* sizes a replica may have reached
    MaxFaults,      \* bound: connections broken and meta server restarts
    MaxLosses,      \* bound: replicas lost, by an I/O error or a restart
    MaxChanges      \* bound: changes of the file's replication

ASSUME SizesAssumption == Sizes # {} /\ Sizes \subseteq Nat
ASSUME BoundsAssumption == {MaxFaults, MaxLosses, MaxChanges} \subseteq Nat

VARIABLES
    meta,           \* the meta server, a record, see below
    rep,            \* rep[s]: the replica of s
    late,           \* late[s]: requests of a broken connection s still runs
    ans,            \* ans[s]: answers under way to the meta server
    faults, losses, changes     \* how many of each have happened

vars == <<meta, rep, late, ans, faults, losses, changes>>

-----------------------------------------------------------------------------
(* Data *)

\* mSize of a pending make stable entry: no entry, and "size not known".
NoInfo  == -2
Unknown == -1

NoReplica    == [kind |-> "none", size |-> 0]
NotStable(n) == [kind |-> "notStable", size |-> n]
Stable(n)    == [kind |-> "stable", size |-> n]

\* Requests the meta server sends.
BMCS         == [op |-> "BMCS", size |-> Unknown, addPending |-> FALSE]
MCS(n, p)    == [op |-> "MCS", size |-> n, addPending |-> p]
StaleNotice  == [op |-> "STALE", size |-> Unknown, addPending |-> FALSE]
\* A notice of the chunk server, and an answer to a request.
LostNotice   == [op |-> "LOST", size |-> Unknown, addPending |-> FALSE]
Answer(o, k, n) == [req |-> o, ok |-> k, size |-> n]

\* An entry of mNonStableChunks: "B" begin make stable, "M" make stable.
NoEntry == [phase |-> "none", size |-> Unknown, numServers |-> 0,
            numAckMsg |-> 0, updateMTime |-> FALSE]

Request == [op : {"BMCS", "MCS", "STALE"}, size : Sizes \cup {Unknown},
            addPending : BOOLEAN]
Replica == {NoReplica} \cup {NotStable(n) : n \in Sizes} \cup {Stable(n) : n \in Sizes}
PendingInfo == Sizes \cup {Unknown, NoInfo}
MakeStableInfo == [phase : {"none", "B", "M"}, size : Sizes \cup {Unknown},
                   numServers : Nat, numAckMsg : Nat, updateMTime : BOOLEAN]
LogRecords == [exists : BOOLEAN, pms : PendingInfo, decided : SUBSET Sizes]

\* The meta server's state is a record:
\*   exists    the chunk is mapped           lease   its write lease
\*   nrep      fa->numReplicas               conn    mChunkServers
\*   hosts     the servers of the chunk      down    the server going down
\*   ns        its mNonStableChunks entry    pms     its mPendingMakeStable
\*   pbms      in mPendingBeginMakeStable    recovery  InRecoveryPeriod()
\*   req       requests queued per server    log     checkpoint and log; of
\*             decided are all the sizes ever logged.

-----------------------------------------------------------------------------
(* Handlers of the meta server *)

SendAll(m, S, r) ==
    [m EXCEPT !.req = [s \in Servers |->
        IF s \in S THEN Append(m.req[s], r) ELSE m.req[s]]]

\* LayoutManager::ChunkCorrupt(chunkId, server, notifyStale)
ChunkCorrupt(m, s, notifyStale) ==
    IF ~m.exists THEN m
    ELSE LET m1 == [m EXCEPT !.hosts = @ \ {s}]
         IN  IF notifyStale /\ s \notin m.down
             THEN SendAll(m1, {s}, StaleNotice) ELSE m1

\* Mutant: pending information dropped with make stable in progress.
CancelInProgress(m) ==
    IF m.pms = NoInfo THEN m
    ELSE [m EXCEPT !.pms = NoInfo, !.pbms = FALSE,
                   !.log.pms = IF m.pms < 0 THEN @ ELSE NoInfo]

\* LayoutManager::CancelPendingMakeStable: "mkstabledone" is logged only for
\* an entry whose size is known.
CancelPendingMakeStable(m) ==
    IF m.pms = NoInfo \/ m.ns.phase # "none" THEN m
    ELSE [m EXCEPT !.pms = NoInfo, !.pbms = FALSE,
                   !.log.pms = IF m.pms < 0 THEN @ ELSE NoInfo]

\* The tail of MakeChunkStableDone: enough servers, nothing left to remember.
\* check is "the replication state is not kStateCheckReplication".
ReplicasCounted(m, updateMTime, check) ==
    IF (updateMTime \/ check) /\ Cardinality(m.hosts \ m.down) = m.nrep
    THEN CancelPendingMakeStable(m) ELSE m

\* MakeChunkStableDone, the request was started by AddNotStableChunk.
AddPendingDone(m, s, r, ok, check) ==
    LET infoChanged == m.ns.phase # "none" \/ m.pms # r.size
    IN  IF s \in m.down \/ ~ok THEN m
        ELSE IF ~m.exists THEN SendAll(m, {s}, StaleNotice)
        ELSE IF s \in m.hosts THEN m
        ELSE IF m.lease = "held" THEN SendAll(m, {s}, StaleNotice)
        ELSE LET m1 == [m EXCEPT !.hosts = @ \cup {s}]
             IN  IF infoChanged THEN m1
                 ELSE ReplicasCounted(m1, FALSE, check)

\* MakeChunkStableDone, the request counts for the entry in progress.
\* expired: the clock has passed a relinquished lease's expiration, so that
\* ExpiredLeaseCleanup erases it.
EntryDone(m, s, ok, check, expired) ==
    LET m1 == IF ~ok /\ s \notin m.down THEN ChunkCorrupt(m, s, TRUE) ELSE m
        m2 == [m1 EXCEPT !.ns.numAckMsg = @ + 1]
        m3 == [m2 EXCEPT !.ns = NoEntry,
                         !.lease = IF expired THEN "none" ELSE @]
    IN  IF m.ns.phase # "M" THEN m
        ELSE IF m2.ns.numAckMsg < m2.ns.numServers THEN m2
        ELSE IF ~m3.exists THEN m3
        ELSE ReplicasCounted(m3, m.ns.updateMTime, check)

MakeChunkStableDone(m, s, r, ok, check, expired) ==
    IF r.addPending THEN AddPendingDone(m, s, r, ok, check)
    ELSE EntryDone(m, s, ok, check, expired)

\* MetaLogMakeChunkStable written to the log, then LogMakeChunkStableDone:
\* make stable goes to every server; the one going down fails at once.
LogMakeChunkStable(m, size, check) ==
    LET m1 == [m EXCEPT !.log.pms = size, !.log.decided = @ \cup {size}]
        m2 == SendAll([m1 EXCEPT !.ns.phase = "M", !.ns.size = size,
                                 !.ns.numServers = Cardinality(m.hosts),
                                 !.ns.numAckMsg = 0],
                      m.hosts \ m.down, MCS(size, FALSE))
    IN  IF ~m.exists THEN [m1 EXCEPT !.pms = NoInfo, !.ns = NoEntry]
        ELSE IF m.hosts = {} THEN [m1 EXCEPT !.ns = NoEntry]
        ELSE IF m.hosts \cap m.down = {} THEN m2
        ELSE EntryDone(m2, CHOOSE s \in m.down : TRUE, FALSE, check, FALSE)

\* LayoutManager::BeginMakeChunkStableDone: keep the smallest good size, and
\* with the last answer write the decision.
BeginMakeChunkStableDone(m, s, ok, size, check) ==
    LET m1 == IF ok
              THEN [m EXCEPT !.ns.size =
                        IF size < @ \/ @ < 0 THEN size ELSE @]
              ELSE IF s \in m.hosts \ m.down THEN ChunkCorrupt(m, s, TRUE)
              ELSE m
        m2 == [m1 EXCEPT !.ns.numAckMsg = @ + 1]
        m3 == [m2 EXCEPT !.pms = IF @ = NoInfo \/ m2.ns.size >= 0
                                 THEN m2.ns.size ELSE @]
    IN  IF m.ns.phase # "B" THEN m
        ELSE IF m2.ns.numAckMsg < m2.ns.numServers THEN m2
        ELSE IF ~m2.exists THEN [m2 EXCEPT !.ns = NoEntry, !.pms = NoInfo]
        ELSE IF m3.pms < 0 THEN [m3 EXCEPT !.ns = NoEntry]
        ELSE LogMakeChunkStable(m3, m2.ns.size, check)

\* LayoutManager::MakeChunkStableInit, for an append chunk.
MakeChunkStableInit(m, begin, size, leaseRelinquish, check) ==
    LET entry == [NoEntry EXCEPT !.phase = "B",
                    !.numServers = Cardinality(m.hosts),
                    !.updateMTime = leaseRelinquish /\ m.hosts # {}]
        m1 == [m EXCEPT !.ns = entry]
    IN  IF m.hosts = {} /\ begin
        THEN [m EXCEPT !.pms = IF @ = NoInfo THEN Unknown ELSE @]
        ELSE IF m.ns.phase # "none" THEN m
        ELSE IF begin THEN SendAll(m1, m.hosts, BMCS)
        ELSE LogMakeChunkStable([m1 EXCEPT !.pms = size], size, check)

\* Mutant: the server joins, and its answer is not expected.
AddServerNotCounted(m, s) ==
    SendAll([m EXCEPT !.hosts = @ \cup {s}], {s},
            IF m.ns.phase = "B" THEN BMCS ELSE MCS(m.ns.size, FALSE))

\* LayoutManager::AddServerToMakeStable, with an entry in progress.
AddServerToMakeStable(m, s) ==
    SendAll([m EXCEPT !.hosts = @ \cup {s}, !.ns.numServers = @ + 1], {s},
            IF m.ns.phase = "B" THEN BMCS ELSE MCS(m.ns.size, FALSE))

\* Mutant: a replica no lease is known for is taken as stale.
StaleWithoutLease(m, s, check) ==
    IF m.exists /\ m.ns.phase # "none" THEN AddServerToMakeStable(m, s)
    ELSE IF m.exists /\ m.lease = "held" THEN [m EXCEPT !.hosts = @ \cup {s}]
    ELSE SendAll(m, {s}, StaleNotice)

\* LayoutManager::AddNotStableChunk, for an append replica.
AddNotStableChunk(m, s, check) ==
    LET added == [m EXCEPT !.hosts = @ \cup {s}]
        stale(mm) == SendAll(mm, {s}, StaleNotice)
    IN  IF ~m.exists THEN stale(m)
        ELSE IF m.ns.phase # "none" THEN AddServerToMakeStable(m, s)
        ELSE IF m.nrep <= Cardinality(m.hosts)
             THEN stale(CancelPendingMakeStable(m))
        ELSE IF m.lease = "held" THEN added
        ELSE IF m.pms = NoInfo THEN stale(m)
        ELSE IF m.pms >= 0 THEN SendAll(m, {s}, MCS(m.pms, TRUE))
        ELSE IF m.recovery \/ m.pbms THEN [added EXCEPT !.pbms = TRUE]
        ELSE MakeChunkStableInit(added, TRUE, Unknown, FALSE, check)

\* AddNewServer for a stable replica: AddServer.
AddServer(m, s) ==
    LET m1 == [m EXCEPT !.hosts = @ \cup {s}]
    IN  IF ~m.exists THEN SendAll(m, {s}, StaleNotice)
        ELSE IF m.nrep <= Cardinality(m1.hosts)
             THEN CancelPendingMakeStable(m1) ELSE m1

\* A dispatched request completes: MetaChunkRequest::handle.
RequestDone(m, s, r, ok, size, check, expired) ==
    CASE r.op = "BMCS"  -> BeginMakeChunkStableDone(m, s, ok, size, check)
      [] r.op = "MCS"   -> MakeChunkStableDone(m, s, r, ok, check, expired)
      [] r.op = "LOST"  -> ChunkCorrupt(m, s, FALSE)
      [] r.op = "STALE" -> m

\* ChunkServer::Error: FailDispatchedOps in the order the requests were
\* queued, then LayoutManager::ServerDown.
Outstanding(s) ==
    SelectSeq([i \in 1..Len(ans[s]) |-> ans[s][i].req],
              LAMBDA r : r.op # "LOST") \o meta.req[s]

ServerDown(s, check) ==
    LET m1 == FoldLeft(LAMBDA m, r :
                         RequestDone(m, s, r, FALSE, Unknown, check, FALSE),
                       [meta EXCEPT !.down = {s}], Outstanding(s))
    IN  [m1 EXCEPT !.down = {}, !.conn = @ \ {s}, !.hosts = @ \ {s},
                   !.req[s] = <<>>]

-----------------------------------------------------------------------------
(* Leases and other requests *)

\* ChunkLeases::ExpiredCleanup of a write lease.
LeaseExpired ==
    \E check \in BOOLEAN :
        /\ meta.exists
        /\ meta.lease # "none"
        /\ meta' = LET m == [meta EXCEPT !.lease = "none"]
                   IN  IF meta.lease = "relinquished" THEN m
                       ELSE MakeChunkStableInit(m, TRUE, Unknown, TRUE, check)
        /\ UNCHANGED <<rep, late, ans, faults, losses, changes>>

\* ChunkLeases::LeaseRelinquish.  The master gives the size up to which every
\* replica has the data, or none.
LeaseRelinquish(size) ==
    \E check \in BOOLEAN :
        /\ meta.exists
        /\ meta.lease = "held"
        /\ meta.hosts # {}
        /\ \A s \in Servers : rep[s].kind = "notStable" => size <= rep[s].size
        /\ meta' = MakeChunkStableInit([meta EXCEPT !.lease = "relinquished"],
                                       size < 0, size, TRUE, check)
        /\ UNCHANGED <<rep, late, ans, faults, losses, changes>>

\* The file is removed: LayoutManager::DeleteChunk.  An entry in progress
\* stays until its answers are in.
DeleteChunk ==
    /\ meta.exists
    /\ meta' = [SendAll(meta, meta.hosts, StaleNotice) EXCEPT
                   !.exists = FALSE, !.log.exists = FALSE, !.hosts = {},
                   !.pms = NoInfo, !.pbms = FALSE, !.lease = "none"]
    /\ UNCHANGED <<rep, late, ans, faults, losses, changes>>

\* MetaChangeFileReplication
ChangeFileReplication(n) ==
    /\ changes < MaxChanges
    /\ n # meta.nrep
    /\ meta' = [meta EXCEPT !.nrep = n]
    /\ changes' = changes + 1
    /\ UNCHANGED <<rep, late, ans, faults, losses>>

\* The recovery period after a restart is over.
RecoveryEnds ==
    /\ meta.recovery
    /\ meta' = [meta EXCEPT !.recovery = FALSE]
    /\ UNCHANGED <<rep, late, ans, faults, losses, changes>>

\* No request that HandoutChunkReplicationWork waits for is in flight.
NoMakeStableInFlight ==
    \A s \in Servers : \A i \in 1..Len(Outstanding(s)) :
        Outstanding(s)[i].op # "MCS"

\* Mutant: the pending list is cleared before the recovery period ends.
PendingBeginForgotten(m, check) == [m EXCEPT !.pbms = FALSE]

\* The entries held back during the recovery period, when it has ended.
ProcessPendingBeginMakeStable(m, check) ==
    IF m.pbms /\ ~m.recovery
    THEN MakeChunkStableInit([m EXCEPT !.pbms = FALSE], TRUE, Unknown, FALSE, check)
    ELSE m

\* CanReplicateChunkNow and HandoutChunkReplicationWork: nothing is going on
\* with the chunk, and it has its number of replicas.
SufficientReplicas(m) ==
    /\ m.exists /\ m.lease = "none" /\ m.ns.phase = "none" /\ ~m.recovery
    /\ m.nrep <= Cardinality(m.hosts)

\* ChunkReplicationChecker: ProcessPendingBeginMakeStable, then, when the scan
\* of HandoutChunkReplicationWork gets to this chunk and it has its replicas,
\* DeleteAddlChunkReplicas and CancelPendingMakeStable.
ChunkReplicationChecker ==
    \E check \in BOOLEAN :
      LET m == ProcessPendingBeginMakeStable(meta, check)
      IN  /\ \/ meta' = m
             \/ /\ SufficientReplicas(m) /\ NoMakeStableInFlight
                /\ \E extra \in SUBSET m.hosts :
                     /\ Cardinality(extra) = Cardinality(m.hosts) - m.nrep
                     /\ meta' = CancelPendingMakeStable(
                                   SendAll([m EXCEPT !.hosts = @ \ extra],
                                           extra, StaleNotice))
          /\ UNCHANGED <<rep, late, ans, faults, losses, changes>>

\* A checkpoint holds the pending make stable entries of the moment.
Checkpoint ==
    /\ meta' = [meta EXCEPT !.log.pms = IF meta.exists THEN meta.pms ELSE @]
    /\ UNCHANGED <<rep, late, ans, faults, losses, changes>>

-----------------------------------------------------------------------------
(* Connections *)

\* A chunk server's answer or notice arrives.
ReplyArrives(s) ==
    \E check, expired \in BOOLEAN :
        /\ ans[s] # <<>>
        /\ LET a == Head(ans[s]) IN
           meta' = RequestDone(meta, s, a.req, a.ok, a.size, check, expired)
        /\ ans' = [ans EXCEPT ![s] = Tail(@)]
        /\ UNCHANGED <<rep, late, faults, losses, changes>>

\* MetaHello: AddNewServer with the server's one replica.
Hello(s) ==
    \E check \in BOOLEAN :
        /\ s \notin meta.conn
        /\ meta' = LET m == [meta EXCEPT !.conn = @ \cup {s}]
                   IN  CASE rep[s].kind = "none"   -> m
                         [] rep[s].kind = "stable" -> AddServer(m, s)
                         [] OTHER -> AddNotStableChunk(m, s, check)
        /\ UNCHANGED <<rep, late, ans, faults, losses, changes>>

\* The connection breaks: the server still runs the first n requests that had
\* reached it, the meta server takes the others as failed as well.
Disconnect(s, n) ==
    \E check \in BOOLEAN :
        /\ faults < MaxFaults
        /\ s \in meta.conn
        /\ n <= Len(meta.req[s])
        /\ meta' = ServerDown(s, check)
        /\ late' = [late EXCEPT ![s] = @ \o SubSeq(meta.req[s], 1, n)]
        /\ ans' = [ans EXCEPT ![s] = <<>>]
        /\ faults' = faults + 1
        /\ UNCHANGED <<rep, losses, changes>>

\* Mutant: replay restores the allocation, not the decision.
MetaRestartForgets(n) ==
    /\ faults < MaxFaults
    /\ meta' = [meta EXCEPT
                  !.exists = meta.log.exists,
                  !.pms = IF meta.log.exists THEN Unknown ELSE NoInfo,
                  !.lease = "none", !.conn = {}, !.hosts = {}, !.ns = NoEntry,
                  !.pbms = FALSE, !.recovery = TRUE,
                  !.req = [s \in Servers |-> <<>>]]
    /\ late' = [s \in Servers |-> <<>>]
    /\ ans' = [s \in Servers |-> <<>>]
    /\ faults' = faults + 1
    /\ UNCHANGED <<rep, losses, changes>>

\* The meta server stops and restarts: the checkpoint and the log are
\* replayed (ReplayPendingMakeStable); nothing else survives.
MetaRestart(n) ==
    /\ faults < MaxFaults
    /\ meta' = [meta EXCEPT
                  !.exists = meta.log.exists,
                  !.pms = IF meta.log.exists THEN meta.log.pms ELSE NoInfo,
                  !.lease = "none", !.conn = {}, !.hosts = {}, !.ns = NoEntry,
                  !.pbms = FALSE, !.recovery = TRUE,
                  !.req = [s \in Servers |-> <<>>]]
    /\ late' = [s \in Servers |-> late[s] \o
                  SubSeq(meta.req[s], 1, IF n <= Len(meta.req[s]) THEN n ELSE 0)]
    /\ ans' = [s \in Servers |-> <<>>]
    /\ faults' = faults + 1
    /\ UNCHANGED <<rep, losses, changes>>

-----------------------------------------------------------------------------
(* Chunk servers *)

\* What a request does to a replica, and its answer.  A replica that is
\* shorter than the size to make stable is lost.
Executed(r, old) ==
    CASE r.op = "BMCS" -> old
      [] r.op = "STALE" -> NoReplica
      [] r.op = "MCS" /\ old.kind = "notStable" ->
            IF old.size < r.size THEN NoReplica ELSE Stable(r.size)
      [] OTHER -> old

Succeeds(r, old) ==
    CASE r.op = "BMCS"  -> old.kind = "notStable"
      [] r.op = "MCS"   -> \/ old.kind = "notStable" /\ old.size >= r.size
                           \/ old.kind = "stable" /\ old.size = r.size
      [] r.op = "STALE" -> TRUE

\* A request of a broken connection is run; its answer goes nowhere.
RunLate(s) ==
    /\ late[s] # <<>>
    /\ rep' = [rep EXCEPT ![s] = Executed(Head(late[s]), @)]
    /\ late' = [late EXCEPT ![s] = Tail(@)]
    /\ UNCHANGED <<meta, ans, faults, losses, changes>>

Run(s) ==
    /\ meta.req[s] # <<>>
    /\ late[s] = <<>>
    /\ LET r == Head(meta.req[s]) IN
       /\ rep' = [rep EXCEPT ![s] = Executed(r, @)]
       /\ ans' = [ans EXCEPT ![s] =
                    Append(@, Answer(r, Succeeds(r, rep[s]), rep[s].size))]
    /\ meta' = [meta EXCEPT !.req[s] = Tail(@)]
    /\ UNCHANGED <<late, faults, losses, changes>>

\* An I/O error: the replica is gone, and the meta server is told.
LoseReplica(s) ==
    /\ losses < MaxLosses
    /\ rep[s] # NoReplica
    /\ rep' = [rep EXCEPT ![s] = NoReplica]
    /\ ans' = IF s \in meta.conn
              THEN [ans EXCEPT ![s] = Append(@, Answer(LostNotice, TRUE, 0))]
              ELSE ans
    /\ losses' = losses + 1
    /\ UNCHANGED <<meta, late, faults, changes>>

\* A chunk server restart discards what is not stable.
ServerRestart(s) ==
    /\ losses < MaxLosses
    /\ s \notin meta.conn
    /\ rep' = [rep EXCEPT ![s] = IF @.kind = "stable" THEN @ ELSE NoReplica]
    /\ late' = [late EXCEPT ![s] = <<>>]
    /\ losses' = losses + 1
    /\ UNCHANGED <<meta, ans, faults, changes>>

-----------------------------------------------------------------------------
\* The chunk has been allocated for append on all the servers: the allocation
\* is logged, and log replay makes it a pending entry without a size.
Init ==
    /\ rep \in [Servers -> {NotStable(n) : n \in Sizes}]
    /\ meta = [exists |-> TRUE, lease |-> "held",
               nrep |-> Cardinality(Servers), conn |-> Servers,
               hosts |-> Servers, down |-> {}, ns |-> NoEntry,
               pms |-> Unknown, pbms |-> FALSE, recovery |-> FALSE,
               req |-> [s \in Servers |-> <<>>],
               log |-> [exists |-> TRUE, pms |-> Unknown, decided |-> {}]]
    /\ late = [s \in Servers |-> <<>>]
    /\ ans = [s \in Servers |-> <<>>]
    /\ faults = 0 /\ losses = 0 /\ changes = 0

Next ==
    \/ LeaseExpired
    \/ \E size \in Sizes \cup {Unknown} : LeaseRelinquish(size)
    \/ DeleteChunk
    \/ \E n \in 1..Cardinality(Servers) : ChangeFileReplication(n)
    \/ RecoveryEnds
    \/ ChunkReplicationChecker
    \/ Checkpoint
    \/ \E n \in 0..1 : MetaRestart(n)
    \/ \E s \in Servers :
          \/ ReplyArrives(s) \/ Hello(s)
          \/ \E n \in 0..2 : Disconnect(s, n)
          \/ RunLate(s) \/ Run(s) \/ LoseReplica(s) \/ ServerRestart(s)

Spec == Init /\ [][Next]_vars

\* Chunk servers reconnect, requests and answers are not lost on a connection
\* that stays up, leases expire, and the timers of the meta server run.
FairSpec ==
    /\ Spec
    /\ WF_vars(LeaseExpired) /\ WF_vars(RecoveryEnds)
    /\ WF_vars(ChunkReplicationChecker)
    /\ \A s \in Servers :
         /\ WF_vars(ReplyArrives(s)) /\ WF_vars(Hello(s))
         /\ WF_vars(RunLate(s)) /\ WF_vars(Run(s))

-----------------------------------------------------------------------------
(* Properties *)

\* The variables have their types.
TypeOK ==
    /\ meta \in [exists : BOOLEAN, lease : {"held", "relinquished", "none"},
                 nrep : 1..Cardinality(Servers), conn : SUBSET Servers,
                 hosts : SUBSET Servers, down : {{}}, ns : MakeStableInfo,
                 pms : PendingInfo, pbms : BOOLEAN, recovery : BOOLEAN,
                 req : [Servers -> Seq(Request)], log : LogRecords]
    /\ rep \in [Servers -> Replica]
    /\ late \in [Servers -> Seq(Request)]
    /\ faults \in 0..MaxFaults /\ losses \in 0..MaxLosses
    /\ changes \in 0..MaxChanges
    /\ meta.hosts \subseteq meta.conn

\* All stable replicas are identical, and are what the log says: whatever
\* breaks, a make stable request never carries a size that was not written to
\* the log, and no second size is ever written (the comment at
\* MakeChunkStableInit: "This guarantees that the decision is final").  Begin
\* make stable, which asks for sizes, is never sent to a stable replica, and
\* while it runs no size is known (the assertion in BeginMakeChunkStableDone).
StableReplicasAgree ==
    /\ Cardinality(meta.log.decided) <= 1
    /\ meta.ns.phase = "B" => meta.pms < 0
    /\ \A s \in Servers :
         /\ rep[s].kind = "stable" => rep[s].size \in meta.log.decided
         /\ \A i \in 1..Len(meta.req[s]) :
              /\ meta.req[s][i].op = "MCS" => meta.req[s][i].size \in meta.log.decided
              /\ meta.req[s][i].op = "BMCS" => rep[s].kind # "stable"

\* Every answer an entry of mNonStableChunks still waits for is under way:
\* no request is counted twice or not at all when servers come and go, so
\* that the entry is always removed in the end.  While begin make stable has no
\* good answer, each server of the chunk still owes one: the branch of
\* BeginMakeChunkStableDone marked "Shouldn't get here" (servers up, and no
\* size) is not reached.
AnswersAccounted ==
    LET want == IF meta.ns.phase = "B" THEN "BMCS" ELSE "MCS"
        waiting(s) == Cardinality({i \in 1..Len(Outstanding(s)) :
            /\ Outstanding(s)[i].op = want
            /\ ~Outstanding(s)[i].addPending})
    IN  /\ TypeOK
        /\ meta.ns.phase # "none" =>
            /\ meta.ns.numAckMsg < meta.ns.numServers
            /\ meta.ns.numServers - meta.ns.numAckMsg =
                 SumFunctionOnSet([s \in Servers |-> waiting(s)], Servers)
        /\ meta.ns.phase = "B" /\ meta.ns.size < 0 =>
            \A s \in meta.hosts : waiting(s) > 0

\* Unless the replication of the file was changed, the pending information is
\* dropped only when the chunk has its number of servers, none of which has a
\* replica yet to be made stable (the comment: "The make chunk stable info is kept in memory,
\* and in the checkpoint file until sufficient number of stable replicas
\* created, or chunk ceases to exist").
InfoKeptUntilStable ==
    [][(changes = 0 /\ meta.pms # NoInfo /\ meta'.pms = NoInfo /\ meta'.exists)
        => /\ Cardinality(meta'.hosts) >= meta.nrep
           /\ \A s \in meta'.hosts : rep[s].kind # "notStable"]_vars

\* Once faults cease, the replicas the meta server counts become stable, unless
\* the replication of the file was changed.
EventuallyStable ==
    [](changes = 0) => <>[](meta.exists => \A s \in meta.hosts : rep[s].kind = "stable")

\* Broken connections and meta server restarts alone never lose the chunk: a
\* replica becomes stable, or the chunk is removed, or a replica was lost, or the
\* replication was changed.
ChunkSurvives ==
    <>(changes + losses > 0 \/ ~meta.exists
       \/ \E s \in Servers : rep[s].kind = "stable")

=============================================================================
