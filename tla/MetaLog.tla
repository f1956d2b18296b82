------------------------------ MODULE MetaLog ------------------------------
(***************************************************************************)
(* The meta server's request processing over the name space of MetaTree,   *)
(* with the operation log, checkpoints and recovery: the handlers of       *)
(* meta/MetaRequest.cc, Logger::dispatch, Checkpoint, Restorer and Replay. *)
(*                                                                         *)
(* One thread handles a request, writes its log record and answers, so a   *)
(* request is one step, except a chunk allocation, which waits for the     *)
(* chunk servers between its two halves.                                   *)
(*                                                                         *)
(* The files on disk are represented by what loading them builds: disk is  *)
(* the tree that the last complete checkpoint and the log records written  *)
(* so far restore, cp the same for the checkpoint that a child process is  *)
(* still writing (the empty set when there is none).  Appending a record   *)
(* to the log therefore replays it on both.                                *)
(***************************************************************************)
EXTENDS MetaTree

CONSTANTS Names,         \* file and directory names clients use
          StripeInputs,  \* stripe parameters of a create: see MetaCreate
          TruncateTo,    \* offsets clients truncate files to
          TruncateEnd,   \* end offsets of a truncate, -1 for none
          PruneTo,       \* offsets clients prune files to
          LeaveHoles,    \* may truncate or prune leave a hole at the end?
          FirstTree,     \* the name space at the start
          Roll,          \* metaServer.rollChunkIdSeed
          MaxOps, MaxAllocs, MaxRestarts, MaxOffset   \* bounds

VARIABLES tree,     \* metatree, and the id seeds, of the running server
          allocs,   \* allocations that wait for the chunk servers
          leases,   \* valid write leases: <<chunk id, append>>
          disk, cp, \* what the files restore
          dirty,    \* isCPNeeded(), or the last checkpoint failed
          up,       \* FALSE once the server has crashed on its own
          sent,     \* chunk id -> versions sent by version changes
          ops, restarts

vars == <<tree, allocs, leases, disk, cp, dirty, up, sent, ops, restarts>>

Leased == {l[1] : l \in leases}
Dirs   == {d \in DOMAIN tree.attr : IsDir(tree, d) /\ d # DUMPSTERFID}

(***************************************************************************)
(* Replay.cc: one operator per kind of record.                             *)
(***************************************************************************)
\* updateSeed: the seed only grows.
updateSeed(T, r, f) ==
    IF r.st = "ok" /\ f < T.fseed THEN Fail(r.t, "panic")
    ELSE IF r.st = "ok" THEN [r EXCEPT !.t.fseed = f] ELSE r

\* A plausible slip: the replay does not create over an existing file.
ReplayCreateExclusive(T, e) ==
    updateSeed(T, create(T, {}, e.dir, e.name, e.fid, TRUE, TRUE, e.dump), e.fid)

replay_create(T, e) ==
    updateSeed(T, create(T, {}, e.dir, e.name, e.fid, FALSE, TRUE, e.dump), e.fid)

replay_mkdir(T, e) == updateSeed(T, mkdir(T, e.dir, e.name, e.fid), e.fid)

replay_remove(T, e) == remove(T, {}, e.dir, e.name, e.dump)

replay_rmdir(T, e) == rmdir(T, e.dir, e.name)

\* A plausible slip: the record's todumpster is not read.
ReplayRenameNoDumpster(T, e) ==
    rename(T, {}, e.dir, e.name, e.ddir, e.dname, TRUE, NoDump)

replay_rename(T, e) ==
    rename(T, {}, e.dir, e.name, e.ddir, e.dname, TRUE, e.dump)

\* A record for a file that is gone, or that says what the tree already says,
\* is skipped.
replay_allocate(T, e) ==
    LET chunks == T.attr[e.fid].chunks
        exists == e.off \in DOMAIN chunks
        r == assignChunkId(T, e.fid, e.off, e.cid, e.ver, FALSE, e.append)
    IN  IF ~ Exists(T, e.fid) THEN Ok(T)
        ELSE IF exists /\ chunks[e.off][1] # e.cid THEN Fail(T, "false")
        ELSE IF exists /\ chunks[e.off][2] = e.ver THEN Ok(T)
        ELSE [r EXCEPT !.t.cseed = Max({@, e.cid})]

VersionOf(T, c) ==
    LET f == CHOOSE x \in Files(T) : c \in ChunkIds(T, x)
        o == CHOOSE x \in DOMAIN T.attr[f].chunks : T.attr[f].chunks[x][1] = c
    IN  T.attr[f].chunks[o][2]

replay_beginchunkversionchange(T, e) ==
    IF ~ Exists(T, e.fid) THEN Ok(T)
    ELSE IF e.cid \notin AllChunkIds(T) \/ VersionOf(T, e.cid) >= e.ver
    THEN Fail(T, "false")
    ELSE Ok([T EXCEPT !.roll = (e.cid :> e.ver - VersionOf(T, e.cid)) @@ @])

replay_coalesce(T, e) ==
    IF Cardinality(ChunkIds(T, e.src)) # e.count THEN Fail(T, "false")
    ELSE coalesceBlocks(T, e.src, e.dst)

\* endoff is -1 when the record has none.
replay_truncate(T, e) == truncate(T, e.fid, e.off, e.end)

replay_pruneFromHead(T, e) == pruneFromHead(T, e.fid, e.off)

replay_size(T, e) ==
    IF Exists(T, e.fid) THEN Ok(setFileSize(T, e.fid, e.size)) ELSE Ok(T)

\* playlog: the first record that fails ends the replay.
Play(D, e) ==
    LET r == CASE e.op = "create"   -> replay_create(D.t, e)
               [] e.op = "mkdir"    -> replay_mkdir(D.t, e)
               [] e.op = "remove"   -> replay_remove(D.t, e)
               [] e.op = "rmdir"    -> replay_rmdir(D.t, e)
               [] e.op = "rename"   -> replay_rename(D.t, e)
               [] e.op = "allocate" -> replay_allocate(D.t, e)
               [] e.op = "begin"    -> replay_beginchunkversionchange(D.t, e)
               [] e.op = "coalesce" -> replay_coalesce(D.t, e)
               [] e.op = "truncate" -> replay_truncate(D.t, e)
               [] e.op = "prune"    -> replay_pruneFromHead(D.t, e)
               [] e.op = "size"     -> replay_size(D.t, e)
    IN  IF ~ D.ok THEN D ELSE [t |-> r.t, ok |-> r.st = "ok"]

\* A plausible slip: pending version changes are not written out.
RestoredNoRollBack(T) ==
    [T EXCEPT !.attr = [f \in DOMAIN T.attr |->
                 [T.attr[f] EXCEPT !.next = ChunkEnd(T.attr[f].chunks)]],
              !.roll = Nothing]

\* do_CP and Restorer: everything but nextChunkOffset is written out; the
\* restorer computes that one from the chunks.
Restored(T) ==
    [T EXCEPT !.attr = [f \in DOMAIN T.attr |->
                 [T.attr[f] EXCEPT !.next = ChunkEnd(T.attr[f].chunks)]]]

(***************************************************************************)
(* Logger::dispatch: a mutation that succeeded is written to the log.      *)
(***************************************************************************)
Log(e) ==
    /\ disk' = Play(disk, e)
    /\ cp' = {Play(D, e) : D \in cp}
    /\ dirty' = TRUE

\* Leases of chunks that were deleted go with them.
KeptLeases(T, A) ==
    {l \in leases : l[1] \in AllChunkIds(T) \cup {a.cid : a \in A}}

dispatch(r, e) ==
    /\ tree' = r.t
    /\ leases' = KeptLeases(r.t, {a \in allocs : a.init = 0})
    /\ IF r.st = "ok" THEN Log(e) ELSE UNCHANGED <<disk, cp, dirty>>

\* A client request that is handled and answered in one step.
Request(r, e) ==
    /\ up
    /\ ops < MaxOps
    /\ dispatch(r, e)
    /\ ops' = IF r.t = tree THEN ops ELSE ops + 1
    /\ UNCHANGED <<allocs, up, sent, restarts>>

\* "refused" parameters fail LayoutManager::Validate before the tree is touched,
\* "invalid" ones pass it and fail SetStriped inside create.
MetaCreate(d, n, exclusive, stripes) ==
    LET r == IF stripes = "refused" THEN Fail(tree, "EPERM")
             ELSE create(tree, Leased, d, n, 0, exclusive, stripes = "valid",
                         NoDump)
    IN  Request(r, [op |-> "create", dir |-> d, name |-> n,
                    fid |-> r.t.fseed, dump |-> r.dump])

MetaMkdir(d, n) ==
    LET r == mkdir(tree, d, n, 0)
    IN  Request(r, [op |-> "mkdir", dir |-> d, name |-> n, fid |-> r.t.fseed])

MetaRemove(d, n) ==
    LET r == remove(tree, Leased, d, n, NoDump)
    IN  Request(r, [op |-> "remove", dir |-> d, name |-> n, dump |-> r.dump])

MetaRmdir(d, n) ==
    Request(rmdir(tree, d, n), [op |-> "rmdir", dir |-> d, name |-> n])

MetaRename(d, n, dd, dn, overwrite) ==
    LET r == rename(tree, Leased, d, n, dd, dn, overwrite, NoDump)
    IN  Request(r, [op |-> "rename", dir |-> d, name |-> n,
                    ddir |-> dd, dname |-> dn, dump |-> r.dump])

MetaCoalesceBlocks(src, dst) ==
    LET n == Cardinality(ChunkIds(tree, src))
    IN  /\ ChunkEnd(tree.attr[src].chunks) + tree.attr[dst].next <= MaxOffset
        /\ Request(coalesceBlocks(tree, src, dst),
                   [op |-> "coalesce", src |-> src, dst |-> dst, count |-> n])

EndsInHole(T, f) == T.attr[f].next # ChunkEnd(T.attr[f].chunks)

\* truncate itself refuses an end offset below the offset, as the handler does.
MetaTruncate(f, o, end) ==
    LET r == truncate(tree, f, o, end)
    IN  /\ LeaveHoles \/ ~ EndsInHole(r.t, f)
        /\ Request(r, [op |-> "truncate", fid |-> f, off |-> o, end |-> end])

MetaPruneFromHead(f, o) ==
    LET r == pruneFromHead(tree, f, o)
    IN  /\ LeaveHoles \/ ~ EndsInHole(r.t, f)
        /\ Request(r, [op |-> "prune", fid |-> f, off |-> o])

\* GetChunkSizeDone: the size of a file whose last chunk has become stable.
GetChunkSizeDone(f, o, n) ==
    LET a == tree.attr[f]
    IN  /\ up
        /\ a.chunks[o][1] \notin Leased
        /\ a.size < 0
        /\ o + CHUNKSIZE >= a.next
        /\ dispatch(Ok(setFileSize(tree, f, o + n)),
                    [op |-> "size", fid |-> f, size |-> o + n])
        /\ UNCHANGED <<allocs, up, sent, ops, restarts>>

(***************************************************************************)
(* Chunk allocation.  init is 0 for a new chunk, otherwise the version     *)
(* that is being changed.                                                  *)
(***************************************************************************)
\* MetaAllocate::handle for an offset without a chunk, and for record append:
\* AllocateChunk takes a new id and a lease and asks the chunk servers.
AllocateChunk(f, o, append) ==
    LET off == IF append THEN tree.attr[f].next ELSE o
        c   == tree.cseed + 1
    IN  /\ up
        /\ ops < MaxOps
        /\ Cardinality(allocs) < MaxAllocs
        /\ off < MaxOffset
        /\ off \notin DOMAIN tree.attr[f].chunks
        /\ tree' = [tree EXCEPT !.cseed = c]
        /\ allocs' = allocs \cup {[fid |-> f, off |-> off, cid |-> c, ver |-> 1,
                                   init |-> 0, append |-> append]}
        /\ leases' = leases \cup {<<c, append>>}
        /\ ops' = ops + 1
        /\ UNCHANGED <<disk, cp, dirty, up, sent, restarts>>

\* MetaAllocate::handle for a chunk that exists.  GetChunkWriteLease is refused
\* while an allocation is in flight or an append lease is valid; any other valid
\* lease is replaced.  It raises the version, logs the change (the log is
\* flushed before the chunk servers are told) and waits for them.
GetChunkWriteLease(f, o) ==
    LET c    == tree.attr[f].chunks[o][1]
        v    == tree.attr[f].chunks[o][2]
        incr == (IF c \in DOMAIN tree.roll THEN tree.roll[c] ELSE 0) + 1
    IN  /\ up
        /\ ops < MaxOps
        /\ Cardinality(allocs) < MaxAllocs
        /\ \A a \in allocs : a.cid # c
        /\ <<c, TRUE>> \notin leases
        /\ tree' = [tree EXCEPT !.roll = (c :> incr) @@ @]
        /\ allocs' = allocs \cup {[fid |-> f, off |-> o, cid |-> c,
                                   ver |-> v + incr, init |-> v,
                                   append |-> FALSE]}
        /\ leases' = leases \cup {<<c, FALSE>>}
        /\ Log([op |-> "begin", fid |-> f, cid |-> c, ver |-> v + incr])
        /\ sent' = (c :> v + incr) @@ sent
        /\ ops' = ops + 1
        /\ UNCHANGED <<up, restarts>>

\* MetaAllocate::LayoutDone when a chunk server failed, or when the allocation
\* is stale (Validate): the chunk, its lease with it, is gone.  The lease is
\* deleted, the roll back entry stays.
AllocationFailed(a) ==
    /\ up
    /\ allocs' = allocs \ {a}
    /\ leases' = {l \in leases : l[1] # a.cid}
    /\ UNCHANGED <<tree, disk, cp, dirty, up, sent, ops, restarts>>

\* LayoutDone when every chunk server succeeded and the allocation is valid.
\* A failed assignChunkId brings the server down on every path.  A chunk that is
\* not mapped has no chunk information, and the null pointer is dereferenced.  A
\* chunk that is mapped elsewhere, because its file was coalesced, is either
\* refused by assignChunkId ("duplicate chunk mapping" is a panic) or, when its
\* file is gone or its offset taken, goes to DeleteChunk(MetaAllocate*), which
\* panics for a mapped chunk.  ("EEXIST" for the chunk's own version does not
\* happen: a version change proposes a larger one.)
LayoutDone(a) ==
    LET r == assignChunkId(tree, a.fid, a.off, a.cid, a.ver, a.append, FALSE)
        chunks == r.t.attr[a.fid].chunks
        off == CHOOSE o \in DOMAIN chunks : chunks[o][1] = a.cid
    IN  /\ up
        /\ a.cid \in Leased
        /\ allocs' = allocs \ {a}
        /\ IF r.st = "ok"
           THEN /\ tree' = Forget(r.t, {a.cid})
                /\ Log([op |-> "allocate", fid |-> a.fid, off |-> off,
                        cid |-> a.cid, ver |-> a.ver, append |-> a.append])
                /\ UNCHANGED up
           ELSE /\ up' = FALSE
                /\ UNCHANGED <<tree, disk, cp, dirty>>
        /\ UNCHANGED <<leases, sent, ops, restarts>>

\* A lease that no allocation is waiting for expires or is relinquished.
LeaseEnds(l) ==
    /\ up
    /\ \A a \in allocs : a.cid # l[1]
    /\ leases' = leases \ {l}
    /\ UNCHANGED <<tree, allocs, disk, cp, dirty, up, sent, ops, restarts>>

\* MetaLeaseCleanup runs cleanupDumpster; the deletions are not logged.
MetaLeaseCleanup ==
    /\ up
    /\ cleanupDumpster(tree, Leased) # tree
    /\ tree' = cleanupDumpster(tree, Leased)
    /\ UNCHANGED <<allocs, leases, disk, cp, dirty, up, sent, ops, restarts>>

(***************************************************************************)
(* Checkpoints.  MetaCheckpoint::handle forks a child that writes the tree *)
(* as it is at that moment, and starts a new log file: the records written *)
(* from then on are replayed on the new checkpoint.                        *)
(***************************************************************************)
MetaCheckpointStart ==
    /\ up
    /\ cp = {}
    /\ dirty
    /\ cp' = {[t |-> Restored(tree), ok |-> TRUE]}
    /\ dirty' = FALSE
    /\ UNCHANGED <<tree, allocs, leases, disk, up, sent, ops, restarts>>

\* logcompactor: the checkpoint is made of what the files restore.
LogCompactor ==
    /\ cp = {}
    /\ disk.ok
    /\ dirty
    /\ cp' = {[t |-> Restored(disk.t), ok |-> TRUE]}
    /\ UNCHANGED <<tree, allocs, leases, disk, dirty, up, sent, ops, restarts>>

\* The child renames its file and sets the link to the latest checkpoint.
CheckpointDone ==
    /\ cp # {}
    /\ disk' \in cp
    /\ cp' = {}
    /\ UNCHANGED <<tree, allocs, leases, dirty, up, sent, ops, restarts>>

CheckpointFailed ==
    /\ cp # {}
    /\ cp' = {}
    /\ dirty' = TRUE
    /\ UNCHANGED <<tree, allocs, leases, disk, up, sent, ops, restarts>>

\* A crash at any moment, and the next start: the checkpoint and the log are
\* loaded, the chunk id seed is rolled and the dumpster is emptied.
Restart ==
    /\ restarts < MaxRestarts
    /\ disk.ok
    /\ tree' = cleanupDumpster([disk.t EXCEPT !.cseed = @ + Roll], {})
    /\ allocs' = {}
    /\ leases' = {}
    /\ dirty' = FALSE
    /\ up' = TRUE
    /\ restarts' = restarts + 1
    /\ UNCHANGED <<disk, cp, sent, ops>>

Init ==
    /\ tree = FirstTree
    /\ allocs = {}
    /\ leases = {}
    /\ disk = [t |-> FirstTree, ok |-> TRUE]
    /\ cp = {}
    /\ dirty = FALSE
    /\ up = TRUE
    /\ sent = Nothing
    /\ ops = 0
    /\ restarts = 0

NameSpaceRequest ==
    \/ \E d \in Dirs, n \in Names :
           \/ \E x \in BOOLEAN, v \in StripeInputs : MetaCreate(d, n, x, v)
           \/ MetaMkdir(d, n)
           \/ MetaRemove(d, n)
           \/ MetaRmdir(d, n)
    \/ \E d \in Dirs, n \in Names, dd \in Dirs, dn \in Names, x \in BOOLEAN :
           MetaRename(d, n, dd, dn, x)
    \/ \E s \in Files(tree), d \in Files(tree) : MetaCoalesceBlocks(s, d)
    \/ \E f \in Files(tree), o \in TruncateTo, e \in TruncateEnd :
           MetaTruncate(f, o, e)
    \/ \E f \in Files(tree), o \in PruneTo : MetaPruneFromHead(f, o)

Allocation ==
    \/ \E f \in Files(tree), o \in 0 .. MaxOffset - CHUNKSIZE :
           o % CHUNKSIZE = 0 /\ AllocateChunk(f, o, FALSE)
    \/ \E f \in Files(tree) : AllocateChunk(f, 0, TRUE)
    \/ \E f \in Files(tree) : \E o \in DOMAIN tree.attr[f].chunks :
           GetChunkWriteLease(f, o)

LeaseProgress ==
    \/ \E a \in allocs : AllocationFailed(a) \/ LayoutDone(a)
    \/ \E l \in leases : LeaseEnds(l)

Next ==
    \/ NameSpaceRequest
    \/ Allocation
    \/ LeaseProgress
    \/ \E f \in Files(tree) : \E o \in DOMAIN tree.attr[f].chunks,
           n \in 0 .. CHUNKSIZE : GetChunkSizeDone(f, o, n)
    \/ MetaLeaseCleanup
    \/ MetaCheckpointStart
    \/ LogCompactor
    \/ CheckpointDone
    \/ CheckpointFailed
    \/ Restart

Spec == Init /\ [][Next]_vars

(***************************************************************************)
(* Properties.                                                             *)
(***************************************************************************)
TreeOK(T) ==
    /\ \A e \in DOMAIN T.dent : IsDir(T, e[1]) /\ Exists(T, T.dent[e])
    /\ \A f \in DOMAIN T.attr :
           /\ T.attr[f].type \in {"file", "dir"}
           /\ T.attr[f].size \in Nat \cup {Unknown}
           /\ \A o \in DOMAIN T.attr[f].chunks :
                  o % CHUNKSIZE = 0 /\ o < T.attr[f].next
           /\ f <= T.fseed
    /\ \A c \in AllChunkIds(T) : c <= T.cseed
    /\ DOMAIN T.roll \subseteq AllChunkIds(T)

\* Type: entries connect existing files, ids stay below the seeds, chunks lie
\* below nextChunkOffset, and roll back entries belong to mapped chunks.
TypeOK ==
    /\ TreeOK(tree)
    /\ \A D \in {disk} \cup cp : D.ok => TreeOK(D.t)
    /\ allocs \subseteq [fid : Nat, off : Nat, cid : Nat, ver : Nat, init : Nat,
                         append : BOOLEAN]
    /\ leases \subseteq Nat \X BOOLEAN
    /\ Cardinality(cp) <= 1
    /\ {dirty, up} \subseteq BOOLEAN

\* Every record that was written when its request succeeded also succeeds when
\* the log is replayed on the latest checkpoint ("for all creates that were
\* successful during normal operation, when we replay it should work"),
\* and on the checkpoint that is being written.
ReplaySucceeds == \A D \in {disk} \cup cp : D.ok

Visible(T) ==
    LET dent == Restrict(T.dent, {e \in DOMAIN T.dent : e[1] # DUMPSTERFID})
    IN  [dent |-> dent, attr |-> Restrict(T.attr, {ROOTFID} \cup Range(dent))]

InDumpster(T) ==
    {<<e[2], T.dent[e], T.attr[T.dent[e]]>> :
        e \in {x \in DOMAIN T.dent : x[1] = DUMPSTERFID}}

\* A crash at any moment loses nothing that was answered: what the checkpoint
\* and the log restore has every name, file, size and chunk version of the
\* running server, whatever moved through the dumpster; only the dumpster may
\* hold more, because its clean-up is not logged.
RecoveredTree ==
    \A D \in {disk} \cup cp :
        D.ok => /\ Visible(D.t) = Visible(tree)
                /\ InDumpster(tree) \subseteq InDumpster(D.t)


\* The chunk servers never see the same version of a chunk proposed twice:
\* every version change, also after failed ones, crashes and recoveries,
\* proposes a larger version than the one before (mChunkVersionRollBack is
\* logged, written to checkpoints and restored for that).
VersionsGrow ==
    [][\A c \in DOMAIN sent : sent'[c] # sent[c] => sent'[c] > sent[c]]_vars

\* A file that a client may be writing (a chunk of it has a valid lease) is
\* never deleted by a remove, a create or rename over it, or the dumpster
\* clean-up.
LeasedFileKept ==
    [][restarts' = restarts =>
         \A f \in Files(tree) :
             ChunkIds(tree, f) \cap Leased # {} => Exists(tree', f)]_vars

\* No outcome of an allocation brings the server down: LayoutDone has a branch
\* for a chunk that cannot be assigned because the file is gone or the offset is
\* taken, which deletes the new chunk ("Chunk delete is already issued").
MetaNeverDies == up
============================================================================
