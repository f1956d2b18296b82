# A TLA+ model of QFS and its distributed repair

This directory holds TLA+ modules, TLC configurations and TLAPS proofs about
the file system in `src/`: the Quantcast File System with a repair path that
rebuilds a lost chunk of an erasure coded stripe by passing partial results
between chunk servers. `PROJECT.json` ties every definition to the lines it
models, every property to the runs that check it, and lists the hazards of the
code.

## The system

| Part | Where | What it does |
|---|---|---|
| Meta server | `src/cc/meta` | name space, chunk to server map, leases, placement, re-replication; a single threaded event loop with an operation log and checkpoints |
| Chunk server | `src/cc/chunk` | chunk files, writes and record appends replicated along a chain, leases it holds as write master, partial decoding |
| Client library | `src/cc/libclient` | readers, writers, record appenders, striping and erasure coding |
| Libraries | `src/cc/kfsio`, `qcdio`, `common`, `qcrs`, `krb` | event loop, connections, disk queue threads, buffers, coding tables, authentication |
| Tools | `src/cc/tools`, `emulator`, `fuse`, `access`, `src/java` | command line programs and bindings |

A client asks the meta server for a chunk. The meta server issues a write lease
to one of the chunk servers that host it (the write master), which renews it,
relinquishes it, or loses it. Data goes to the master and along the chain. When
the lease ends, the meta server makes the replicas *stable*: it settles on one
size and checksum and tells every replica. A reader gets a read lease only on a
stable chunk. Every change of the name space is written to a log, which a
checkpoint shortens and a restart replays. When a chunk of a stripe is lost, the
meta server's replication checker hands out a repair: a plan that says which
server collects the data of which others, ending at a destination that writes the
chunk.

## Modules

| Module | Models | Composes with |
|---|---|---|
| `ChunkLeases` | class `ChunkLeases` and the requests that drive it, `meta/LayoutManager.cc`, `meta/MetaRequest.cc` | make stable as one step (`MakeStable` opens it up) |
| `LeaseTable` | what the lease table promises: readers, or one writer, or nobody | |
| `ChunkLeasesTable` | the refinement mapping from `ChunkLeases` to `LeaseTable` | both |
| `ChunkLeasesProofs` | proofs about the three above | |
| `RecordAppend` | one chunk's chain of `AtomicRecordAppender`s, its clients, and the meta server's decision | the lease as a flag, make stable without restarts |
| `RecordAppendProofs`, `RecordAppendChainProofs`, `RecordAppendHistoryProofs`, `RecordAppendTheorems` | proofs about it: the steps, the offsets and their order, the records and write ids, the theorems | |
| `WriteAppender` | the client's record appender, `libclient/WriteAppender.cc` | the chain as a service that promises what `RecordAppend` shows |
| `WriteAppenderProofs` | proofs about it | |
| `MakeStable` | the make chunk stable protocol with log, checkpoint, replay, reconnects and restarts | the lease as held / relinquished / gone |
| `MetaTree` | the operations of class `Tree`, `meta/kfsops.cc` | used by the next |
| `MetaLog` | the name space requests, allocation, log, checkpoint and replay | `MetaTree`; leases as a set |
| `MetaServerSM` | a chunk server's connection to the meta server and its lease clerk | the meta server as the other end |
| `MetaServerSMProofs` | proofs about it | |
| `BufferManager` | the buffer accounting of a chunk server | used by the next |
| `ClientSM` | the client connections of a chunk server | `BufferManager`; the disk as completions |
| `RepairPlans` | the four hard coded plans | used by the next two |
| `RepairPlanner` | the choice of sources and destination, and the operation table | `RepairPlans` |
| `DistributedRepair` | a repair at the chunk servers and the meta server's bookkeeping | `RepairPlans` |
| `DistributedRepairProofs` | proofs about it | |

`MC<Module>` extends a module with the constant definitions and symmetry sets its
configurations use. A definition whose comment calls it a mutant is no part of
the model: it is another one changed the way a slip in the code would change it,
and the property it is paired with in `PROJECT.json` must then fail.

### ChunkLeases, LeaseTable

State: the read and write lease tables, the chunk map (`mapped`, `hosts`),
`mNonStableChunks`, the allocations and deferred relinquish requests in flight.
A handler of the event loop is one action. The code only ever compares a
lease's expiration with the current time, so a lease holds `ttl`, its distance
to expiration, and `Tick` advances time; `Forever` is the ten year initial
expiration of an allocation's lease, `LongExpired` stands for every time past
all deadlines. A relinquish that comes before its allocation is done is kept by
the allocation and becomes an entry of `deferred`, handled by an action of its
own, when the allocation completes. `asked` and `dirty` are ghosts: which leases
their owner asked to give up, and which chunks were opened for write and not yet
handed to make stable. `MaxLeaseId` bounds the leases issued.

`LeaseTable` has no times, requests or replicas. A reader enters a chunk that
has no writer and nothing left to be made stable; a writer enters when no reader
is left, is told so, gives the chunk back, and is gone when it was handed to make
stable. In the mapping a reader counts until its lease has expired and a writer
until its lease is removed. `Crowded` are the chunks whose servers may be found
short of space when a write lease is asked for again: for these the table admits
what the code does (see below).

### RecordAppend

State: for each position of the chain the appender's state, its records, its
commit offset, its write id table, the submit queue, the requests forwarded,
and the wires in both directions; for the meta server the phase of make stable.
A record is a pair of write id and sequence number and has length one; a
replica's checksum is its content. `AppendBegin` and `RunPendingSubmitQueue` are
separate actions because the code drops the appender's lock between them.
A broken connection may or may not deliver what was on it. An inquiry is
answered by an appender that still has its chunk, and a peer fails with an append
in flight: an appender that has lost its chunk answers the same until it is
cleaned up, and a close that is dropped alone is what a master that was cut off
leaves behind anyhow. `MaxOps` bounds the appends of a write id.

### WriteAppender

State: the appender's flags, its queue and counters in one record, and the
append service: the last append with the current write id, whether the write id
is read only, the space reserved. Handlers call each other (`HandleError` retries
at once when no time is left to wait, `Done` starts the next operation), so each
is an operator on that record and each event an action. The service stands for
the chain: an append is stored or not at one point in time, a status that was
given is final, an inquiry makes the write id read only (`RecordAppend` has
`AckedIsChosen` and `InquiryIsFinal` for this). `late` holds appends of write ids
the client has dropped. Records are numbered and have length one; `stored` counts
how often each is in the file. The service answers an inquiry for the last append
of the write id or the one before, so that the exits of `GetStatusDone` for other
sequence numbers and versions are not there. The appender has a connection of its
own: no program in the repository gives it a shared pool.

### MakeStable

The meta server's handlers call each other (a request to a server that is down
fails inside the call that queues it), so they are written as functions on the
record `meta` and an action applies them. The log record is part of the handler
that writes it, as `Logger::dispatch` is synchronous. `late` holds the requests
a chunk server still runs after its connection broke. `MaxFaults` bounds broken
connections and restarts, `MaxLosses` lost replicas, `MaxChanges` changes of the
file's replication.

### MetaTree, MetaLog

A tree is a record of entries, attributes, id seeds and version roll backs; the
methods of `Tree` are functions of it, because request handlers and replay call
the same ones with different arguments. A request is one step, its log record
included; an allocation is two, with the chunk servers in between. The files on
disk are represented by what loading them would build: `disk` for the last
checkpoint and the log, `cp` for the checkpoint a child process is writing.
Writing a record replays it on both, so that a difference between a handler and
its replay shows at once, and `Restart` continues from `disk`. Offsets count half
chunks. The stripe parameters of a create are "valid", "refused" by the layout
manager before the tree is touched, or "invalid" to the tree itself. A truncate
has an end offset or none (-1), in the request, the record and the replay. `MaxOps`,
`MaxAllocs`, `MaxRestarts` and `MaxOffset` are bounds.

### MetaServerSM

State: the flags and queues of the state machine (`pending`, `dispatched`,
`responses`), the clerk's entry for one chunk, allocations at the disk, the two
directions of the connection, and the lease the meta server has. `done` counts
completions of each request. A renewal may become due at any time. Requests of
the clerk are not retried, the others are sent again on the next connection.
The other end, `meta/ChunkServer.cc` and the lease table of
`meta/LayoutManager.cc`, is a handful of actions: it answers in order, may ask for
a new authentication in a heartbeat, and ends a lease on a hello, a relinquish, a
corrupt chunk, a failed answer or time. Messages arrive whole, and an
authenticated connection has a TLS filter; a failed authentication ends the
connection as any error does.

### BufferManager, ClientSM

A manager is a record, its methods are operators. A connection takes buffers
first from its device's manager and then from the server's, and gives them back
as requests finish and replies are sent; a request with a content length takes
buffers from the server's manager for it before it is parsed. The handlers are
operators on managers and connections, as a wake up in one connection's handler
runs another's. Bytes are counted in buffers. Two ghosts follow what the code
loses: `leak`, the buffers taken for contents, and `stray`, a wait at a device that
was cancelled at the wrong manager. `MaxOps` bounds requests, `MaxStalls`
overloads.

### RepairPlanner and RepairPlans

A plan is a set of `<<receiver, round, sender>>` over keys `1..n` and the
destination. The planner picks the `n` best servers by `getRepairChoiceWeight`,
places the ones that have the chunk in their cache at the keys that send first,
counts the load up, and picks a destination outside the hosts. The `std::map`
keyed by pointers and the tie breaking of `std::sort` make the order of equal
servers arbitrary: `Orders` is the set of orders tried. Stripes have at least
`n` stable chunks and a spare server: with fewer the code has no defined
result. `MaxRepairs` bounds the repairs.

### DistributedRepair

State: the meta server's list of the chunk and requests in flight, the
operation lists, requests and answers on the wires, and at each server the
upstream request (`up`), its own read, the downstream requests (`down`) and which
of them have data (`got`, `partialDecodingOpQueue`). The contents of the buffers
are left out: the decoding is compiled out, so that an answer says only whose data
is there. Lists, requests, reads and answers come in any order: the rounds of a
plan order a server's list and nothing else. `lost` is a ghost, the requests and
answers that were lost. `N` selects the plan; 12 is the one compiled in. A repair
is handed out once.

## Runs

| Run | Bounds | States | Shows |
|---|---|---|---|
| `leases` | 2 chunks (one striped, whose servers may be short of space), 2 servers, 2 leases | 66 thousand | `LeaseInv`, the inductive invariant of the proofs; readers see stable chunks; valid leases are kept; a relinquish that was accepted is not lost, before, while and after its allocation completes; a lease whose owner is gone is cleaned up; every handler is a step of `LeaseTable` |
| `append_chain` | 2 servers, 2 write ids, 1 append each | 4.5 million | acknowledged records survive, an inquiry's answer is final, stable replicas are the chosen one; with two appends in flight, records are in order along the chain and committed from its tail |
| `append_live` | 2 servers, 2 appends in a row | 249 thousand | the same order for appends of one write id, of which the next waits for the commit of the one before; appends are answered, the chunk becomes stable |
| `record_appender` | 3 records, 3 retries, 1 denied reservation, 2 servers | 192 thousand | no record is stored twice or reported without being stored; space counted on is reserved; records that can go are driven; `Close` ends |
| `stable` | 2 servers, 2 sizes, 2 faults, 1 loss, 1 change of replication | 332 thousand | stable replicas agree through restarts, answers are counted right, information is kept, the chunk becomes stable and survives |
| `name_space_log` | 3 requests, 2 allocations, 1 restart, on a tree with two files in directories | 731 thousand | the log always replays, to the tree the clients were told of; the tree stays a tree and shares no chunk; versions only grow; a leased file is not deleted |
| `meta_connection` | 3 requests, 2 leases, 2 errors, 1 heartbeat that may ask for a new authentication, with and without authentication | 821 thousand | no wrong combination of states ends the process; requests are neither lost nor completed twice; the clerk waits only for renewals under way; requests complete |
| `client_buffers` | 2 connections, 1 device, 3 requests, with contents and maximum waits, 1 overload | 315 thousand | buffers are returned but for the losses named below, a sync runs after the writes before it, the destructor's checks hold, nobody waits for ever unless what was lost leaves too little |
| `planner` | 14 servers, the plans for 6, 8, 10 and 12 sources, 4 servers with caches, 2 repairs in a row | 1.2 million | every source reaches the destination exactly once; caches are used where the plan can use them |
| `repair` | 6 sources, everything in any order, 2 faults of any kind | 1.2 million | the entries of the partial decoding queues are accounted for, the destination waits for its own peers; without a fault the chunk is written |
| `repair_last`, `name_space_dies` | 12 sources; 2 requests | | violations, see below |

The bounds are the smallest at which the cases happen: a second lease after the
first, with requests for the first still on their way; two write ids, so that
one client's failure hits another's append; a reconnect before and another after
the decision; three retries, as the second server is asked only from the second
retry on; a third record, so that one is appended while two wait; enough
requests to make, move and remove a file around an allocation; two connections
that hold each other's buffers; more servers with caches than the smallest plan
has leaves, so that some are placed at the inner keys.
`record_appender` was also run with the file opened a second time (849 thousand
states, two retries) with the same result.

Some inputs are left out of a run because the code does not keep the property
for them; each is listed below under what the code does.

`CHECK_DEADLOCK FALSE` is set where the model covers one chunk, one repair, one
file or a bounded number of requests, whose life ends: a stable chunk with its
faults used up, a planner that has used its repairs, a repair that is done or, as
the code has no retry, stalled, an appender that was closed. `leases` checks it.

Fairness is weak fairness of: the event loop's timers (lease cleanup, the
replication checker, the appenders' timeouts), the handling of what has arrived,
replies of requests (each has a time out, which counts as a failed reply),
disk completions, reconnection of chunk servers, and time. In `ClientSM` it is
the progress of the server as a whole, with its enabling condition `CanProgress`
written out. No client request is fair, and neither is a fault. `CloseCompletes`
needs reservations to be denied finitely often (`MaxDenied`): a denial is not
counted as a retry, so that with no space anywhere the appender would go from
chunk to chunk. `ChunkSurvives` and `RepairCompletes` promise something only while
no replica was lost and no fault happened: the code has no way to make up for
either.

## Disagreements between code and comments

Runs that expect a violation; the quotes are in `PROJECT.json`.

| Run | What the code does |
|---|---|
| `repair_last` | the destination writes only the data that arrives last, although it has asked several peers |
| `name_space_dies` | when the file of an allocation in flight is removed, `LayoutDone` dereferences a null pointer; for a chunk that was coalesced into another file meanwhile it panics |

The models show further places where the code and its comments part, or where a
property has an exception. The actions do what the code does; where a constant
or an exception in a property keeps a case out, it is named.

Leases:

* `GetChunkWriteLease` drops the valid lease (`LayoutManager.cc:5445`) and may then
  fail for lack of space; a reader gets in before the chunk is stable, which
  `LayoutManager.cc:6025` means to exclude. `ReadersSeeStable` and `LeaseTable`
  except the chunks in `Crowded`.
* A failed `assignChunkId` dereferences the chunk information that does not exist
  (`AssignChunkIdFails`, `MetaRequest.cc:2025`; `name_space_dies` above).
* A relinquish that arrives while a *new* chunk is being allocated is refused,
  not deferred (`LeaseRelinquish`, `LayoutManager.cc:955`).

Make stable:

* Replicas that are not stable count as sufficient after the replication is
  lowered, and the decided size is dropped (`LayoutManager.cc:3262`, against the
  comment at 7301). `InfoKeptUntilStable` excepts a changed replication.
* A server logged as "not added" has been added (`AddPendingDone`,
  `LayoutManager.cc:7832`).

Name space:

* `create` removes the file that has the name before `link` refuses invalid stripe
  parameters; nothing is logged, and a later record of the same name fails in
  the replay (`kfsops.cc:159`, against `Replay.cc:229`, "when we replay it should
  work"). "invalid" in `StripeInputs` makes `ReplaySucceeds` and `RecoveredTree`
  fail.
* The offset of the next chunk is not in the checkpoint: with `LeaveHoles = TRUE`,
  a truncate or prune that ends in a hole, `RecoveredTree` fails.
* The name a file gets in the dumpster is its name followed by its id, and is not
  unique when names end in digits.
* Chunk ids may be handed out again after two restarts with no allocation logged
  between them (`metaserver_main.cc:737`).
* The clean-up of the dumpster is not logged (`MetaRequest.cc:2537`, a FIXME), so
  a restart may bring removed files back into the dumpster: `RecoveredTree` asks
  for the visible tree to be equal and for the dumpster to be kept.

Connection to the meta server:

* A renewal of an earlier lease that fails late removes the lease registered
  since, although `LeaseClerk.cc:183` says "Ignore stale renew reply.": only the
  chunk id is compared. `RenewOutstanding` is about the clerk's wait and does not
  exclude this.
* An allocation that completes after a disconnect registers a lease of the old
  session, although all leases were dropped at the disconnect.
* `FailOps` says that it fails all no retry requests; the ones not yet sent stay.
* An end of file in the middle of the answer to a new authentication returns
  without closing the connection, each time it is reported (`MetaServerSM.cc:569`
  with 1041). Messages arrive whole in the model.
* Without a TLS filter the meta server may send requests right behind its
  authentication answer, which the chunk server refuses as bytes past it. Not in
  the model, which has the filter.

Client connections and appender:

* The buffers taken for the content of a request (`ClientSM.cc:871`) are charged to
  the connection and never given back: only the bytes of the request's i/o are
  counted in what is put. `BuffersReturned` allows for them (`leak`), and
  `RequestServed` excepts the request they leave too little for (`LeakBlocks`).
* A write passes no client to `FailIfExceedsWait` (`ClientSM.cc:715`), so that one
  which waits for its device is cancelled at the wrong manager. Both properties
  except such a connection (`stray`).
* A request that fails because it would wait too long for the buffers of its
  content leaves the content on the input, where it is read as a request; the
  connection is then closed.
* A read that is larger than a device's buffers leaves the device manager set
  with no wait registered (`ClientSM.cc:975`). The request is answered with an
  error and `RequestServed` is content; that the connection may be stuck after it
  is not seen by it.
* `Put` stops at zero, so that putting back too much goes unnoticed.
* `WriteAppender::Open` by file id reports completion and then starts; a completion
  that appends would start it twice. Completions are not modelled as calling back.
* With a shared connection pool a time out resets the connection, and requests of
  other users of the connection would be sent again.

Repair:

* The sum is not computed: `XORFromAllTheIssuedOperation` has the multiplication and
  the XOR under `#if 0` (`KfsOps.cc:1946`, 2075; "for now have not implemented the
  XOR" at 1919), and what is sent is a buffer filled with a constant. The model has who sent data
  and nothing about its contents.
* An intermediate server whose peers answer before it is asked takes itself for
  the destination and writes (`KfsOps.cc:1830`, against the comment at 1654), with
  6 sources as with 12. The model does so too: `written` has writes of any server,
  and the properties are about the queues and the destination's own.
* An answer is submitted before the server's own disk read is done
  (`UpstreamNotified`, `KfsOps.cc:1820`).
* A second repair of a stripe finds what a failed one left in the queues, and
  `insertIntoPartialDecodingOpQueue` does not replace it (`ChunkManager.cc:1396`).
* A finished repair request leaves its chunk on a list nothing scans
  (`RepairRequestDone`, `MetaRequest.cc:5248`).
* The plans assume as many sources as they have keys; `PopulateChunkServerOpListString`
  (`LayoutManager.cc:9571`) does not check it. `RepairPlanner` has as many.

## Proofs

The theorems are about any values of the constants that satisfy the named
`ASSUME`s of the module; each invariant was model checked before it was proved.
The bounds of the runs (requests, faults, leases, appends) are constants too, so
nothing that is proved depends on them.

### Leases (`ChunkLeasesProofs`)

For any chunks, servers, read ids, lease lengths and bound on lease ids:

* `TypeCorrect`: `Spec => []TypeOK`.
* `LeaseInvHolds`: `Spec => []LeaseInv`. Exclusion is not inductive on its own. A
  new write lease replaces readers only after the cleanup, which needs that a
  lease in flight was not relinquished; ownership needs that lease ids are never
  reused; a stable-making chunk keeps writers out only because allocations in
  flight exclude it. `LeaseInv` collects these; the proof takes it apart into
  what is about ids (`IdInv`) and what is about one chunk (`StableInv`). For each,
  one step per action shows that it is preserved.
* `ReadWriteExclusion`, `AllocationOwnership`, `NoWriterWhenFreezing`: conjuncts of it.
* `StableReads`: readers only see stable chunks, outside `Crowded`.
* `ValidLeasesAreKept`: the action property `ValidLeaseKept`.
* `RelinquishKept`: a relinquish that comes in while the allocation of its lease is
  in flight is not lost: the lease is relinquished, or the allocation has the
  request, or it is in the queue it was deferred to (`RelinquishNotLost`).
* `LeasesImplementTable`: `Spec => ImplementsLeaseTable`, the refinement. Initial
  states map to initial states, and every step maps to a step of the table or
  leaves it unchanged, from `TypeOK` and `StableInv`. Most actions only let readers
  and writers go, or leave them. The invariant is needed where an allocation
  commits (its lease was not relinquished) and where a reader is let in (a chunk
  without a lease is not open for write).

### Record append (four modules)

For any chain length, set of write ids and number of appends, whichever
connections break and whoever reports the chunk:

* `AckedChosen`, `StableChosen`: a record reported appended is in the variant the
  meta server decides on, and every stable replica is that variant. `ChainInv` is
  about offsets: what a position has forwarded and not committed is what its
  successor still has to answer, so that what a position has committed, everyone
  further down has. `OneHistory` is about content: an offset has one record for all
  of history, at every replica, in every queue and in every variant the meta
  server was told of. `AckedHeld` puts a reported record below the master's commit
  offset, and `Decided` says that a variant is never shorter than what its author
  committed.
* `InquiryFinal`: the answer to a status inquiry is final. `WidInv` adds the history
  of the write ids: a participant that has a record has accepted it, and so has
  everybody before it; a read only entry accepts none; so what was answered "not
  appended" is in no variant.
* `ChainOrdered`: records are in order along the chain and commits come from its
  tail (`ChainInOrder`). `Order` is about what travels (an append never overtakes
  another, nor an acknowledgement an append), `AckBound` about how much an
  acknowledgement may say, `Stamps` and `BusyNoted` about the commit offset an
  append carries.
* `AppendTypes`: `Spec => []TypeOK`.

`Counting`, a conjunct of the type invariant, says what the number of appends in a
commit is. It mentions no variable; `RecordAppendTheorems` proves it once from the
library's facts about cardinality, so that the large modules need not carry these.

### The client's appender (`WriteAppenderProofs`)

For any chain length, retry limit, sizes and thresholds, with the greatest
threshold as the assumption that there is one:

* `RecordsStoredOnce`: no record is in the file twice, and one that was reported is
  in it. The invariant has to speak of the appends that may still be stored
  (`Live`): no record of theirs is in the file or in the buffer, and no two of them
  share a record (`File`, `Placed`). It holds because `HandleError` sends records
  again only after an answer that excludes the first append.
* `SpaceIsReserved`: the appender counts on no space the server does not hold, and an
  append under way is within it. `Space` follows the space through the answers: an
  append that has arrived has used its part up, and after a broken connection
  nothing is known.
* `NothingStranded`: records that may go have an operation or a timer.

`Sound` is the inductive invariant, as an operator on the record of the appender.
Since handlers call each other, there is a lemma per handler, from what holds
before it (`Ready` before `StartAppend`, `Failing` before `HandleError`, `Inquiring`
while the status is asked for) to `Sound`. The first section proves what the
appender's queue arithmetic (`PrefixSum`, `Fit`) computes, by taking the least
prefix for which it would be wrong.

### The connection to the meta server (`MetaServerSMProofs`)

For any number of requests, leases, errors and heartbeats, with and without
authentication:

* `ConnectionNeverDies`: the `die` calls of `Authenticate`, `DispatchHello`,
  `HandleAuthResponse`, `EnqueueOp` and `DispatchOps` are not reached. `Handshake` says
  what may be on the wires in each phase of the hello and authentication.
* `RequestsAccounted`: a request is queued, sent or completed, exactly one of these
  (`Places`), and one that was sent has one copy on an open session (`Travelling`).
* `RenewalOnItsWay`: the clerk waits for a renewal only while one is on its way
  (`RenewKept`).

### Repair (`DistributedRepairProofs`)

For each of the four plans, any number of faults and any timing:

* `QueuesAccountForRequests`: a request waits in its asker's queue exactly while it is
  on its way, queued at the peer, answered or lost, and is in one of these places;
  a server that has everything it waits for owes no answer (`EntriesAccounted`).
  It rests on the plans being trees, with one asker for each source, and on a list
  being handed out once: the invariant adds that nothing of a list that has not
  arrived is anywhere, and that a server was asked before it can owe an answer.
* `DestinationWaits`: the destination writes only when everyone it asked has
  answered, from the same invariant.

### What is only model checked

* Liveness (`CloseCompletes`, `RepairCompletes` and the others under a fair
  specification) and `ENABLED` are outside the prover.
* `MakeStable`: when a server is lost its outstanding requests are failed one after
  the other, by a fold whose step is the whole handler of a reply. What that fold
  leaves needs an induction with an operator as parameter, which the prover does
  not have.
* `MetaTree` and `MetaLog`: that a handler and its replay build the same tree is a
  comparison of each request with each record over recursive walks of the tree. No
  proof was attempted.
* `ClientSM` and `BufferManager`: the handlers wake each other up by recursive
  operators, which take the prover its arithmetic.
* `RepairPlanner`: what a table of servers sorted and counted by the library's
  operators holds is left to TLC. The plans it fills in are finite and are proved
  to be trees in `DistributedRepairProofs`.

## Not modelled

* Client library: plain `Writer` and `Reader`, the protocol worker, the connection
  pool; of the appender the path look up and create of an open, access tokens and
  the forced allocation interval. The models of the servers admit any sequence of
  client requests.
* Chunk server: the disk threads and their queue (`qcdio`), the hand over of the
  lock between client threads, metadata files, scrubbing, the flush pipeline and
  buffer limits of the record appender, the local clock of the lease clerk, lost
  directories in the hello. A disk request is a completion that may come at any
  time and may fail.
* Meta server: placement, rebalancing, evacuation and hibernation, which choose by
  load and space; the choice of a chunk for append among several; the threads in
  front of the event loop; permissions, times, statistics and the balancing of the
  B+ tree; log rotation and checksums; the panic after too many failed checkpoints.
  The meta server's map of caches is an arbitrary set: the code does not keep it
  equal to the chunk servers' lists.
* Read leases and the append chunk reuse in `MetaLog`, which `ChunkLeases` and
  `RecordAppend` have.
* Left out for good: coding tables and Galois field arithmetic (out of TLC's
  reach), request formatting and parsing, authentication and TLS beyond its place
  in the handshake, the command line tools, bindings and web user interface (pure
  I/O or library calls), the recovery of the old replicator, which the repair
  replaces, and `chunk/DistributedRepair.cc`, which is compiled out.
