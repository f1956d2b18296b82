-------------------------- MODULE DistributedRepair --------------------------
(***************************************************************************)
(* The repair of one missing chunk by the chunk servers of its stripe.     *)
(* The meta server sends each server that is a receiver in the plan its    *)
(* list of peers (MetaDistributedRepairChunk, meta/LayoutManager.cc); the  *)
(* server asks them for their data, and answers when it is asked itself,   *)
(* once it has theirs; the destination writes the chunk (chunk/KfsOps.cc,  *)
(* chunk/ChunkManager.cc).                                                 *)
(*                                                                         *)
(* A server is named by its key in the plan (RepairPlanner shows how keys  *)
(* are given out).  What a server sends is a buffer of fixed contents: the *)
(* partial decoding that would add up its own chunk and those received is  *)
(* compiled out (#if 0 in XORFromAllTheIssuedOperation).  An answer is     *)
(* therefore just that: data of this sender is there.  The rounds of the   *)
(* plan order a server's list only: nothing waits for them.                *)
(***************************************************************************)
EXTENDS RepairPlans

CONSTANTS
    N,              \* sources of the plan
    FaultKinds,     \* which of FindServer of a peer, a request, its answer, and
                    \* a disk read may fail
    MaxFaults       \* bound on the number of failures

ASSUME RepairAssumption ==
    /\ N \in {6, 8, 10, 12} /\ MaxFaults \in Nat
    /\ FaultKinds \subseteq {"peer", "ask", "answer", "read"}

Sources == 1..N
Nodes == 0..N
Receivers == {o[1] : o \in Plan(N)}
\* The list of s: what it asks, and at which time stamp.  It asks in that order.
List(s) == {o \in Plan(N) : o[1] = s}
Peers == [s \in Nodes |-> {o[3] : o \in List(s)}]
PeersBefore(s, t) == {o[3] : o \in {p \in List(s) : p[2] < t}}
\* The server that asks c.
Asker == [c \in Sources |-> CHOOSE s \in Nodes : c \in Peers[s]]

VARIABLES
    repl,       \* the missing chunk's replication state at the meta server
    inflight,   \* servers whose MetaDistributedRepairChunk is in flight
    lists,      \* servers whose list is on its way to them
    asks,       \* servers with a READ_FOR_PARTIAL_DECODING on its way to them
    answers,    \* servers whose answer to it is on its way
    up,         \* servers with an upstreamReadOp for the stripe
    down,       \* down[s]: the peers in downstreamReadOp of s
    got,        \* got[s]: those of them whose request has data in its buffer
    read,       \* the disk read of the server's own chunk
    written,    \* the missing chunk as written: by which server, and from the
                \* data of which peers
    lost,       \* ghost: servers whose request or answer was lost
    faults

meta == <<repl, inflight>>
wires == <<lists, asks, answers>>
queue == <<up, down, got>>
vars == <<meta, wires, queue, read, written, lost, faults>>

-----------------------------------------------------------------------------
(* The meta server *)

\* HandoutChunkReplicationWork for the missing chunk: with requests in flight
\* it becomes pending; else ReplicateChunk sends the lists and returns 0, which
\* is taken for "no destination".  (The model hands out one repair.)
HandoutChunkReplicationWork ==
    \/ /\ repl \in {"check", "noDestination"} /\ inflight # {}
       /\ repl' = "pending"
       /\ UNCHANGED <<inflight, lists>>
    \/ /\ repl = "check" /\ inflight = {}
       /\ repl' = "noDestination"
       /\ inflight' = Receivers
       /\ lists' = Receivers

ChunkReplicationChecker ==
    /\ HandoutChunkReplicationWork
    /\ UNCHANGED <<asks, answers, queue, read, written, lost, faults>>

\* The answer to a MetaDistributedRepairChunk arrives, from a server that has
\* written; or the deadline, the same for all of them, has passed.  handle()
\* does nothing: the requests are just no longer in flight.
RepairRequestDone ==
    /\ inflight # {}
    /\ \/ \E s \in inflight : /\ \E w \in written : w.at = s
                              /\ inflight' = inflight \ {s}
       \/ inflight' = {}
    /\ UNCHANGED <<repl, wires, queue, read, written, lost, faults>>

-----------------------------------------------------------------------------
(* Chunk servers *)

\* DistributedRepairChunkOp::Execute: ask the peers on the list, and put the
\* requests into the queue of the stripe.  The status of a peer that is not
\* found is kept, so that none of the rest of the list is asked.
Ask(s, peers) ==
    /\ asks' = asks \cup peers
    /\ down' = [down EXCEPT ![s] = @ \cup peers]

DistributedRepair(s) ==
    /\ s \in lists
    /\ \/ Ask(s, Peers[s]) /\ faults' = faults
       \/ /\ "peer" \in FaultKinds /\ faults < MaxFaults
          /\ \E o \in List(s) : Ask(s, PeersBefore(s, o[2]))
          /\ faults' = faults + 1
    /\ lists' = lists \ {s}
    /\ UNCHANGED <<meta, answers, up, got, read, written, lost>>

\* ReadForPartialDecodeOp::Execute, for a stable chunk: register, and read.
ReadForPartialDecode(c) ==
    /\ c \in asks
    /\ asks' = asks \ {c}
    /\ up' = up \cup {c}
    /\ read' = [read EXCEPT ![c] = "reading"]
    /\ UNCHANGED <<meta, lists, answers, down, got, written, lost, faults>>

\* XORFromAllTheIssuedOperation: every peer asked has sent its data.
AllBuffersReady(s, g) == down[s] \subseteq g

\* Mutant: the rest of the queue entry stays.
DrainKeepsRequests(s, before) ==
    /\ answers' = before \cup {s}
    /\ up' = up \ {s}
    /\ UNCHANGED <<down, got>>

\* The request is answered and the queue entry of the stripe deleted.
Drain(s, before) ==
    /\ answers' = before \cup {s}
    /\ up' = up \ {s}
    /\ down' = [down EXCEPT ![s] = {}]
    /\ got' = [got EXCEPT ![s] = {}]

\* ReadOp::HandleDone for a ReadForPartialDecodeOp.  An op that was answered
\* before its read was done is answered again; its asker knows no request with
\* that sequence number any more.
DiskReadDone(s) ==
    /\ read[s] = "reading"
    /\ read' = [read EXCEPT ![s] = "done"]
    /\ IF s \in up /\ AllBuffersReady(s, got[s]) THEN Drain(s, answers)
       ELSE UNCHANGED <<answers, queue>>
    /\ UNCHANGED <<meta, lists, asks, written, lost, faults>>

\* A read error: ReadOp::HandleDone returns without an answer.
DiskError(s) ==
    /\ faults < MaxFaults /\ "read" \in FaultKinds
    /\ read[s] = "reading"
    /\ read' = [read EXCEPT ![s] = "failed"]
    /\ faults' = faults + 1
    /\ UNCHANGED <<meta, wires, queue, written, lost>>

\* HandleWrite: the chunk is allocated, written from the buffer of the answer
\* that came last, and made stable; the meta server's request is answered.
HandleWrite(s, c) == written' = written \cup {[at |-> s, from |-> {c}]}

\* Mutant: the destination writes with the first answer.
ActsAsDestinationAtOnce(s, c) ==
    /\ down' = [down EXCEPT ![s] = @ \ {c}]
    /\ HandleWrite(s, c)
    /\ UNCHANGED <<up, got>>

\* A server without an upstream op takes itself for the destination: it drops
\* the request from its queue, and with the last one writes the chunk.
ActsAsDestination(s, c) ==
    /\ down' = [down EXCEPT ![s] = @ \ {c}]
    /\ IF down[s] \subseteq {c} THEN HandleWrite(s, c) ELSE UNCHANGED written
    /\ UNCHANGED <<up, got>>

\* Mutant: the upstream op is not woken up.
UpstreamNotWoken(s, c) ==
    /\ got' = [got EXCEPT ![s] = @ \cup {c}]
    /\ answers' = answers \ {c}
    /\ UNCHANGED <<up, down>>

\* The upstream op is told of the data; complete, it is answered and the queue
\* entry deleted, though its own chunk may not have been read.
UpstreamNotified(s, c) ==
    IF AllBuffersReady(s, got[s] \cup {c})
    THEN Drain(s, answers \ {c})
    ELSE /\ got' = [got EXCEPT ![s] = @ \cup {c}]
         /\ answers' = answers \ {c}
         /\ UNCHANGED <<up, down>>

\* SendChunkForDistributedRepairOp::HandleDone, with the data of c.
HandleDone(c) ==
    LET s == Asker[c] IN
    \/ /\ s \in up
       /\ UpstreamNotified(s, c)
       /\ UNCHANGED written
    \/ /\ s \notin up
       /\ ActsAsDestination(s, c)
       /\ answers' = answers \ {c}

\* An answer arrives.
AnswerArrives ==
    /\ \E c \in answers : HandleDone(c)
    /\ UNCHANGED <<meta, lists, asks, read, lost, faults>>

\* The request or the answer is lost, or the chunk asked for is not stable:
\* HandleDone without data does nothing.
AskLost ==
    /\ faults < MaxFaults
    /\ \E c \in asks \cup answers :
          /\ c \in asks => "ask" \in FaultKinds
          /\ c \in answers => "answer" \in FaultKinds
          /\ asks' = asks \ {c}
          /\ answers' = answers \ {c}
          /\ lost' = lost \cup {c}
    /\ faults' = faults + 1
    /\ UNCHANGED <<meta, lists, queue, read, written>>

Init ==
    /\ repl = "check" /\ inflight = {}
    /\ lists = {} /\ asks = {} /\ answers = {}
    /\ up = {}
    /\ down = [s \in Nodes |-> {}]
    /\ got = [s \in Nodes |-> {}]
    /\ read = [s \in Nodes |-> "idle"]
    /\ written = {}
    /\ lost = {}
    /\ faults = 0

Next ==
    \/ ChunkReplicationChecker
    \/ AnswerArrives
    \/ AskLost
    \/ RepairRequestDone
    \/ \E s \in Nodes :
          \/ DistributedRepair(s)
          \/ ReadForPartialDecode(s) \/ DiskReadDone(s) \/ DiskError(s)

Spec == Init /\ [][Next]_vars

\* The scan of the replication checker runs, requests and answers arrive, disk
\* reads finish, and requests of the meta server time out.
FairSpec ==
    /\ Spec
    /\ WF_vars(ChunkReplicationChecker)
    /\ WF_vars(AnswerArrives) /\ WF_vars(RepairRequestDone)
    /\ \A s \in Nodes :
         /\ WF_vars(DistributedRepair(s))
         /\ WF_vars(ReadForPartialDecode(s)) /\ WF_vars(DiskReadDone(s))

-----------------------------------------------------------------------------
(* Properties *)

\* The variables have their types.
TypeOK ==
    /\ repl \in {"check", "noDestination", "pending"}
    /\ inflight \subseteq Receivers /\ lists \subseteq Receivers
    /\ asks \subseteq Sources /\ up \subseteq Sources
    /\ answers \subseteq Sources /\ lost \subseteq Sources
    /\ down \in [Nodes -> SUBSET Sources]
    /\ got \in [Nodes -> SUBSET Sources]
    /\ read \in [Nodes -> {"idle", "reading", "done", "failed"}]
    /\ written \subseteq [at : Nodes, from : SUBSET Sources]
    /\ faults \in 0..MaxFaults

\* The partial decoding queues, in whatever order lists, requests, reads and
\* answers come.  A request is in the queue of its asker without data if and
\* only if it is on its way, queued at the peer, answered, or lost, and it is in
\* one of these places: no answer comes to an asker that has forgotten it, none
\* comes twice, and a request that waits for nothing was lost.  A server owes
\* an answer only while its own read is not done or a peer has not answered.
EntriesAccounted ==
    /\ TypeOK
    /\ \A s \in Nodes : got[s] \subseteq down[s] /\ down[s] \subseteq Peers[s]
    /\ \A c \in Sources :
          /\ c \in down[Asker[c]] \ got[Asker[c]] <=> c \in asks \cup up \cup answers \cup lost
          /\ c \notin asks \cap (up \cup answers \cup lost)
          /\ c \notin up \cap (answers \cup lost)
          /\ c \notin answers \cap lost
    /\ \A s \in up : read[s] = "done" => down[s] # got[s]

\* The destination writes only when every server it asked has answered and the
\* answers are in: no request of its own is waiting, on its way or lost, whatever
\* failed or came late elsewhere.
DestinationWaitsForAll ==
    (\E w \in written : w.at = Dst) =>
        /\ down[Dst] = {}
        /\ \A c \in Peers[Dst] : c \notin asks \cup up \cup answers \cup lost

\* The destination writes the chunk from the data of all the peers that it asks
\* (the message of HandleDone: "FINAL DESTINATION got ALL THE REPAIR data").
WrittenFromAll == \A w \in written : w.at = Dst => w.from = Peers[Dst]

\* Without a fault the missing chunk is written in the end, in whatever order
\* lists, requests, reads and answers come.
RepairCompletes == <>(faults > 0 \/ \E w \in written : w.at = Dst)

=============================================================================
