---------------------------- MODULE RecordAppend ----------------------------
(***************************************************************************)
(* Atomic record append to one chunk (chunk/AtomicRecordAppender.cc): a    *)
(* chain of N appenders, the write master at position 1, replicates the    *)
(* records of several write ids; each participant commits a record once    *)
(* its successor has.  When the master closes, fails, loses its lease or   *)
(* is declared dead, the meta server picks one variant of the replica (the *)
(* one the master relinquishes, or the shortest one reported to "begin     *)
(* make chunk stable") and makes every replica equal to it.                *)
(*                                                                         *)
(* A record is <<write id, client sequence number>>, one unit long, and a  *)
(* replica is the sequence of its records: its size is its length and its  *)
(* checksum is modelled by its content.  Disk writes, buffers and space    *)
(* reservations are left out; a disk error loses the replica (Lose).       *)
(***************************************************************************)
EXTENDS Integers, Sequences, FiniteSets

CONSTANTS
    N,          \* length of the replication chain (mNumServers)
    Wids,       \* write ids, each used by one client
    MaxOps,     \* bound on the appends issued with one write id
    NoWid,      \* the write id of the master's 0-byte commit ack
    NoData      \* no replica variant (chunk size -1)

ASSUME ChainAssumption == N \in Nat \ {0} /\ MaxOps \in Nat
ASSUME NoneAssumption == NoWid \notin Wids

Pos == 1 .. N

VARIABLES
    st,         \* AtomicRecordAppender::mState
    data,       \* records [0, mNextOffset) of the replica
    commit,     \* mNextCommitOffset
    mcommit,    \* mMasterCommittedOffset: what a slave knows of the master's commit
    ackSent,    \* mCommitOffsetAckSent, of the master
    wid,        \* mWriteIdState
    pend,       \* mPendingSubmitQueue: begun, waiting to be forwarded
    flight,     \* mReplicationList, less pend: forwarded, waiting for the peer
    link,       \* requests on the wire from i to i + 1
    reply,      \* replies on the wire from i + 1 to i
    lease,      \* the master's view of its write lease (gLeaseClerk.IsLeaseValid)
    acked,      \* records whose append the master reported successful
    told,       \* answers of GetOpStatus
    relinq,     \* lease relinquish on its way to the meta server
    phase,      \* meta server: the lease, "begin make stable", or the decision
    wait,       \* positions whose begin make stable reply is missing
    decision,   \* the variant chosen; during "begin", the best reply so far
    mcs         \* positions with a make chunk stable request on its way

appender == <<st, data, commit, mcommit, ackSent, wid>>
wires    == <<pend, flight, link, reply>>
metasrv  == <<phase, wait, decision, mcs>>
vars     == <<appender, wires, lease, acked, told, relinq, metasrv>>

States  == {"open", "closed", "failed", "stable", "lost"}
Record  == Wids \X (1 .. MaxOps)
WidInfo == [status : {"ok", "busy", "bad", "erased"}, end : Nat, seq : 0 .. MaxOps, ro : BOOLEAN]
OpT     == [kind : {"append", "ack", "close"}, w : Wids \cup {NoWid},
            seq : 0 .. MaxOps, off : Nat, mc : Int]

Init ==
    /\ st = [i \in Pos |-> "open"]
    /\ data = [i \in Pos |-> <<>>]
    /\ commit = [i \in Pos |-> 0]
    /\ mcommit = [i \in Pos |-> 0]
    /\ ackSent = 0
    /\ wid = [i \in Pos |-> [w \in Wids |->
                [status |-> "ok", end |-> 0, seq |-> 0, ro |-> FALSE]]]
    /\ pend = [i \in Pos |-> <<>>]
    /\ flight = [i \in Pos |-> <<>>]
    /\ link = [i \in Pos |-> <<>>]
    /\ reply = [i \in Pos |-> <<>>]
    /\ lease = TRUE
    /\ acked = {}
    /\ told = {}
    /\ relinq = NoData
    /\ phase = "lease"
    /\ wait = {}
    /\ decision = NoData
    /\ mcs = {}

-----------------------------------------------------------------------------
(* Helpers.                                                                *)

InFlight(i) == Len(pend[i]) + Len(flight[i])      \* mReplicationsInFlight

\* s without its k-th element.
Without(s, k) == [j \in 1 .. Len(s) - 1 |-> IF j < k THEN s[j] ELSE s[j + 1]]

\* Mutant: trims one record too many.
TrimmedShort(i) == SubSeq(data[i], 1, commit[i] - 1)

\* TrimToLastCommit: the tail past the last committed record is dropped.
Trimmed(i) == SubSeq(data[i], 1, commit[i])

\* A status for each of ops, in order.
Answer(ops, ok) == [k \in 1 .. Len(ops) |-> [op |-> ops[k], ok |-> ok]]

\* The replies of position i go to its predecessor; the master's go to clients.
RepliesTo(rep, i, rs) == IF i = 1 THEN rep ELSE [rep EXCEPT ![i - 1] = @ \o rs]

\* SetState(kStateReplicationFailed): a slave waits for the meta server; the
\* master trims to its last commit, closes, and relinquishes the lease with
\* the size and checksum of what is left (TryToCloseChunk, NotifyChunkClosed).
SetFailed(i) ==
    IF i = 1
    THEN /\ st' = [st EXCEPT ![1] = "closed"]
         /\ data' = [data EXCEPT ![1] = Trimmed(1)]
         /\ relinq' = Trimmed(1)
    ELSE /\ st' = [st EXCEPT ![i] = "failed"]
         /\ UNCHANGED <<data, relinq>>

KeepState == UNCHANGED <<st, data, relinq>>

\* AppendCommit of ops, in order, at an open appender.  The master is the last
\* to commit: it reports success to the client.
CommitOps(i, ops) ==
    LET apps == {k \in DOMAIN ops : ops[k].kind = "append"} IN
    /\ commit' = [commit EXCEPT ![i] = @ + Cardinality(apps)]
    /\ IF i = 1
       THEN /\ wid' = [wid EXCEPT ![1] = [w \in Wids |->
                         IF \E k \in apps : ops[k].w = w
                         THEN [@[w] EXCEPT !.status = "ok"] ELSE @[w]]]
            /\ acked' = acked \cup {<<ops[k].w, ops[k].seq>> : k \in apps}
       ELSE UNCHANGED <<wid, acked>>

-----------------------------------------------------------------------------
(* AppendBegin, at the master (from a client) and at a slave (from its      *)
(* predecessor).  The op is put on the pending submit queue; the appender's *)
(* lock is dropped before the queue is run.                                 *)

AppendOp(kind, w, seq) ==
    [kind |-> kind, w |-> w, seq |-> seq, off |-> Len(data[1]), mc |-> -1]

\* A client appends with write id w: one append at a time with a write id,
\* none once its status was inquired.
ClientAppend(w) ==
    LET ws == wid[1][w]
        n  == ws.seq + 1
    IN  /\ st[1] = "open" /\ lease
        /\ ws.status = "ok" /\ ~ws.ro /\ ws.seq < MaxOps
        /\ data' = [data EXCEPT ![1] = Append(@, <<w, n>>)]
        /\ wid' = [wid EXCEPT ![1][w] =
                      [@ EXCEPT !.status = "busy", !.seq = n, !.end = Len(data[1]) + 1]]
        /\ pend' = [pend EXCEPT ![1] = Append(@, [op |-> AppendOp("append", w, n), ok |-> TRUE])]
        /\ UNCHANGED <<st, commit, mcommit, ackSent, flight, link, reply, lease, acked,
                       told, relinq, metasrv>>

\* CheckLeaseAndChunk: an op that finds the lease expired fails the master.
LeaseExpired ==
    /\ st[1] = "open" /\ ~lease
    /\ SetFailed(1)
    /\ UNCHANGED <<commit, mcommit, ackSent, wid, wires, lease, acked, told, metasrv>>

\* SendCommitAck: with nothing in flight the idle master tells the chain how
\* far it has committed.
CommitAckDue == N > 1 /\ InFlight(1) = 0 /\ commit[1] > ackSent

SendCommitAck ==
    /\ st[1] = "open" /\ lease /\ CommitAckDue
    /\ pend' = [pend EXCEPT ![1] = Append(@, [op |-> AppendOp("ack", NoWid, 0), ok |-> TRUE])]
    /\ UNCHANGED <<appender, flight, link, reply, lease, acked, told, relinq, metasrv>>

\* TryToCloseChunk, from the idle timer: the commit ack goes first, and the
\* chunk is not closed while anything is in flight.
TryToCloseChunk ==
    /\ st[1] = "open" /\ lease
    /\ InFlight(1) = 0 /\ ~CommitAckDue
    /\ SetFailed(1)
    /\ UNCHANGED <<commit, mcommit, ackSent, wid, wires, lease, acked, told, metasrv>>

\* UpdateMasterCommittedOffset: an offset out of the window is ignored.
NewMasterCommit(i, mc) ==
    IF mcommit[i] <= mc /\ mc <= commit[i] THEN mc ELSE mcommit[i]

\* Mutant: off by one, the append that ends at the offset is not settled.
SettledLate(ws, upto) == IF ws.status = "busy" /\ ws.end < upto
                         THEN [ws EXCEPT !.status = "ok"] ELSE ws

\* The write id's last append has succeeded if the master committed past it.
Settled(ws, upto) == IF ws.status = "busy" /\ ws.end <= upto
                     THEN [ws EXCEPT !.status = "ok"] ELSE ws

\* A slave takes the next append or commit ack off the wire.  corrupt: the
\* record's checksum does not match.
AppendBegin(i) ==
    /\ i > 1 /\ link[i - 1] # <<>>
    /\ Head(link[i - 1]).kind \in {"append", "ack"}
    /\ \E corrupt \in BOOLEAN :
       LET m   == Head(link[i - 1])
           mc  == NewMasterCommit(i, m.mc)
           ws  == Settled(wid[i][m.w], mc)
           may == st[i] = "open" /\ \A k \in DOMAIN pend[i] : pend[i][k].ok
           inOrder == m.off = Len(data[i])
           known   == m.kind = "ack" \/ wid[i][m.w].status # "erased"
           ok  == may /\ known /\ inOrder
                  /\ (m.kind = "append" => ws.status = "ok" /\ ~ws.ro /\ ~corrupt)
       IN  /\ corrupt => m.kind = "append"
           /\ link' = [link EXCEPT ![i - 1] = Tail(@)]
           /\ pend' = [pend EXCEPT ![i] = Append(@, [op |-> m, ok |-> ok])]
           /\ st' = [st EXCEPT ![i] = IF may /\ known /\ ~inOrder THEN "failed" ELSE @]
           /\ mcommit' = [mcommit EXCEPT ![i] = IF may /\ known /\ inOrder THEN mc ELSE @]
           /\ wid' = IF m.kind = "ack" \/ ~(may /\ known /\ inOrder) THEN wid
                     ELSE [wid EXCEPT ![i][m.w] =
                             IF ok THEN [ws EXCEPT !.status = "busy", !.seq = m.seq,
                                                   !.end = m.off + 1]
                             ELSE ws]
           /\ data' = IF ok /\ m.kind = "append"
                      THEN [data EXCEPT ![i] = Append(@, <<m.w, m.seq>>)] ELSE data
           /\ UNCHANGED <<commit, ackSent, flight, reply, lease, acked, told, relinq, metasrv>>

\* Mutant: a thread that re-acquires the lock forwards its own op only.
RunPendingSubmitOwnOp(i) ==
    /\ i < N /\ st[i] = "open"
    /\ \E k \in DOMAIN pend[i] :
          LET op == [pend[i][k].op EXCEPT !.mc = IF i = 1 THEN commit[1] ELSE @] IN
          /\ pend' = [pend EXCEPT ![i] = Without(@, k)]
          /\ flight' = [flight EXCEPT ![i] = Append(@, op)]
          /\ link' = [link EXCEPT ![i] = Append(@, op)]
    /\ UNCHANGED <<appender, reply, lease, acked, told, relinq, metasrv>>

\* RunPendingSubmitQueue: the first thread to re-acquire the lock forwards the
\* whole queue, stamped with the master's commit offset; the last appender of
\* the chain commits instead.  From the first refused op on, and when the
\* appender is no longer open, every op of the queue fails.
RunPendingSubmitQueue(i) ==
    LET q    == pend[i]
        ops  == [k \in DOMAIN q |-> IF i = 1 THEN [q[k].op EXCEPT !.mc = commit[1]] ELSE q[k].op]
    IN  \E good \in 0 .. Len(q) :
        LET sent == SubSeq(ops, 1, good)
            refused == SubSeq(ops, good + 1, Len(q))
        IN
        /\ q # <<>>
        /\ IF st[i] # "open" THEN good = 0
           ELSE (\A k \in 1 .. good : q[k].ok) /\ (good < Len(q) => ~q[good + 1].ok)
        /\ pend' = [pend EXCEPT ![i] = <<>>]
        /\ IF good < Len(q) /\ st[i] = "open" THEN SetFailed(i) ELSE KeepState
        /\ ackSent' = IF i = 1 /\ good > 0 /\ N > 1 THEN commit[1] ELSE ackSent
        /\ IF i < N
           THEN /\ flight' = [flight EXCEPT ![i] = @ \o sent]
                /\ link' = [link EXCEPT ![i] = @ \o sent]
                /\ reply' = RepliesTo(reply, i, Answer(refused, FALSE))
                /\ UNCHANGED <<commit, wid, acked>>
           ELSE /\ CommitOps(i, sent)
                /\ reply' = RepliesTo(reply, i, Answer(sent, TRUE) \o Answer(refused, FALSE))
                /\ UNCHANGED <<flight, link>>
        /\ UNCHANGED <<mcommit, lease, told, metasrv>>

-----------------------------------------------------------------------------
(* Completion of a forwarded op: OpDone and AppendCommit.                  *)

\* The reply of the successor arrives.  A reply to an op that a broken
\* connection already failed is dropped.
OpDone(i) ==
    LET r    == Head(reply[i])
        rest == [reply EXCEPT ![i] = Tail(@)]
        good == st[i] = "open" /\ r.ok
    IN
    /\ i < N /\ reply[i] # <<>>
    /\ \/ /\ \A k \in DOMAIN flight[i] : flight[i][k] # r.op
          /\ reply' = rest
          /\ UNCHANGED <<commit, wid, acked, flight>> /\ KeepState
       \/ \E k \in DOMAIN flight[i] :
          /\ flight[i][k] = r.op
          /\ flight' = [flight EXCEPT ![i] = Without(@, k)]
          /\ reply' = RepliesTo(rest, i, Answer(<<r.op>>, good))
          /\ IF good THEN CommitOps(i, <<r.op>>) ELSE UNCHANGED <<commit, wid, acked>>
          /\ IF st[i] = "open" /\ ~r.ok THEN SetFailed(i) ELSE KeepState
    /\ UNCHANGED <<mcommit, ackSent, pend, link, lease, told, metasrv>>

\* Mutant: the ops fail, the appender stays open.
PeerFailedStaysOpen(i) ==
    /\ i < N /\ flight[i] # <<>>
    /\ \E k \in 0 .. Len(link[i]) : link' = [link EXCEPT ![i] = SubSeq(@, 1, k)]
    /\ reply' = RepliesTo([reply EXCEPT ![i] = <<>>], i, Answer(flight[i], FALSE))
    /\ flight' = [flight EXCEPT ![i] = <<>>]
    /\ UNCHANGED <<appender, pend, lease, acked, told, relinq, metasrv>>

\* The connection to the successor breaks: every forwarded op fails, what is
\* on the wire may or may not still be delivered, replies are lost.
PeerFailed(i) ==
    /\ i < N /\ flight[i] # <<>>
    /\ \E k \in 0 .. Len(link[i]) : link' = [link EXCEPT ![i] = SubSeq(@, 1, k)]
    /\ reply' = RepliesTo([reply EXCEPT ![i] = <<>>], i, Answer(flight[i], FALSE))
    /\ flight' = [flight EXCEPT ![i] = <<>>]
    /\ IF st[i] = "open" THEN SetFailed(i) ELSE KeepState
    /\ UNCHANGED <<commit, mcommit, ackSent, wid, pend, lease, acked, told, metasrv>>

\* Timeout: the oldest op in flight is overdue.
ReplicationTimeout(i) ==
    /\ st[i] = "open" /\ InFlight(i) > 0
    /\ SetFailed(i)
    /\ UNCHANGED <<commit, mcommit, ackSent, wid, wires, lease, acked, told, metasrv>>

\* The replica is lost: a disk error, a restart (which discards the replicas
\* that are not stable), or the cleanup timer of an idle appender.
Lose(i) ==
    /\ st[i] \in {"open", "closed", "failed"}
    /\ st' = [st EXCEPT ![i] = "lost"]
    /\ UNCHANGED <<data, commit, mcommit, ackSent, wid, wires, lease, acked, told, relinq, metasrv>>

\* The master's lease runs out, or the lease clerk is told to drop it.
LeaseClerkExpires ==
    /\ lease /\ lease' = FALSE
    /\ UNCHANGED <<appender, wires, acked, told, relinq, metasrv>>

-----------------------------------------------------------------------------
(* Requests of the clients about a write id.                               *)

\* Mutant: the write id stays writable after the inquiry.
GetOpStatusStaysWritable(i, w) ==
    LET ws == wid[i][w] IN
    /\ st[i] # "lost" /\ ws.status # "erased"
    /\ told' = told \cup {[w |-> w, seq |-> ws.seq, status |-> ws.status]}
    /\ UNCHANGED <<appender, wires, lease, acked, relinq, metasrv>>

\* GetOpStatus: the status of the last append with w, as far as position i can
\* tell, and from now on no append with w is accepted at i.
GetOpStatus(i, w) ==
    LET ws  == wid[i][w]
        now == IF ws.status # "busy" THEN ws
               ELSE IF st[i] = "stable"
               THEN [ws EXCEPT !.status = IF ws.end <= Len(data[i]) THEN "ok" ELSE "bad"]
               ELSE IF i > 1 THEN Settled(ws, mcommit[i]) ELSE ws
    IN  /\ st[i] # "lost" /\ ws.status # "erased"
        /\ wid' = [wid EXCEPT ![i][w] = [now EXCEPT !.ro = TRUE]]
        /\ told' = told \cup {[w |-> w, seq |-> ws.seq, status |-> now.status]}
        /\ UNCHANGED <<st, data, commit, mcommit, ackSent, wires, lease, acked, relinq, metasrv>>

\* CloseChunk with a write id: an entry in good state is discarded, and the
\* close is forwarded with the master's commit offset; it has no reply.
CloseOp(w) == [kind |-> "close", w |-> w, seq |-> 0, off |-> 0, mc |-> commit[1]]

CloseChunk(w) ==
    /\ st[1] # "lost" /\ wid[1][w].status = "ok" /\ ~wid[1][w].ro
    /\ wid' = [wid EXCEPT ![1][w].status = "erased"]
    /\ link' = IF N = 1 THEN link ELSE [link EXCEPT ![1] = Append(@, CloseOp(w))]
    /\ UNCHANGED <<st, data, commit, mcommit, ackSent, pend, flight, reply, lease, acked,
                   told, relinq, metasrv>>

CloseForwarded(i) ==
    /\ i > 1 /\ link[i - 1] # <<>> /\ Head(link[i - 1]).kind = "close"
    /\ LET m    == Head(link[i - 1])
           has  == st[i] # "lost" /\ wid[i][m.w].status # "erased"
           mc   == NewMasterCommit(i, m.mc)
           ws   == Settled(wid[i][m.w], IF st[i] = "stable" THEN Len(data[i]) ELSE mc)
           done == has /\ ws.status = "ok" /\ ~ws.ro
       IN  /\ mcommit' = IF has THEN [mcommit EXCEPT ![i] = mc] ELSE mcommit
           /\ wid' = IF has THEN [wid EXCEPT ![i][m.w] =
                                    IF done THEN [ws EXCEPT !.status = "erased"] ELSE ws]
                     ELSE wid
           /\ link' = [j \in Pos |-> IF j = i - 1 THEN Tail(link[j])
                                     ELSE IF j = i /\ i < N /\ done THEN Append(link[j], m)
                                     ELSE link[j]]
    /\ UNCHANGED <<st, data, commit, ackSent, pend, flight, reply, lease, acked, told,
                   relinq, metasrv>>

\* InvalidateWriteId: the allocation of write id w failed further down the
\* chain; the unused entry goes, and the appender is declared failed.
InvalidateWriteId(i, w) ==
    /\ i < N /\ st[i] = "open"
    /\ \A j \in Pos : wid[j][w].seq = 0 /\ ~wid[j][w].ro
    /\ wid[i][w].status = "ok"
    /\ wid' = [wid EXCEPT ![i][w].status = "erased"]
    /\ SetFailed(i)
    /\ UNCHANGED <<commit, mcommit, ackSent, wires, lease, acked, told, metasrv>>

-----------------------------------------------------------------------------
(* The meta server, as far as this chunk is concerned: one decision, from  *)
(* the lease relinquish or from the replies to begin make stable.  MakeStable *)
(* models this part in detail.                                             *)

\* The lease expired, or its owner is down: begin make stable is broadcast.
BeginMakeChunkStable ==
    /\ phase = "lease"
    /\ phase' = "begin" /\ wait' = Pos
    /\ UNCHANGED <<appender, wires, lease, acked, told, relinq, decision, mcs>>

\* AtomicRecordAppender::BeginMakeStable, and its reply: the appender closes,
\* trims to its last commit and reports its size; in any other state it fails.
BeginMakeStable(i) ==
    LET live == st[i] \in {"open", "failed", "closed"}
        mine == IF commit[i] < Len(data[i]) THEN Trimmed(i) ELSE data[i]
    IN  /\ i \in wait
        /\ wait' = wait \ {i}
        /\ st' = IF live THEN [st EXCEPT ![i] = "closed"] ELSE st
        /\ data' = IF live THEN [data EXCEPT ![i] = mine] ELSE data
        /\ decision' = IF live /\ (decision = NoData \/ Len(mine) < Len(decision))
                       THEN mine ELSE decision
        /\ UNCHANGED <<commit, mcommit, ackSent, wid, wires, lease, acked, told, relinq,
                       phase, mcs>>

BeginMakeChunkStableDone ==
    /\ phase = "begin" /\ wait = {} /\ decision # NoData
    /\ phase' = "decided" /\ mcs' = Pos
    /\ UNCHANGED <<appender, wires, lease, acked, told, relinq, wait, decision>>

\* Mutant: the decision is recorded, the broadcast is forgotten.
LeaseRelinquishNoBroadcast ==
    /\ relinq # NoData
    /\ relinq' = NoData
    /\ IF phase = "lease"
       THEN phase' = "decided" /\ decision' = relinq /\ UNCHANGED <<wait, mcs>>
       ELSE UNCHANGED metasrv
    /\ UNCHANGED <<appender, wires, lease, acked, told>>

\* The relinquish is accepted while the lease stands, else refused.
LeaseRelinquish ==
    /\ relinq # NoData
    /\ relinq' = NoData
    /\ IF phase = "lease"
       THEN phase' = "decided" /\ decision' = relinq /\ mcs' = Pos /\ UNCHANGED wait
       ELSE UNCHANGED metasrv
    /\ UNCHANGED <<appender, wires, lease, acked, told>>

\* Mutant: a longer replica is not truncated.
MakeChunkStableNoTruncate(i) ==
    /\ i \in mcs
    /\ mcs' = mcs \ {i}
    /\ st' = IF st[i] \in {"open", "failed", "closed"}
             THEN [st EXCEPT ![i] = IF Len(decision) <= Len(data[i]) THEN "stable" ELSE "lost"]
             ELSE st
    /\ UNCHANGED <<data, commit, mcommit, ackSent, wid, wires, lease, acked, told, relinq,
                   phase, wait, decision>>

\* AtomicRecordAppender::MakeChunkStable: truncate to the given size, compare
\* the checksum, and become stable; a replica that is shorter, or differs, is
\* lost.
MakeChunkStable(i) ==
    LET cut  == SubSeq(data[i], 1, Len(decision))
        same == Len(decision) <= Len(data[i]) /\ cut = decision
    IN  /\ i \in mcs
        /\ mcs' = mcs \ {i}
        /\ IF st[i] \in {"open", "failed", "closed"}
           THEN /\ st' = [st EXCEPT ![i] = IF same THEN "stable" ELSE "lost"]
                /\ data' = [data EXCEPT ![i] = IF same THEN cut ELSE @]
           ELSE UNCHANGED <<st, data>>
        /\ UNCHANGED <<commit, mcommit, ackSent, wid, wires, lease, acked, told, relinq,
                       phase, wait, decision>>

Next ==
    \/ \E w \in Wids : ClientAppend(w) \/ CloseChunk(w)
    \/ LeaseExpired \/ SendCommitAck \/ TryToCloseChunk \/ LeaseClerkExpires
    \/ \E i \in Pos :
          \/ AppendBegin(i) \/ RunPendingSubmitQueue(i) \/ OpDone(i)
          \/ PeerFailed(i) \/ ReplicationTimeout(i) \/ Lose(i) \/ CloseForwarded(i)
          \/ BeginMakeStable(i) \/ MakeChunkStable(i)
          \/ \E w \in Wids : GetOpStatus(i, w) \/ InvalidateWriteId(i, w)
    \/ BeginMakeChunkStable \/ BeginMakeChunkStableDone \/ LeaseRelinquish

Spec == Init /\ [][Next]_vars

\* Requests on the wire are handled and answered, timers fire, and once the
\* master has closed the lease is relinquished or expires.
FairSpec ==
    /\ Spec
    /\ \A i \in 1 .. N :
          /\ WF_vars(AppendBegin(i) \/ CloseForwarded(i))
          /\ WF_vars(RunPendingSubmitQueue(i))
          /\ WF_vars(OpDone(i))
          /\ WF_vars(ReplicationTimeout(i))
          /\ WF_vars(BeginMakeStable(i))
          /\ WF_vars(MakeChunkStable(i))
    /\ WF_vars(LeaseRelinquish)
    /\ WF_vars(st[1] # "open" /\ BeginMakeChunkStable)
    /\ WF_vars(BeginMakeChunkStableDone)

-----------------------------------------------------------------------------
(* Properties.                                                             *)

\* The variables have their types.
TypeOK ==
    /\ st \in [Pos -> States]
    /\ data \in [Pos -> Seq(Record)]
    /\ commit \in [Pos -> Nat] /\ mcommit \in [Pos -> Nat] /\ ackSent \in Nat
    /\ wid \in [Pos -> [Wids -> WidInfo]]
    /\ pend \in [Pos -> Seq([op : OpT, ok : BOOLEAN])]
    /\ flight \in [Pos -> Seq(OpT)] /\ link \in [Pos -> Seq(OpT)]
    /\ reply \in [Pos -> Seq([op : OpT, ok : BOOLEAN])]
    /\ lease \in BOOLEAN
    /\ acked \subseteq Record
    /\ told \subseteq [w : Wids, seq : 0 .. MaxOps, status : {"ok", "busy", "bad"}]
    /\ relinq \in {NoData} \cup Seq(Record)
    /\ phase \in {"lease", "begin", "decided"}
    /\ wait \subseteq Pos /\ mcs \subseteq Pos
    /\ decision \in {NoData} \cup Seq(Record)

Chosen(r) == \E k \in DOMAIN decision : decision[k] = r

\* A record reported appended to its client is part of the variant the meta
\* server decides on, whichever participants fail and whoever reports it.
AckedIsChosen == phase = "decided" => \A r \in acked : Chosen(r)

\* The answers to a status inquiry, from any participant, hold for good: an
\* append reported successful is in the chosen variant, one reported failed is
\* not, and no append issued later with that write id is.
InquiryIsFinal ==
    phase = "decided" =>
        \A t \in told :
            /\ t.status = "ok" /\ t.seq > 0 => Chosen(<<t.w, t.seq>>)
            /\ t.status = "bad" => ~Chosen(<<t.w, t.seq>>)
            /\ \A n \in t.seq + 1 .. MaxOps : ~Chosen(<<t.w, n>>)

\* Every stable replica is the chosen variant.
StableIsChosen ==
    \A i \in Pos : st[i] = "stable" => phase = "decided" /\ data[i] = decision

\* Records are stored in the master's order and committed from the tail of the
\* chain, whichever threads run the pending queues.  What a participant has
\* committed, all further down have committed.  No record in flight at an open
\* appender was committed there, and the one whose success is heard next is at
\* its commit offset: the "out of order" fatal error of AppendCommit is never
\* reached.  The append an open slave takes next is at its end, so the "invalid
\* append offset" failure is not either, and the slave has by then heard of the
\* master's commit of that write id's previous append.
ChainInOrder ==
    /\ TypeOK
    /\ \A i \in 1 .. N - 1 : commit[i] <= commit[i + 1]
    /\ \A i \in Pos : st[i] = "open" =>
        /\ \A k \in DOMAIN flight[i] :
              flight[i][k].kind = "append" => flight[i][k].off >= commit[i]
        /\ i < N /\ reply[i] # <<>> /\ Head(reply[i]).ok
           /\ (\E k \in DOMAIN flight[i] : flight[i][k] = Head(reply[i]).op)
           => Head(reply[i]).op.off = commit[i]
        /\ i > 1 /\ link[i - 1] # <<>> /\ Head(link[i - 1]).kind = "append"
           /\ (\A k \in DOMAIN pend[i] : pend[i][k].ok)
           => LET m == Head(link[i - 1]) IN
              /\ m.off = Len(data[i])
              /\ Settled(wid[i][m.w], NewMasterCommit(i, m.mc)).status \in {"ok", "erased"}

\* Once the master has stopped accepting appends, every replica ends up stable
\* or lost.
EventuallyStable ==
    st[1] # "open" ~> \A i \in Pos : st[i] \in {"stable", "lost"}

\* An append is answered: committed, or the master leaves the open state.
AppendAnswered ==
    \A w \in Wids : wid[1][w].status = "busy" ~> (wid[1][w].status # "busy" \/ st[1] # "open")
=============================================================================
