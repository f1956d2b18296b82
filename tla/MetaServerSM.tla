---------------------------- MODULE MetaServerSM ----------------------------
(***************************************************************************)
(* A chunk server's connection to the meta server (chunk/MetaServerSM.cc), *)
(* with the lease clerk that works over it (chunk/LeaseClerk.cc) for one   *)
(* chunk: connecting, authentication, the hello handshake, queued and      *)
(* dispatched requests, renewals and relinquishes of the write lease, and  *)
(* connections that break at any time.                                     *)
(*                                                                         *)
(* HelloMetaOp::Execute and the chunk server's Logger complete at once, so *)
(* creating the hello and sending it is one step.  An allocation waits for *)
(* the disk; allocations of one chunk complete in order.  The clock is     *)
(* left out: a renewal may become due, and a lease may expire, at any time.*)
(* Messages arrive whole, and an authenticated connection has a TLS filter.*)
(***************************************************************************)
EXTENDS Integers, Sequences, FiniteSets, Functions

CONSTANTS MaxOps, MaxLeases, MaxErrors, MaxHeartbeats   \* bounds

ASSUME BoundsAssumption == {MaxOps, MaxLeases, MaxErrors, MaxHeartbeats} \subseteq Nat

VARIABLES authEnabled, \* mAuthContext.IsEnabled(), set at start up
          conn,        \* IsConnected()
          authOp,      \* mAuthOp
          helloOp,     \* mHelloOp
          sentHello,   \* mSentHello
          pending,     \* mPendingOps
          dispatched,  \* mDispatchedOps
          responses,   \* mPendingResponses
          lease,       \* the chunk's entry of mLeases: id (0: none), renewSent
          allocs,      \* AllocChunkOps that wait for the disk: lease ids
          done,        \* op number -> how often it was completed
          died,        \* die() was called
          c2m, m2c,    \* the connection, both ways
          metaLease,   \* the write lease the meta server has, 0 for none
          metaAlloc,   \* the lease of its allocation in flight, 0 for none
          leaseIds, errors, heartbeats

sm == <<conn, authOp, helloOp, sentHello, pending, dispatched, responses, done,
        died>>
clerk == <<lease, allocs>>
bounds == <<authEnabled, leaseIds, errors, heartbeats>>
meta == <<metaLease, metaAlloc>>
vars == <<sm, clerk, c2m, m2c, meta, bounds>>

NoLease == [id |-> 0, renewSent |-> FALSE]
IsHandshakeDone == sentHello /\ ~ helloOp
IsUp == conn /\ IsHandshakeDone
noRetry(op) == op.kind \in {"renew", "relinquish"}
Msg(type, op, ok) == [type |-> type, op |-> op, ok |-> ok]
NoOp == [seq |-> 0, kind |-> "none", lease |-> 0]
AllocOp(id) == [NoOp EXCEPT !.lease = id]
Completed(S) == [s \in DOMAIN done |->
                     IF \E op \in S : op.seq = s THEN done[s] + 1 ELSE done[s]]
Requests(ops) == [i \in DOMAIN ops |-> Msg("request", ops[i], TRUE)]

Init ==
    /\ authEnabled \in BOOLEAN
    /\ conn = FALSE
    /\ authOp = FALSE
    /\ helloOp = FALSE
    /\ sentHello = FALSE
    /\ pending = <<>>
    /\ dispatched = {}
    /\ responses = <<>>
    /\ lease = NoLease
    /\ allocs = <<>>
    /\ done = <<>>
    /\ died = FALSE
    /\ c2m = <<>>
    /\ m2c = <<>>
    /\ metaLease = 0
    /\ metaAlloc = 0
    /\ leaseIds = 0
    /\ errors = 0
    /\ heartbeats = 0

(***************************************************************************)
(* Connecting.                                                             *)
(***************************************************************************)
\* Timeout when there is no connection, and Connect.  A hello that was sent on
\* the lost connection is dropped.
Connect ==
    /\ ~ conn
    /\ ~ (helloOp /\ ~ sentHello)
    /\ conn' \in BOOLEAN
    /\ authOp' = FALSE
    /\ helloOp' = FALSE
    /\ sentHello' = FALSE
    /\ responses' = <<>>
    /\ UNCHANGED <<pending, dispatched, done, died, clerk, c2m, m2c, meta,
                   bounds>>

\* Authenticate with an authentication in flight ends in die(), and so does
\* DispatchHello then, or with a hello that was sent.
InvalidStart == authOp \/ (~ authEnabled /\ sentHello)

\* A plausible slip: EVENT_NET_WROTE starts over while an authentication is in
\* flight.
NetWroteAgain ==
    /\ conn
    /\ ~ sentHello /\ ~ helloOp
    /\ authOp' = authEnabled
    /\ helloOp' = ~ authEnabled
    /\ sentHello' = ~ authEnabled
    /\ Len(c2m) < 2
    /\ c2m' = Append(c2m, Msg(IF authEnabled THEN "auth" ELSE "hello", NoOp, TRUE))
    /\ died' = InvalidStart
    /\ UNCHANGED <<conn, pending, dispatched, responses, done, clerk, m2c, meta,
                   bounds>>

\* HandleRequest, EVENT_NET_WROTE: the connection is there, SendHello starts
\* with the authentication if it is enabled.
NetWrote ==
    /\ conn
    /\ ~ authOp /\ ~ sentHello /\ ~ helloOp
    /\ IF authEnabled
       THEN /\ authOp' = TRUE
            /\ c2m' = Append(c2m, Msg("auth", NoOp, TRUE))
            /\ UNCHANGED <<helloOp, sentHello>>
       ELSE /\ helloOp' = TRUE
            /\ sentHello' = TRUE
            /\ c2m' = Append(c2m, Msg("hello", NoOp, TRUE))
            /\ UNCHANGED authOp
    /\ died' = InvalidStart
    /\ UNCHANGED <<conn, pending, dispatched, responses, done, clerk, m2c, meta,
                   bounds>>

\* A plausible slip: operations that were sent and are not to be retried are
\* forgotten instead of failed.
FailOpsSilently ==
    /\ dispatched' = {op \in dispatched : ~ noRetry(op)}
    /\ UNCHANGED done

\* FailOps while the server runs: what was sent and is not to be retried.
FailOps ==
    /\ dispatched' = {op \in dispatched : ~ noRetry(op)}
    /\ done' = Completed({op \in dispatched : noRetry(op)})

\* The connection is closed, all leases are dropped, operations fail or wait for
\* the next connection.
Disconnect ==
    /\ conn' = FALSE
    /\ authOp' = FALSE
    /\ responses' = <<>>
    /\ lease' = NoLease
    /\ FailOps
    /\ c2m' = <<>>
    /\ m2c' = <<>>
    /\ UNCHANGED <<sentHello, pending, allocs, died, meta>>

(***************************************************************************)
(* Requests to the meta server.                                            *)
(***************************************************************************)
\* A sequence number that is already in mDispatchedOps ends in die().
IsSent(seq) == \E op \in dispatched : op.seq = seq

EnqueueOp(op) ==
    /\ done' = Append(done, 0)
    /\ IF ~ authOp /\ pending = <<>> /\ IsUp
       THEN /\ died' = IsSent(op.seq)
            /\ dispatched' = dispatched \cup {op}
            /\ c2m' = Append(c2m, Msg("request", op, TRUE))
            /\ UNCHANGED pending
       ELSE /\ pending' = Append(pending, op)
            /\ UNCHANGED <<dispatched, c2m, died>>

\* Timeout when the connection is up: DispatchOps.
DispatchOps ==
    /\ IsUp /\ ~ authOp
    /\ pending # <<>>
    /\ died' = \E i \in DOMAIN pending :
                   \/ IsSent(pending[i].seq)
                   \/ \E j \in DOMAIN pending : j # i /\ pending[j].seq = pending[i].seq
    /\ dispatched' = dispatched \cup Range(pending)
    /\ c2m' = c2m \o Requests(pending)
    /\ pending' = <<>>
    /\ UNCHANGED <<conn, authOp, helloOp, sentHello, responses, done, clerk, m2c,
                   meta, bounds>>

NewOp(kind) ==
    [seq |-> Len(done) + 1, kind |-> kind, lease |-> lease.id]

Request(kind) ==
    /\ Len(done) < MaxOps
    /\ EnqueueOp(NewOp(kind))
    /\ UNCHANGED <<conn, authOp, helloOp, sentHello, responses, allocs, m2c, meta,
                   bounds>>

\* LeaseClerk::Timeout for a lease that is about to expire and in use.
Renew ==
    /\ lease.id # 0
    /\ ~ lease.renewSent
    /\ lease' = [lease EXCEPT !.renewSent = TRUE]
    /\ Request("renew")

\* LeaseClerk::Timeout for a lease that expired long ago.
Expire ==
    /\ lease.id # 0
    /\ lease' = NoLease
    /\ UNCHANGED <<sm, allocs, c2m, m2c, meta, bounds>>

\* LeaseClerk::RelinquishLease, when the chunk is closed or stable.
RelinquishLease ==
    /\ lease.id # 0
    /\ lease' = NoLease
    /\ Request("relinquish")

\* ChunkManager::NotifyMetaCorruptedChunk: a request that is retried.
CorruptChunk ==
    /\ lease' = NoLease
    /\ Request("corrupt")

(***************************************************************************)
(* Messages from the meta server.                                          *)
(***************************************************************************)
\* SendResponse: without a session it is dropped, during an authentication it
\* waits.
SendResponse(id, ok) ==
    IF ~ sentHello \/ ~ conn THEN UNCHANGED <<responses, c2m>>
    ELSE IF authOp
    THEN responses' = Append(responses, Msg("response", AllocOp(id), ok))
             /\ UNCHANGED c2m
    ELSE c2m' = Append(c2m, Msg("response", AllocOp(id), ok))
             /\ UNCHANGED responses

\* HandleAuthResponse: after the first authentication the hello is sent, after
\* a later one the responses that waited.
HandleAuthResponse ==
    /\ authOp' = FALSE
    /\ IF IsHandshakeDone
       THEN /\ c2m' = c2m \o responses
            /\ responses' = <<>>
            /\ UNCHANGED <<helloOp, sentHello, died>>
       ELSE /\ died' = (helloOp \/ responses # <<>>)
            /\ helloOp' = TRUE
            /\ sentHello' = TRUE
            /\ c2m' = Append(c2m, Msg("hello", NoOp, TRUE))
            /\ responses' = <<>>
    /\ UNCHANGED <<conn, pending, dispatched, done, lease, allocs>>

\* HandleRequest, EVENT_NET_ERROR or EVENT_INACTIVITY_TIMEOUT.  With an
\* authentication in flight on a session that is up the event goes to
\* HandleAuthResponse: it is how the end of the old filter is told, after the
\* answer was read.  Without the answer HandleAuthResponse fails ("response
\* authentication type mismatch") and closes the connection all the same.
NetError ==
    /\ conn
    /\ errors < MaxErrors
    /\ errors' = errors + 1
    /\ \/ Disconnect /\ UNCHANGED helloOp
       \/ /\ authOp /\ IsUp
          /\ m2c # <<>> /\ Head(m2c).type = "auth"
          /\ HandleAuthResponse
          /\ m2c' = Tail(m2c)
          /\ UNCHANGED meta
    /\ UNCHANGED <<authEnabled, leaseIds, heartbeats>>

\* A plausible slip: what was sent on the lost connection is left to itself.
ResubmitNothing == UNCHANGED c2m

\* ResubmitOps: what was sent on the lost connection is sent again, in order.
ResubmitOps ==
    \E ops \in [1 .. Cardinality(dispatched) -> dispatched] :
        /\ \A i, j \in DOMAIN ops : i < j => ops[i].seq < ops[j].seq
        /\ Range(ops) = dispatched
        /\ c2m' = c2m \o Requests(ops)

\* HandleReply for the hello; one that is refused closes the connection.
HelloReply(m) ==
    /\ helloOp' = FALSE
    /\ \/ /\ m.ok
          /\ ResubmitOps
          /\ UNCHANGED <<conn, authOp, sentHello, pending, dispatched, responses,
                         done, died, clerk>>
       \/ ~ m.ok /\ Disconnect

\* A plausible slip: a renewal that failed is only logged.
ClerkDoneLogsFailure(op, ok) ==
    IF op.kind # "renew" \/ lease.id = 0 \/ ~ ok THEN UNCHANGED lease
    ELSE lease' = [lease EXCEPT !.renewSent = FALSE]

\* LeaseClerk::HandleEvent: a renewal that succeeded extends the chunk's lease,
\* one that failed removes it, whichever lease the renewal was sent for.
ClerkDone(op, ok) ==
    IF op.kind # "renew" \/ lease.id = 0 THEN UNCHANGED lease
    ELSE lease' = IF ok THEN [lease EXCEPT !.renewSent = FALSE] ELSE NoLease

\* HandleReply for a request: its completion goes to the one who made it.  A
\* reply without a request closes the connection ("no op found").
Reply(m) ==
    IF m.op \in dispatched
    THEN /\ dispatched' = dispatched \ {m.op}
         /\ done' = Completed({m.op})
         /\ ClerkDone(m.op, m.ok)
         /\ UNCHANGED <<conn, authOp, helloOp, sentHello, pending, responses, died,
                        allocs, c2m>>
    ELSE Disconnect /\ UNCHANGED helloOp

\* AllocChunkOp::Execute: "Allocation implicitly invalidates all previously
\* existed write leases."
AllocChunk(id) ==
    /\ lease' = NoLease
    /\ allocs' = Append(allocs, id)
    /\ UNCHANGED <<sm, c2m>>

\* HandleCmd for a heartbeat: it may ask for a new authentication, which is
\* sent before the heartbeat is answered.
Heartbeat(m) ==
    LET auth == m.ok /\ authEnabled /\ ~ authOp
        resp == Msg("response", NoOp, TRUE)
        out  == IF auth THEN Append(c2m, Msg("auth", NoOp, TRUE)) ELSE c2m
    IN  /\ authOp' = (authOp \/ auth)
        /\ IF ~ sentHello
           THEN c2m' = out /\ UNCHANGED responses
           ELSE IF authOp'
           THEN c2m' = out /\ responses' = Append(responses, resp)
           ELSE c2m' = Append(out, resp) /\ UNCHANGED responses
        /\ UNCHANGED <<conn, helloOp, sentHello, pending, dispatched, done, died,
                       lease, allocs>>

\* HandleRequest, EVENT_NET_READ.
Receive ==
    LET m == Head(m2c)
    IN  /\ conn
        /\ m2c # <<>>
        /\ CASE m.type = "auth"      -> HandleAuthResponse
             [] m.type = "hello"     -> HelloReply(m)
             [] m.type = "reply"     -> Reply(m)
             [] m.type = "alloc"     -> AllocChunk(m.op.lease)
             [] m.type = "heartbeat" -> Heartbeat(m)
        /\ m2c' = IF conn' THEN Tail(m2c) ELSE <<>>
        /\ UNCHANGED <<meta, bounds>>

\* AllocChunkOp::HandleChunkAllocDone, also when the connection that brought
\* the allocation is gone.
ChunkAllocDone(ok) ==
    /\ allocs # <<>>
    /\ allocs' = Tail(allocs)
    /\ IF ok THEN lease' = [id |-> Head(allocs), renewSent |-> FALSE]
       ELSE UNCHANGED lease
    /\ SendResponse(Head(allocs), ok)
    /\ UNCHANGED <<conn, authOp, helloOp, sentHello, pending, dispatched, done,
                   died, m2c, meta, bounds>>

(***************************************************************************)
(* The meta server, as this connection sees it (meta/ChunkServer.cc, and   *)
(* the write lease of the chunk in meta/LayoutManager.cc).  It answers in  *)
(* order.  A renewal succeeds when the lease is the one it has; the lease  *)
(* of a server that connects again has expired.  One allocation of the     *)
(* chunk is in flight at a time.                                           *)
(***************************************************************************)
\* mReAuthSentFlag or mAuthenticateOp: requests wait from the heartbeat that
\* asks for an authentication until the new filter is there.
Authenticating ==
    \/ \E i \in DOMAIN c2m : c2m[i].type = "auth"
    \/ \E i \in DOMAIN m2c : m2c[i].type = "auth" \/ (m2c[i].type = "heartbeat" /\ m2c[i].ok)

\* The write lease ends with a new connection, a relinquish, a lost replica that
\* is not being allocated (ReplicaLost), or an allocation that failed.
LeaseEnds(m) ==
    \/ m.type = "hello"
    \/ m.type = "request" /\ m.op.kind = "relinquish" /\ m.op.lease = metaLease
    \/ m.type = "request" /\ m.op.kind = "corrupt" /\ metaAlloc = 0
    \/ m.type = "response" /\ ~ m.ok /\ m.op.lease = metaLease

MetaReceive(helloOk) ==
    LET m == Head(c2m)
        renewed == m.op.kind = "renew" => m.op.lease = metaLease
    IN  /\ c2m # <<>>
        /\ c2m' = Tail(c2m)
        /\ m2c' = CASE m.type = "auth"     -> Append(m2c, m)
                    [] m.type = "hello"    -> Append(m2c, Msg("hello", NoOp, helloOk))
                    [] m.type = "request"  -> Append(m2c, Msg("reply", m.op, renewed))
                    [] m.type = "response" -> m2c
        /\ metaLease' = IF LeaseEnds(m) THEN 0 ELSE metaLease
        /\ metaAlloc' =
               IF m.type = "hello" \/ (m.type = "response" /\ m.op.lease = metaAlloc)
               THEN 0 ELSE metaAlloc
        /\ helloOk \/ (m.type = "hello" /\ errors < MaxErrors)
        /\ errors' = IF helloOk THEN errors ELSE errors + 1
        /\ UNCHANGED <<sm, clerk, authEnabled, leaseIds, heartbeats>>

\* mHelloDone: the hello was received, and the connection is not lost.
MetaSession == conn /\ sentHello /\ (\A i \in DOMAIN c2m : c2m[i].type # "hello")

MetaAllocates ==
    /\ MetaSession
    /\ ~ Authenticating
    /\ metaAlloc = 0
    /\ leaseIds < MaxLeases
    /\ leaseIds' = leaseIds + 1
    /\ metaLease' = leaseIds'
    /\ metaAlloc' = leaseIds'
    /\ m2c' = Append(m2c, Msg("alloc", AllocOp(leaseIds'), TRUE))
    /\ UNCHANGED <<sm, clerk, c2m, authEnabled, errors, heartbeats>>

\* ChunkServer::Heartbeat; authentication is asked for where it is required.
MetaHeartbeat(authenticate) ==
    /\ MetaSession
    /\ ~ Authenticating
    /\ authenticate => authEnabled
    /\ heartbeats < MaxHeartbeats
    /\ heartbeats' = heartbeats + 1
    /\ m2c' = Append(m2c, Msg("heartbeat", NoOp, authenticate))
    /\ UNCHANGED <<sm, clerk, c2m, meta, authEnabled, leaseIds, errors>>

MetaLeaseExpires ==
    /\ metaLease # 0
    /\ metaLease' = 0
    /\ UNCHANGED <<sm, clerk, c2m, m2c, metaAlloc, bounds>>

Next ==
    \/ Connect
    \/ NetWrote
    \/ NetError
    \/ DispatchOps
    \/ Renew
    \/ Expire
    \/ RelinquishLease
    \/ CorruptChunk
    \/ Receive
    \/ \E ok \in BOOLEAN : ChunkAllocDone(ok)
    \/ \E ok \in BOOLEAN : MetaReceive(ok)
    \/ MetaAllocates
    \/ \E a \in BOOLEAN : MetaHeartbeat(a)
    \/ MetaLeaseExpires

\* The net manager calls Timeout and delivers what arrives; the meta server
\* answers.  Connections break only so often (MaxErrors).
Fairness ==
    /\ WF_vars(Connect)
    /\ WF_vars(NetWrote)
    /\ WF_vars(DispatchOps)
    /\ WF_vars(Receive)
    /\ WF_vars(MetaReceive(TRUE))

Spec == Init /\ [][Next]_vars /\ Fairness

(***************************************************************************)
(* Properties.                                                             *)
(***************************************************************************)
OpType == [seq : 0 .. MaxOps, kind : {"none", "renew", "relinquish", "corrupt"},
           lease : 0 .. MaxLeases]

\* Type: operations carry the numbers that were handed out, a queue of
\* responses exists only during an authentication of an open session.
TypeOK ==
    /\ {authEnabled, conn, authOp, helloOp, sentHello, died,
        lease.renewSent} \subseteq BOOLEAN
    /\ Range(pending) \cup dispatched \subseteq OpType
    /\ lease.id \in 0 .. MaxLeases
    /\ metaLease \in 0 .. leaseIds
    /\ responses # <<>> => authOp /\ IsUp
    /\ authOp => conn
    /\ ~ conn => c2m = <<>> /\ m2c = <<>>

\* No sequence of connects, errors, authentications and late completions
\* reaches the die() calls of SendHello's Authenticate and DispatchHello (an
\* authentication in flight, a hello that was sent), of HandleAuthResponse (a
\* hello in flight, or responses that wait, before the session is up) or of
\* EnqueueOp and DispatchOps (a sequence number that was sent before).  The die()
\* calls left follow a test of the same condition, or need a message cut in two.
NeverDies == TypeOK /\ ~ died

Copies(op, msgs) == Cardinality({i \in DOMAIN msgs : msgs[i].op = op})

\* Every request is at all times in one place: queued, sent, or completed once.
\* While the session lasts one that was sent has its request or its reply on
\* the way, once: none is lost or sent twice over a reconnect, so every reply
\* finds its request (Reply closes the connection on one that does not).
OpsAccounted ==
    /\ \A s \in DOMAIN done :
           Cardinality({i \in DOMAIN pending : pending[i].seq = s})
             + Cardinality({op \in dispatched : op.seq = s}) + done[s] = 1
    /\ IsUp => \A op \in dispatched : Copies(op, c2m) + Copies(op, m2c) = 1

\* leaseRenewSent is set only while a renewal is on its way: a lease in use
\* never misses its renewal because of a reply that will not come.
RenewOutstanding ==
    lease.renewSent =>
        \E op \in Range(pending) \cup dispatched :
            op.kind = "renew" /\ op.lease = lease.id

\* Every request is completed in the end, whatever happened to the connection
\* it was made on, once connections stop breaking.
OpsComplete == <>[](\A s \in DOMAIN done : done[s] = 1)
=============================================================================
