------------------------------- MODULE ClientSM -------------------------------
(***************************************************************************)
(* The connections of clients to a chunk server (chunk/ClientSM.cc) and    *)
(* the io buffers their requests take, first from the manager of the       *)
(* device the chunk is on and then from the server's own manager All.      *)
(*                                                                         *)
(* A handler runs to its end before the next event, and calls other        *)
(* handlers: each one is an operator from a state S, the record of the     *)
(* managers and the connections, to the state it leaves, and each event is *)
(* an action.  What the environment decides within a handler is a set of   *)
(* connections chosen by the action: `exceeded' those whose average wait   *)
(* is longer than their request allows, `arrived' those of which more than *)
(* the request's header, its content or its payload, has been received.    *)
(***************************************************************************)
EXTENDS BufferManager

CONSTANTS
  Devs, NoDev, All,     \* the managers, and the null device manager
  NoOp,
  Requests,             \* Requests[k]: records [kind, dev, head, size, bad] that
                        \* client k may send; head is the content length
  DevTotal, AllTotal, Quota,
  MaxWaitKinds,         \* the kinds of requests sent with a Max-wait-ms
  MaxOps,               \* bound: requests of all connections
  MaxStalls             \* bound: times the disks are overloaded or buffers low

VARIABLES mgr, conn, stalls

vars == <<mgr, conn, stalls>>

Managers == Devs \cup {All}

(* A connection: cur is mCurOp, devMgr mDevBufMgr, granted mGrantedFlag,   *)
(* discard whether mDiscardByteCnt > 0, content whether mCurOp waits for   *)
(* its content (mContentReceivedFlag), ops mOps, syncs mPendingOps, out    *)
(* mPrevNumToWrite; run are the requests submitted and not completed, and  *)
(* garbled says that the input goes on with bytes that are no request.     *)
(* Two fields are ghosts: leak counts the buffers taken for contents, and  *)
(* stray is set when a request for the device was not cancelled with the   *)
(* request that made it.                                                   *)
NewConn ==
  [net |-> "good", sent |-> 0, cur |-> NoOp, devMgr |-> NoDev, granted |-> FALSE,
   discard |-> FALSE, content |-> FALSE, ops |-> <<>>, syncs |-> <<>>, run |-> {}, out |-> 0,
   garbled |-> FALSE, leak |-> 0, stray |-> FALSE]

Init ==
  /\ mgr = [m \in Managers |-> IF m = All THEN NewManager(AllTotal, Quota)
                                           ELSE NewManager(DevTotal, Quota)]
  /\ conn = [k \in Clients |-> NewConn]
  /\ stalls = 0

State == [mgr |-> mgr, conn |-> conn]

HasPayload(op) == op.kind \in {"write", "append"}

(* IsDependingOpType: a write without a reply of its own.                  *)
IsDependingOpType(op) == op.kind = "write"

(* IoRequestBytes, and the reply header of a read.  (A "sync" is a write   *)
(* sync, a "status" the inquiry for an append; size is 0 for both.)        *)
IoRequestBytes(op) == op.size + 1

ForDiskIo(op) == op.kind \notin {"sync", "status"}

RespBytes(op) == IF op.kind = "read" /\ ~op.busy THEN op.bytes ELSE 1

GetQuota(S, d) ==
  IF d = NoDev THEN S.mgr[All].quota ELSE Min({S.mgr[All].quota, S.mgr[d].quota})

PutAndResetDevBufferManager(S, k, op, n) ==
  IF op.held THEN [S EXCEPT !.mgr[op.dev] = Put(@, k, n)] ELSE S

SendResponse(S, k, op) ==
  LET T == PutAndResetDevBufferManager(S, k, op, op.bytes)
  IN  [T EXCEPT !.mgr[All] = Put(@, k, op.bytes - RespBytes(op)),
                !.conn[k].out = @ + RespBytes(op)]

(* A completed request: answered, or on a terminating connection only its  *)
(* buffers given back.                                                     *)
Complete(S, k, op) ==
  IF S.conn[k].net = "good" THEN SendResponse(S, k, op)
  ELSE LET T == PutAndResetDevBufferManager(S, k, op, op.bytes)
       IN  [T EXCEPT !.mgr[All] = Put(@, k, op.bytes)]

(* Mutant of OpFinished: every sync is submitted, whatever it waits for.   *)
OpFinishedAnySync(S, k, op) ==
  LET q == S.conn[k].syncs
  IN  IF ~IsDependingOpType(op) THEN S
      ELSE [S EXCEPT !.conn[k].syncs = <<>>,
                     !.conn[k].run = @ \cup {q[j].op : j \in DOMAIN q}]

(* Mutant of OpFinished: syncs are not submitted once the connection has   *)
(* gone.                                                                   *)
OpFinishedIfOpen(S, k, op) ==
  IF S.conn[k].net = "good" THEN OpFinishedAnySync(S, k, op) ELSE S

(* OpFinished: the write-syncs at the front that wait for this write are   *)
(* submitted.                                                              *)
OpFinished(S, k, op) ==
  LET q == S.conn[k].syncs
      n == CHOOSE i \in 0 .. Len(q) :
             /\ \A j \in 1 .. i : q[j].after = op.seq
             /\ i < Len(q) => q[i + 1].after # op.seq
  IN  IF ~IsDependingOpType(op) THEN S
      ELSE [S EXCEPT !.conn[k].syncs = SubSeq(q, n + 1, Len(q)),
                     !.conn[k].run = @ \cup {q[j].op : j \in 1 .. n}]

RECURSIVE AnswerInOrder(_, _)
AnswerInOrder(S, k) ==
  LET q == S.conn[k].ops
  IN  IF q = <<>> \/ ~Head(q).done THEN S
      ELSE LET T == Complete(S, k, Head(q))
           IN  AnswerInOrder(OpFinished([T EXCEPT !.conn[k].ops = Tail(q)], k, Head(q)), k)

(* The destructor: every manager forgets the client.  It dies when a       *)
(* queue is not empty, or a manager's assertion fails.                     *)
Delete(S, k) ==
  [S EXCEPT !.mgr = [m \in Managers |-> Unregister(S.mgr[m], k)],
            !.conn[k].net =
               IF S.conn[k].syncs # <<>> \/ \E m \in Managers : UnregisterAborts(S.mgr[m], k)
               THEN "died" ELSE "gone"]

(* The end of a handler: a terminating connection without a request in     *)
(* flight is deleted.                                                      *)
DeleteIfDone(S, k) ==
  LET c == S.conn[k]
  IN  IF c.net = "closing" /\ c.run = {} /\ c.ops = <<>> THEN Delete(S, k) ELSE S

MarkDone(q, op) == [i \in DOMAIN q |-> IF q[i].seq = op.seq THEN [q[i] EXCEPT !.done = TRUE] ELSE q[i]]

(* EVENT_CMD_DONE in HandleRequest and in HandleTerminate.  A write that   *)
(* is done and waits for an earlier one gives its device buffers back.     *)
CmdDone(S, k, op) ==
  LET T == [S EXCEPT !.conn[k].run = @ \ {op}]
      U == AnswerInOrder([T EXCEPT !.conn[k].ops = MarkDone(@, op)], k)
      i == SelectInSeq(U.conn[k].ops, LAMBDA o : o.seq = op.seq)
  IN  IF ~IsDependingOpType(op) THEN OpFinished(Complete(T, k, op), k, op)
      ELSE IF i = 0 \/ U.conn[k].net # "good" THEN U
      ELSE [PutAndResetDevBufferManager(U, k, op, op.bytes)
              EXCEPT !.conn[k].ops[i].held = FALSE]

(* The end of HandleClientCmd: the request leaves mCurOp with the buffers  *)
(* it has, and is executed, or answered if it has failed already; a sync   *)
(* first waits for the write before it.                                    *)
Submit(S, k, curOp, n) ==
  LET op == [curOp EXCEPT !.bytes = n]
      T  == [S EXCEPT !.conn[k].cur = NoOp, !.conn[k].discard = FALSE]
      U  == IF IsDependingOpType(op) THEN [T EXCEPT !.conn[k].ops = Append(@, op)] ELSE T
  IN  IF op.kind = "sync" /\ T.conn[k].ops # <<>>
      THEN [T EXCEPT !.conn[k].syncs = Append(@, [after |-> Last(T.conn[k].ops).seq, op |-> op])]
      ELSE IF op.busy THEN CmdDone(U, k, op)
      ELSE [U EXCEPT !.conn[k].run = @ \cup {op}]

(* A payload that is received, to be executed or to be discarded.          *)
TakePayload(S, k, arrived) ==
  LET op == S.conn[k].cur
  IN  IF k \notin arrived THEN S
      ELSE IF S.conn[k].discard THEN Submit(S, k, [op EXCEPT !.busy = TRUE], 0)
      ELSE Submit(S, k, op, IF op.busy THEN 0 ELSE IoRequestBytes(op))

(* Mutant of FailIfExceedsWait: the request for the device is forgotten,   *)
(* not cancelled.                                                          *)
FailIfExceedsWaitLeavesRequest(S, k, op, mgrCli) ==
  LET T == PutAndResetDevBufferManager(S, k, op, S.mgr[All].want[k])
  IN  [T EXCEPT !.mgr[All] = CancelRequest(@, k), !.conn[k].devMgr = NoDev,
                !.conn[k].cur.busy = TRUE, !.conn[k].cur.held = FALSE]

(* FailIfExceedsWait: the read path passes the client of the device        *)
(* manager, the write path passes null, and then a wait for the device is  *)
(* neither cancelled nor forgotten.                                        *)
FailIfExceedsWait(S, k, op, mgrCli) ==
  LET d == S.conn[k].devMgr
      T == PutAndResetDevBufferManager(S, k, op, S.mgr[All].want[k])
  IN  IF d # NoDev /\ mgrCli
      THEN [S EXCEPT !.mgr[d] = CancelRequest(@, k), !.conn[k].devMgr = NoDev,
                     !.conn[k].cur.busy = TRUE]
      ELSE [T EXCEPT !.mgr[All] = CancelRequest(@, k),
                     !.conn[k].cur.busy = TRUE, !.conn[k].cur.held = FALSE,
                     !.conn[k].stray = @ \/ d # NoDev]

(* Append status inquiries that are alone on their connection take no      *)
(* buffer.                                                                 *)
FreePass(S, k, op, arrived) ==
  /\ op.kind = "status"
  /\ S.conn[k].run = {} /\ S.conn[k].ops = <<>>
  /\ S.mgr[All].bytes[k] = 0 /\ ~IsWaiting(S.mgr[All], k)
  /\ S.conn[k].out = 0 /\ k \notin arrived

(* Buffers for a request: from device d, if there is one, then from All.   *)
(* A denied request waits in mCurOp, or fails if that would take too long. *)
GetBuffers(S, k, op, d, exceeded, arrived) ==
  LET n     == IF FreePass(S, k, op, arrived) THEN 0 ELSE IoRequestBytes(op)
      disk  == ForDiskIo(op)
      devOk == d = NoDev \/ Grants(S.mgr[d], k, n, disk)
      dev   == IF d = NoDev THEN S.mgr ELSE [S.mgr EXCEPT ![d] = Get(@, k, n, disk)]
      ok    == devOk /\ Grants(dev[All], k, n, disk)
      T     == [S EXCEPT !.mgr = IF devOk THEN [dev EXCEPT ![All] = Get(@, k, n, disk)] ELSE dev,
                         !.conn[k].cur = op, !.conn[k].discard = FALSE,
                         !.conn[k].devMgr = IF devOk THEN NoDev ELSE d]
      F     == FailIfExceedsWait(T, k, op, op.kind = "read")
  IN  IF ok THEN IF HasPayload(op) THEN TakePayload(T, k, arrived) ELSE Submit(T, k, op, n)
      ELSE IF k \notin exceeded \/ op.kind \notin MaxWaitKinds THEN T
      ELSE IF HasPayload(op) THEN TakePayload([F EXCEPT !.conn[k].discard = TRUE], k, arrived)
      ELSE Submit(F, k, F.conn[k].cur, IF op.kind = "read" THEN 0 ELSE n)

(* The connection is closed and terminates.                                *)
Close(S, k) == DeleteIfDone([S EXCEPT !.conn[k].net = "closing"], k)

(* HandleClientCmd from where the content is in.  A request that failed    *)
(* already takes no buffers, one that is too large closes the connection   *)
(* if it has a payload.                                                    *)
Received(S, k, curOp, exceeded, arrived) ==
  LET op    == [curOp EXCEPT !.held = ~curOp.busy /\ curOp.dev # NoDev]
      large == ForDiskIo(op) /\ GetQuota(S, op.dev) < IoRequestBytes(op)
  IN  IF op.busy /\ HasPayload(op)
      THEN TakePayload([S EXCEPT !.conn[k].cur = op, !.conn[k].discard = TRUE,
                                 !.conn[k].devMgr = NoDev], k, arrived)
      ELSE IF op.busy THEN Submit(S, k, op, 0)
      ELSE IF large /\ HasPayload(op) THEN Close(S, k)
      ELSE IF large THEN Submit([S EXCEPT !.conn[k].devMgr = op.dev], k, [op EXCEPT !.busy = TRUE],
                                IoRequestBytes(op))
      ELSE GetBuffers(S, k, op, op.dev, exceeded, arrived)

(* The content of the request in mCurOp.  That of a request which failed   *)
(* while it waited for the content's buffers is not taken off the input.   *)
TakeContent(S, k, exceeded, arrived) ==
  LET c == S.conn[k]
  IN  IF k \notin arrived THEN S
      ELSE Received([S EXCEPT !.conn[k].cur = NoOp, !.conn[k].content = FALSE, !.conn[k].discard = FALSE,
                              !.conn[k].garbled = @ \/ (c.cur.busy /\ ~c.discard)],
                    k, c.cur, exceeded, {})

(* A request with a content that is not here yet takes buffers for it from *)
(* All, which nothing gives back before the connection goes.               *)
GetContent(S, k, op, exceeded, arrived) ==
  LET T == [S EXCEPT !.conn[k].cur = op, !.conn[k].content = TRUE, !.conn[k].discard = op.busy]
      U == [T EXCEPT !.mgr[All] = Get(@, k, op.head, FALSE)]
  IN  IF op.busy \/ k \in arrived THEN TakeContent(T, k, exceeded, arrived)
      ELSE IF Grants(T.mgr[All], k, op.head, FALSE) \/ k \notin exceeded \/ op.kind \notin MaxWaitKinds
      THEN [U EXCEPT !.conn[k].leak = @ + op.head]
      ELSE FailIfExceedsWait(U, k, op, FALSE)

(* HandleClientCmd for a request just received.                            *)
NewCmd(S, k, r, exceeded, arrived) ==
  LET op == [seq |-> S.conn[k].sent + 1, kind |-> r.kind, dev |-> r.dev, head |-> r.head,
             size |-> r.size, busy |-> r.bad, bytes |-> 0, held |-> FALSE, done |-> FALSE]
      T  == [S EXCEPT !.conn[k].sent = op.seq]
  IN  IF op.head > 0 THEN GetContent(T, k, op, exceeded, arrived)
      ELSE Received(T, k, op, exceeded, arrived)

(* HandleClientCmd for the request in mCurOp.                              *)
CurCmd(S, k, exceeded, arrived) ==
  LET c == S.conn[k]
  IN  IF c.content THEN TakeContent(S, k, exceeded, arrived)
      ELSE IF c.devMgr # NoDev THEN GetBuffers(S, k, c.cur, NoDev, exceeded, arrived)
      ELSE IF HasPayload(c.cur) THEN TakePayload(S, k, arrived)
      ELSE Submit(S, k, c.cur, IoRequestBytes(c.cur))

(* EVENT_NET_READ goes past the check for a spurious read.                 *)
Reads(S, k) ==
  LET c == S.conn[k]
  IN  c.net = "good" /\ ~IsWaiting(S.mgr[All], k) /\ (c.devMgr = NoDev \/ c.granted)

(* HandleGranted.                                                          *)
HandleGranted(S, k, exceeded, arrived) ==
  LET T == [S EXCEPT !.conn[k].granted = TRUE]
      U == [S EXCEPT !.conn[k].granted = FALSE]
  IN  IF S.conn[k].net # "good" THEN S
      ELSE IF ~Reads(T, k) THEN T
      ELSE IF U.conn[k].cur = NoOp THEN U
      ELSE CurCmd(U, k, exceeded, arrived)

RECURSIVE GrantAll(_, _, _, _)
GrantAll(S, m, exceeded, arrived) ==
  IF ~FrontCanGo(S.mgr[m]) THEN S
  ELSE GrantAll(HandleGranted([S EXCEPT !.mgr[m] = GrantFront(@)], Head(S.mgr[m].waitQ),
                              exceeded, arrived),
                m, exceeded, arrived)

(* EVENT_NET_ERROR and EVENT_INACTIVITY_TIMEOUT.                           *)
Fail(S, k) ==
  LET T == [S EXCEPT !.mgr[All] = Put(@, k, S.conn[k].out), !.conn[k].out = 0]
      d == S.conn[k].devMgr
      U == IF T.conn[k].cur = NoOp THEN T
           ELSE IF d # NoDev THEN [T EXCEPT !.mgr[d] = CancelRequest(@, k)]
           ELSE [PutAndResetDevBufferManager(T, k, T.conn[k].cur, T.mgr[All].want[k])
                   EXCEPT !.mgr[All] = CancelRequest(@, k)]
  IN  Close([U EXCEPT !.conn[k].cur = NoOp], k)

Becomes(S) == \E T \in {S} : mgr' = T.mgr /\ conn' = T.conn /\ UNCHANGED stalls

-----------------------------------------------------------------------------
(* The events.                                                             *)

Request(k, r) ==
  /\ Reads(State, k)
  /\ conn[k].cur = NoOp
  /\ MapThenSumSet(LAMBDA c : conn[c].sent, Clients) < MaxOps
  /\ \E exceeded, arrived \in SUBSET {k} :
       Becomes(IF conn[k].garbled THEN Close(State, k)
               ELSE NewCmd([State EXCEPT !.conn[k].granted = FALSE], k, r, exceeded, arrived))

Payload(k) ==
  /\ Reads(State, k)
  /\ conn[k].cur # NoOp
  /\ \E exceeded \in SUBSET {k} :
       Becomes(CurCmd([State EXCEPT !.conn[k].granted = FALSE], k, exceeded, {k}))

Done(k) == \E op \in conn[k].run : Becomes(DeleteIfDone(CmdDone(State, k, op), k))

(* EVENT_NET_WROTE: some of what is to be written has been sent.           *)
NetWrote(k) ==
  /\ conn[k].net = "good"
  /\ \E rem \in 0 .. conn[k].out - 1 :
       Becomes([State EXCEPT !.mgr[All] = Put(@, k, conn[k].out - rem), !.conn[k].out = rem])

NetError(k) == conn[k].net = "good" /\ Becomes(Fail(State, k))

Timeout(m) ==
  /\ FrontCanGo(mgr[m])
  /\ \E exceeded, arrived \in SUBSET Clients : Becomes(GrantAll(State, m, exceeded, arrived))

(* DiskIo's CheckIfOverloaded and the buffer pool's free count.            *)
Stall ==
  /\ stalls < MaxStalls
  /\ ~mgr[All].overloaded
  /\ ~mgr[All].low
  /\ \/ mgr' = [mgr EXCEPT ![All].overloaded = TRUE]
     \/ mgr' = [mgr EXCEPT ![All].low = TRUE]
  /\ stalls' = stalls + 1
  /\ UNCHANGED conn

Relieve ==
  /\ mgr[All].overloaded \/ mgr[All].low
  /\ mgr' = [mgr EXCEPT ![All].overloaded = FALSE, ![All].low = FALSE]
  /\ UNCHANGED <<conn, stalls>>

Next ==
  \/ \E k \in Clients :
       \/ \E r \in Requests[k] : Request(k, r)
       \/ Payload(k)
       \/ Done(k)
       \/ NetWrote(k)
       \/ NetError(k)
  \/ \E m \in Managers : Timeout(m)
  \/ Stall
  \/ Relieve

Spec == Init /\ [][Next]_vars

(* The disk completes what it was given; a client reads its replies and    *)
(* sends the payload it announced, or its connection times out; the        *)
(* managers' timers run; the overload passes.  As requests and stalls are  *)
(* bounded no behaviour takes infinitely many steps, and fairness of the   *)
(* disjunction is the fairness of each of them.                            *)
Progress ==
  \/ Relieve
  \/ \E k \in Clients :
       \/ conn[k].out > 0 /\ (NetWrote(k) \/ NetError(k))
       \/ Done(k)
       \/ conn[k].cur # NoOp /\ Reads(State, k) /\ (Payload(k) \/ NetError(k))
  \/ \E m \in Managers : Timeout(m)

CanProgress ==
  \/ mgr[All].overloaded \/ mgr[All].low
  \/ \E k \in Clients :
       \/ conn[k].net = "good" /\ conn[k].out > 0
       \/ conn[k].run # {}
       \/ conn[k].cur # NoOp /\ Reads(State, k)
  \/ \E m \in Managers : FrontCanGo(mgr[m])

FairSpec == Spec /\ ([]<>~CanProgress \/ []<><<Progress>>_vars)

-----------------------------------------------------------------------------
(* Properties.                                                             *)

Pending(k) == conn[k].run \cup ToSet(conn[k].ops) \cup {p.op : p \in ToSet(conn[k].syncs)}

(* The request in mCurOp has its buffers from m and waits for its payload, *)
(* or for the next manager.                                                *)
CurHas(k, m) ==
  LET c == conn[k]
  IN  /\ c.cur # NoOp
      /\ c.devMgr = NoDev
      /\ ~c.content /\ ~c.discard
      /\ IF m = All THEN ~IsWaiting(mgr[All], k) ELSE c.cur.held /\ c.cur.dev = m

InUse(k, m) ==
  LET mine == {op \in Pending(k) : m = All \/ (op.held /\ op.dev = m)}
  IN  MapThenSumSet(LAMBDA op : op.bytes, mine)
        + (IF CurHas(k, m) THEN IoRequestBytes(conn[k].cur) ELSE 0)
        + (IF m = All THEN conn[k].out ELSE 0)

(* Every manager's bytes are either remaining or some client's, no wait    *)
(* queue holds a client twice, and the connections are well formed.        *)
TypeOK ==
  /\ \A m \in Managers :
       /\ mgr[m].rem \in 0 .. mgr[m].total
       /\ mgr[m].rem + MapThenSumSet(LAMBDA k : mgr[m].bytes[k], Clients) = mgr[m].total
       /\ IsInjective(mgr[m].waitQ \o mgr[m].overQ)
       /\ \A k \in Clients : mgr[m].want[k] > 0 <=> IsWaiting(mgr[m], k)
  /\ \A k \in Clients :
       /\ conn[k].net \in {"good", "closing", "gone", "died"}
       /\ conn[k].devMgr \in Devs \cup {NoDev}
       /\ conn[k].sent \in 0 .. MaxOps

(* PutAndResetDevBufferManager returns "everything back to the device      *)
(* buffer manager" once a request is done with the disk, and SendResponse  *)
(* and EVENT_NET_WROTE the rest to the server's manager: what an open      *)
(* connection is charged with by any manager is in use by one of its       *)
(* requests or unsent replies.  The code keeps this but for two things:    *)
(* what was taken for contents stays with the connection, and so may what  *)
(* a write waits for at the device when it exceeds its maximum wait.       *)
BuffersReturned ==
  \A k \in Clients, m \in Managers :
     conn[k].net = "good" /\ ~conn[k].stray
       => mgr[m].bytes[k] <= InUse(k, m) + (IF m = All THEN conn[k].leak ELSE 0)

(* A write-sync waits in mPendingOps for the write before it, which is     *)
(* answered in order: when a sync runs every earlier write was answered.   *)
SyncAfterWrites ==
  \A k \in Clients : \A op \in conn[k].run :
     op.kind = "sync" => \A w \in ToSet(conn[k].ops) : w.seq > op.seq

(* The destructor finds its queues empty, and no manager's assertion fails *)
(* while it forgets the client: also when the connection breaks while its  *)
(* request waits, for a device, for All or over its quota.                 *)
NeverDies == TypeOK /\ \A k \in Clients : conn[k].net # "died"

(* A connection has buffers that nothing gives back: those it has taken    *)
(* for contents, and they leave too little for the request one of them is  *)
(* at, or those of a wait at the device that was not cancelled.            *)
LeakBlocks ==
  \E k \in Clients :
     LET n == IF conn[k].content THEN conn[k].cur.head ELSE IoRequestBytes(conn[k].cur)
     IN  \/ conn[k].stray
         \/ /\ conn[k].cur # NoOp
            /\ \/ mgr[All].quota < conn[k].leak + n
               \/ mgr[All].total < MapThenSumSet(LAMBDA j : conn[j].leak, Clients) + n

(* Everyone holding device buffers while waiting for the server's, or      *)
(* replies while waiting for more, does not stop everyone: the request a   *)
(* connection is at gets its buffers, fails, or goes with the connection,  *)
(* unless buffers that nothing gives back leave too little.                *)
RequestServed ==
  \A k \in Clients : conn[k].cur # NoOp ~> (conn[k].cur = NoOp \/ LeakBlocks)
=============================================================================
