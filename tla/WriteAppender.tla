---------------------------- MODULE WriteAppender ----------------------------
(***************************************************************************)
(* The client library's record appender (libclient/WriteAppender.cc): a    *)
(* queue of records that is appended to chunks of a file, one request at a *)
(* time, with retries, new chunks, and the recovery of the status of an    *)
(* append whose answer was lost.                                           *)
(*                                                                         *)
(* A handler runs to its end before the next event, and calls other        *)
(* handlers: each is an operator from a state S, the record of the         *)
(* appender and the append service, to the state it leaves, and each event *)
(* is an action.  `slow' stands for the clock: TRUE when the time to the   *)
(* next retry has not passed, so that the appender sleeps.                 *)
(*                                                                         *)
(* The chunk servers are one append service that gives what RecordAppend   *)
(* shows of them: an append is stored or not, at one point in time; an     *)
(* answer to it or to an inquiry is true for good; after an inquiry no     *)
(* append with the write id is accepted.                                   *)
(*                                                                         *)
(* The appender has a connection of its own, as all its users in the       *)
(* repository do.  Records are numbered in the order they are appended and *)
(* have length one.                                                        *)
(***************************************************************************)
EXTENDS Integers, Sequences, FiniteSets, FiniteSetsExt

CONSTANTS
  NumServers,            \* length of the replication chain
  MaxRetryCount,
  DefaultSpaceReservationSize,
  PreferredAppendSize,
  MinWriteQueueEntrySize,
  Thresholds,            \* values given to SetWriteThreshold
  PreAllocationFlag,
  MaxRecords,            \* bound: records appended
  MaxOpens,              \* bound: times the file is opened
  MaxDenied              \* bound: times a reservation is denied for space

(* The default reservation may be zero or less, which turns it off; what   *)
(* is preferred for one append is not negative, there is a server, and the *)
(* thresholds have a greatest, the one of a new appender.                  *)
ASSUME AppenderAssumption ==
  /\ NumServers \in Nat \ {0} /\ MaxRetryCount \in Nat
  /\ DefaultSpaceReservationSize \in Int /\ PreferredAppendSize \in Nat
  /\ MinWriteQueueEntrySize \in Int /\ MaxRecords \in Nat
  /\ Thresholds \subseteq Int /\ \E n \in Thresholds : \A m \in Thresholds : n >= m

VARIABLES
  a,        \* the appender
  srv,      \* the append service, for the current write id
  stored,   \* how many times each record is in the file
  late,     \* appends with earlier write ids that are not settled
  opens, denied

vars == <<a, srv, stored, late, opens, denied>>

(* The appender: first and size are the records in mBuffer, queue is       *)
(* mWriteQueue, cur mCurOpPtr, chunk whether mAllocOp.chunkId > 0, wid     *)
(* whether mWriteIds is not empty, lost is WasChunkServerDisconnected(),   *)
(* noSpace whether mSpaceReserveOp.status is -ENOSPC, ask its numBytes,    *)
(* index mGetRecordAppendOpStatusIndex, length mAppendLength; done is a    *)
(* ghost, the records reported as appended.                                *)
Closed ==
  [open |-> FALSE, closing |-> FALSE, error |-> FALSE, sleeping |-> FALSE,
   first |-> 1, size |-> 0, queue |-> <<>>, threshold |-> Max(Thresholds),
   cur |-> "none", chunk |-> FALSE, wid |-> FALSE, lost |-> FALSE,
   space |-> 0, noSpace |-> FALSE, ask |-> 0, retry |-> 0, restarts |-> 0,
   index |-> 1, length |-> 0, done |-> {}]

(* The service: the last append with the write id, whether the write id is *)
(* read only, and the space reserved for it.                               *)
NewWriteId == [op |-> "none", first |-> 0, length |-> 0, ro |-> FALSE, reserved |-> 0]

Init ==
  /\ a = Closed
  /\ srv = NewWriteId
  /\ stored = [r \in 1 .. MaxRecords |-> 0]
  /\ late = {}
  /\ opens = 0
  /\ denied = 0

State == [a |-> a, srv |-> srv]

Apply(S) == a' = S.a /\ srv' = S.srv

(* The file after an append of n records.                                  *)
Stored(first, n) ==
  [r \in DOMAIN stored |-> IF r \in first .. first + n - 1 THEN stored[r] + 1
                           ELSE stored[r]]

Enqueue(S, op) == [S EXCEPT !.a.cur = op]

(* Reset(): start over from chunk allocation.  What belongs to a request   *)
(* that is over, and is set again before it is used, is cleared.           *)
Reset(S) ==
  [S EXCEPT !.a.chunk = FALSE, !.a.wid = FALSE, !.a.space = 0,
            !.a.cur = "none", !.a.length = 0, !.a.ask = 0, !.a.index = 1]

CanAppend(S) ==
  /\ S.a.queue # <<>>
  /\ S.a.closing \/ S.a.size >= S.a.threshold

(***************************************************************************)
(* Space reservation and append.                                           *)
(***************************************************************************)
PrefixSum(q, k) ==
  LET sum[i \in 0 .. k] == IF i = 0 THEN 0 ELSE sum[i - 1] + q[i] IN sum[k]

(* How many entries of q, from the front, fit into n.                      *)
Fit(q, n) == Max({k \in 0 .. Len(q) : PrefixSum(q, k) <= n})

SpaceNeeded(S) ==
  IF S.a.queue # <<>> THEN Head(S.a.queue)
  ELSE IF S.a.space <= 0 /\ ~S.a.closing THEN DefaultSpaceReservationSize ELSE 0

(* The second half of ReserveSpace: the request is sent, with no bytes     *)
(* when it is only to check that the appender at the server is alive.      *)
SendReserve(S) ==
  LET least == IF S.a.closing THEN 0 ELSE DefaultSpaceReservationSize
      most  == Max({PreferredAppendSize, DefaultSpaceReservationSize})
      bytes == IF SpaceNeeded(S) <= S.a.space THEN 0
               ELSE Max({least, SpaceNeeded(S), Min({most, S.a.size})}) - S.a.space
  IN  Enqueue([S EXCEPT !.a.ask = bytes, !.a.noSpace = FALSE], "reserve")

(* Append: queue entries are joined while they fit into one append.        *)
SendAppend(S) ==
  LET whole == /\ PreferredAppendSize < S.a.size
               /\ S.a.size \div 2 < PreferredAppendSize
               /\ S.a.size - PreferredAppendSize >= S.a.threshold
      limit == Min({S.a.space, IF whole THEN S.a.size ELSE PreferredAppendSize})
      k     == Max({1, Fit(S.a.queue, limit)})
      n     == PrefixSum(S.a.queue, k)
  IN  Enqueue([S EXCEPT !.a.queue = <<n>> \o SubSeq(@, k + 1, Len(@)),
                        !.a.length = n,
                        !.srv.op = "sent", !.srv.first = S.a.first,
                        !.srv.length = n], "append")

(* idle: nothing was appended or reserved for a long time.                 *)
ReserveSpace(S, idle) ==
  IF SpaceNeeded(S) > S.a.space THEN SendReserve(S)
  ELSE IF ~CanAppend(S) THEN S
  ELSE IF idle THEN SendReserve(S) ELSE SendAppend(S)

SpaceReleaseOrClose(S) == Enqueue(S, IF S.a.space > 0 THEN "release" ELSE "close")

ReportCompletion(S) ==
  IF S.a.error THEN S ELSE [S EXCEPT !.a.retry = 0, !.a.restarts = 0]

AllocateChunk(S) ==
  Enqueue([S EXCEPT !.a.space = 0, !.a.noSpace = FALSE], "alloc")

StartAppend(S0, idle) ==
  LET S == [S0 EXCEPT !.a.cur = "none"]
  IN
  IF S0.a.sleeping \/ S0.a.error THEN S0
  ELSE IF S.a.closing /\ S.a.queue = <<>>
  THEN IF S.a.chunk /\ ~S.a.lost THEN SpaceReleaseOrClose(S)
       ELSE ReportCompletion([S EXCEPT !.a.closing = FALSE, !.a.open = FALSE,
                                       !.a.lost = TRUE])
  ELSE IF (DefaultSpaceReservationSize <= 0 \/ ~PreAllocationFlag) /\ ~CanAppend(S)
  THEN S
  ELSE IF S.a.chunk /\ S.a.lost
  THEN IF CanAppend(S) THEN AllocateChunk(Reset(S)) ELSE Reset(S)
  ELSE IF S.a.chunk /\ S.a.noSpace THEN SpaceReleaseOrClose(S)
  ELSE IF S.a.chunk /\ S.a.wid THEN ReserveSpace(S, idle)
  ELSE AllocateChunk(Reset(S))

(***************************************************************************)
(* Errors.                                                                 *)
(***************************************************************************)
GetLastRecordAppendOpStatus(S) == Enqueue(S, "status")

FatalError(S) ==
  [S EXCEPT !.a.error = TRUE, !.a.open = FALSE, !.a.closing = FALSE,
            !.a.cur = "none"]

Timeout(S0) ==
  LET S == [S0 EXCEPT !.a.sleeping = FALSE]
  IN  IF S.a.cur = "status" THEN GetLastRecordAppendOpStatus(S)
      ELSE StartAppend(S, FALSE)

(* The append may have been executed: find out before anything else.       *)
StartRecovery(S, status, slow) ==
  LET T == [S EXCEPT !.a.retry = @ + 1, !.a.index = 1]
  IN  IF status = "again" /\ slow
      THEN [T EXCEPT !.a.cur = "status", !.a.sleeping = TRUE]
      ELSE GetLastRecordAppendOpStatus(T)

(* Restart from chunk allocation.  The second failure of a write id, an    *)
(* append or a reservation asks for another chunk, by pretending that      *)
(* there was no space.                                                     *)
Retry(S, slow) ==
  LET restart == S.a.cur \in {"writeid", "append", "reserve"}
      n == IF restart THEN S.a.restarts + 1 ELSE S.a.restarts
      force == restart /\ n \in {2, 5, 15}
      T == Reset([S EXCEPT !.a.retry = @ + 1, !.a.restarts = n,
                           !.a.noSpace = @ \/ force])
  IN  IF slow /\ ~(restart /\ (force \/ n <= 1))
      THEN [T EXCEPT !.a.sleeping = TRUE] ELSE Timeout(T)

(* Mutant of HandleError: only a server that answers is asked for the      *)
(* status.                                                                 *)
HandleErrorResends(S, status, slow) ==
  IF S.a.retry >= MaxRetryCount THEN ReportCompletion(FatalError(S))
  ELSE IF S.a.cur = "append" /\ status = "again" THEN StartRecovery(S, status, slow)
  ELSE Retry(S, slow)

(* status of an append: "again" when the server does not know, "cut" when  *)
(* the connection broke with all data sent.                                *)
HandleError(S, status, slow) ==
  IF S.a.retry >= MaxRetryCount THEN ReportCompletion(FatalError(S))
  ELSE IF S.a.cur = "append" /\ status \in {"again", "cut"}
  THEN StartRecovery(S, status, slow)
  ELSE Retry(S, slow)

(***************************************************************************)
(* The user's calls.                                                       *)
(***************************************************************************)
Open ==
  /\ ~a.open /\ ~a.error /\ ~a.sleeping /\ opens < MaxOpens
  /\ opens' = opens + 1
  /\ Apply(StartAppend(ReportCompletion(
         [State EXCEPT !.a.open = TRUE, !.a.noSpace = FALSE]), FALSE))
  /\ UNCHANGED <<stored, late, denied>>

(* A short entry at the back of the queue takes the record in.             *)
AppendRecord(idle) ==
  LET q == a.queue
      S == [State EXCEPT !.a.size = @ + 1,
                         !.a.queue = IF q = <<>> \/ q[Len(q)] > MinWriteQueueEntrySize
                                     THEN q \o <<1>>
                                     ELSE [q EXCEPT ![Len(q)] = @ + 1]]
  IN  /\ a.open /\ ~a.closing
      /\ a.first + a.size <= MaxRecords
      /\ Apply(IF a.cur = "none" THEN StartAppend(S, idle) ELSE S)
      /\ UNCHANGED <<stored, late, opens, denied>>

(* Mutant of SetWriteThreshold: nothing is started.                        *)
SetWriteThresholdOnly(n, idle) ==
  /\ n # a.threshold
  /\ Apply([State EXCEPT !.a.threshold = n])
  /\ UNCHANGED <<stored, late, opens, denied>>

SetWriteThreshold(n, idle) ==
  LET S == [State EXCEPT !.a.threshold = n]
  IN  /\ n # a.threshold
      /\ Apply(IF n < a.threshold /\ a.cur = "none" /\ a.open /\ a.queue # <<>>
               THEN StartAppend(S, idle) ELSE S)
      /\ UNCHANGED <<stored, late, opens, denied>>

Close(idle) ==
  LET S == [State EXCEPT !.a.closing = TRUE]
  IN  /\ a.open /\ ~a.closing
      /\ Apply(IF a.cur = "none" THEN StartAppend(S, idle) ELSE S)
      /\ UNCHANGED <<stored, late, opens, denied>>

(* Everything that is pending is dropped.                                  *)
Shutdown ==
  /\ a.open \/ a.error
  /\ a' = [Reset(State).a EXCEPT !.open = FALSE, !.closing = FALSE,
               !.error = FALSE, !.sleeping = FALSE, !.queue = <<>>,
               !.first = @ + a.size, !.size = 0]
  /\ UNCHANGED <<srv, stored, late, opens, denied>>

(***************************************************************************)
(* Completions.  A request fails when the server says so, when it times    *)
(* out, or when the connection breaks.                                     *)
(***************************************************************************)
AllocDone(ok, slow) ==
  /\ a.cur = "alloc"
  /\ Apply(IF ok THEN Enqueue([State EXCEPT !.a.chunk = TRUE], "writeid")
           ELSE HandleError(State, "failed", slow))
  /\ UNCHANGED <<stored, late, opens, denied>>

(* A new write id; an append with the one before may still be on its way.  *)
WriteIdAllocDone(ok, slow) ==
  LET S == [a |-> [a EXCEPT !.wid = TRUE, !.lost = FALSE], srv |-> NewWriteId]
      T == ReserveSpace(S, FALSE)
  IN  /\ a.cur = "writeid"
      /\ Apply(IF ~ok THEN HandleError(State, "failed", slow)
               ELSE IF T = S THEN StartAppend(S, FALSE) ELSE T)
      /\ late' = IF ok /\ srv.op \in {"sent", "busy"}
                 THEN late \cup {[srv EXCEPT !.reserved = 0]} ELSE late
      /\ UNCHANGED <<stored, opens, denied>>

SpaceReserveDone(result, slow) ==
  LET S == [State EXCEPT !.a.space = @ + a.ask, !.a.ask = 0,
                         !.srv.reserved = @ + a.ask]
  IN  /\ a.cur = "reserve"
      /\ result = "denied" => denied < MaxDenied
      /\ Apply(CASE result = "ok" -> StartAppend(S, FALSE)
                 [] result = "denied" ->
                      SpaceReleaseOrClose([State EXCEPT !.a.noSpace = TRUE])
                 [] OTHER -> HandleError(State, "failed", slow))
      /\ denied' = IF result = "denied" THEN denied + 1 ELSE denied
      /\ UNCHANGED <<stored, late, opens>>

(* Mutant of SpaceReleaseDone: the released space is still counted on.     *)
SpaceReleaseKept(ok) ==
  LET S == [State EXCEPT !.srv.reserved = @ - a.space]
  IN  /\ a.cur = "release"
      /\ Apply(StartAppend(IF ok THEN S ELSE Reset(State), FALSE))
      /\ UNCHANGED <<stored, late, opens, denied>>

SpaceReleaseDone(ok) ==
  LET S == [State EXCEPT !.a.space = 0, !.srv.reserved = @ - a.space]
  IN  /\ a.cur = "release"
      /\ Apply(StartAppend(IF ok THEN S ELSE Reset(State), FALSE))
      /\ UNCHANGED <<stored, late, opens, denied>>

(* A failure to close is ignored.                                          *)
CloseDone ==
  /\ a.cur = "close"
  /\ Apply(StartAppend(Reset(State), FALSE))
  /\ UNCHANGED <<stored, late, opens, denied>>

(* Done(RecordAppendOp), with the status of the append or the one that was *)
(* recovered; in the second case the write id is not used any more.        *)
AppendCompleted(S, status, recovered, slow) ==
  LET k == Fit(S.a.queue, S.a.length)
      n == S.a.length - PrefixSum(S.a.queue, k)
      rest == SubSeq(S.a.queue, k + 1, Len(S.a.queue))
      T == ReportCompletion(
             [S EXCEPT !.a.first = @ + S.a.length, !.a.size = @ - S.a.length,
                       !.a.space = @ - S.a.length, !.a.length = 0,
                       !.a.done = @ \cup S.a.first .. S.a.first + S.a.length - 1,
                       !.a.queue = IF n = 0 THEN rest
                                   ELSE [rest EXCEPT ![1] = @ - n]])
  IN  IF status # "ok" THEN HandleError(S, status, slow)
      ELSE StartAppend(IF recovered THEN Reset(T) ELSE T, FALSE)

RecordAppendDone(slow) ==
  LET status == CASE srv.op = "ok" -> "ok"
                  [] srv.op \in {"busy", "bad"} -> "again"
                  [] OTHER -> "refused"
  IN  /\ a.cur = "append" /\ srv.op # "sent"
      /\ Apply(AppendCompleted(State, status, FALSE, slow))
      /\ UNCHANGED <<stored, late, opens, denied>>

(* The connection breaks, or the request times out.  What was not sent     *)
(* entirely does not arrive.                                               *)
RecordAppendCut(allSent, slow) ==
  LET S == [State EXCEPT !.a.lost = TRUE, !.srv.op = IF allSent THEN @ ELSE "none"]
  IN  /\ a.cur = "append"
      /\ allSent \/ srv.op = "sent"
      /\ Apply(HandleError(S, IF allSent THEN "cut" ELSE "failed", slow))
      /\ UNCHANGED <<stored, late, opens, denied>>

(* Mutant of NextServer: the rounds of inquiries are not counted.          *)
NextServerAround(S, slow) ==
  GetLastRecordAppendOpStatus([S EXCEPT !.a.index = (@ % NumServers) + 1])

(* The next server of the chain, or with none left another round.          *)
NextServer(S, slow) ==
  IF S.a.index < NumServers
  THEN GetLastRecordAppendOpStatus([S EXCEPT !.a.index = @ + 1])
  ELSE AppendCompleted([S EXCEPT !.a.cur = "append"], "again", TRUE, slow)

StatusFailed(slow) ==
  /\ a.cur = "status" /\ ~a.sleeping
  /\ Apply(NextServer(State, slow))
  /\ UNCHANGED <<stored, late, opens, denied>>

(* What the server at the index may answer: the status of the append, or   *)
(* "before" when the last one it has is the one before.  Slaves may not    *)
(* have heard of the outcome, or of the append.                            *)
StatusAnswers ==
  CASE srv.op \in {"none", "sent", "refused"} -> {"before"}
    [] srv.op = "busy" -> IF a.index = 1 THEN {"again"} ELSE {"again", "before"}
    [] srv.op = "bad"  -> {"again", "bad"} \cup IF a.index = 1 THEN {} ELSE {"before"}
    [] srv.op = "ok"   -> {"ok"} \cup IF a.index = 1 THEN {} ELSE {"again"}

(* GetOpStatus makes the write id read only; a slave that does not have    *)
(* the append will not take it.                                            *)
GetOpStatus(S, answer) ==
  [S EXCEPT !.srv.ro = TRUE, !.srv.reserved = 0,
            !.srv.op = IF @ = "busy" /\ answer = "before" THEN "bad" ELSE @]

(* The server answers for the last append of the write id or the one       *)
(* before it, and for the chunk version it was allocated with, so the      *)
(* exits for any other sequence number or version are not taken.           *)
GetStatusDone(answer, slow) ==
  LET S == GetOpStatus(State, answer)
      status == IF answer = "before" THEN "bad" ELSE answer
      T == [S EXCEPT !.a.retry = IF status # "again" /\ @ = MaxRetryCount /\ @ > 0
                                 THEN @ - 1 ELSE @,
                     !.a.cur = "append"]
  IN  /\ a.cur = "status" /\ ~a.sleeping
      /\ answer \in StatusAnswers
      /\ Apply(IF status = "again" /\ a.retry > 1 /\ a.index < NumServers
               THEN NextServer(S, slow)
               ELSE AppendCompleted(T, status, TRUE, slow))
      /\ UNCHANGED <<stored, late, opens, denied>>

SleepTimeout ==
  /\ a.sleeping
  /\ Apply(Timeout(State))
  /\ UNCHANGED <<stored, late, opens, denied>>

(* The idle connection is closed by either side; the server releases the   *)
(* space reserved over it.                                                 *)
Disconnect ==
  /\ a.chunk /\ a.wid /\ a.cur = "none" /\ ~a.lost
  /\ Apply([State EXCEPT !.a.lost = TRUE, !.srv.reserved = 0])
  /\ UNCHANGED <<stored, late, opens, denied>>

(***************************************************************************)
(* The append service.                                                     *)
(***************************************************************************)
(* AppendBegin.                                                            *)
AppendArrives ==
  /\ srv.op = "sent"
  /\ \/ /\ ~srv.ro /\ srv.length <= srv.reserved
        /\ srv' = [srv EXCEPT !.op = "busy", !.reserved = @ - srv.length]
     \/ srv' = [srv EXCEPT !.op = "refused"]
  /\ UNCHANGED <<a, stored, late, opens, denied>>

(* AppendCommit by all servers, or a failure of the replication.           *)
AppendSettles ==
  /\ srv.op = "busy"
  /\ \/ /\ srv' = [srv EXCEPT !.op = "ok"]
        /\ stored' = Stored(srv.first, srv.length)
     \/ /\ srv' = [srv EXCEPT !.op = "bad"]
        /\ UNCHANGED stored
  /\ UNCHANGED <<a, late, opens, denied>>

(* The same for an append whose write id the client has dropped.           *)
LateAppendSettles ==
  \E r \in late :
    /\ late' = late \ {r}
    /\ stored' \in {stored} \cup (IF r.op = "sent" /\ r.ro THEN {}
                                  ELSE {Stored(r.first, r.length)})
    /\ UNCHANGED <<a, srv, opens, denied>>

Completion ==
  \E slow \in BOOLEAN :
    \/ \E ok \in BOOLEAN : AllocDone(ok, slow) \/ WriteIdAllocDone(ok, slow)
    \/ \E r \in {"ok", "denied", "failed"} : SpaceReserveDone(r, slow)
    \/ RecordAppendDone(slow)
    \/ \E allSent \in BOOLEAN : RecordAppendCut(allSent, slow)
    \/ StatusFailed(slow)
    \/ \E ans \in {"ok", "bad", "again", "before"} : GetStatusDone(ans, slow)
    \/ \E ok \in BOOLEAN : SpaceReleaseDone(ok)
    \/ CloseDone

Next ==
  \/ Open \/ Shutdown
  \/ \E idle \in BOOLEAN : \/ AppendRecord(idle) \/ Close(idle)
                           \/ \E n \in Thresholds : SetWriteThreshold(n, idle)
  \/ Completion \/ SleepTimeout \/ Disconnect
  \/ AppendArrives \/ AppendSettles \/ LateAppendSettles

Spec == Init /\ [][Next]_vars

(* Every request completes: with an answer, a time out or a broken         *)
(* connection; and the timer fires.                                        *)
FairSpec == Spec /\ WF_vars(Completion) /\ WF_vars(SleepTimeout)

(***************************************************************************)
(* Properties.                                                             *)
(***************************************************************************)
TypeOK ==
  /\ a.cur \in {"none", "alloc", "writeid", "reserve", "append", "status",
                "release", "close"}
  /\ a.space \in Nat /\ a.ask \in Nat /\ srv.reserved \in Nat
  /\ a.retry \in 0 .. MaxRetryCount /\ a.index \in 1 .. NumServers
  /\ a.size = PrefixSum(a.queue, Len(a.queue))

\* No record is in the file twice, and the ones reported as appended are in it,
\* whatever answers are lost or late: HandleError asks for the status of an
\* append that may have been executed before the records are sent again with
\* another write id.
RecordsOnce ==
  \A r \in 1 .. MaxRecords : stored[r] \in (IF r \in a.done THEN {1} ELSE {0, 1})

\* The appender never counts on space that the chunk server does not hold for
\* it (the comment in StartAppend: "When chunk server disconnects it
\* automatically cleans up space reservation and write appenders"), and an
\* append under way has its records in the buffer and its space reserved (the
\* assertion in Done(RecordAppendOp)).
SpaceReserved ==
  /\ TypeOK
  /\ a.open /\ a.wid /\ ~a.lost /\ a.cur \notin {"append", "status"} =>
        a.space <= srv.reserved
  /\ a.cur \in {"append", "status"} => a.length \in 1 .. a.space /\ a.length <= a.size

\* Records that may be appended are never left without an operation or a timer
\* that will append them: no early return of StartAppend strands them.
PendingDriven ==
  a.open /\ a.cur = "none" /\ ~a.sleeping => ~CanAppend(State)

\* A closed appender stops, with its records written or with an error: no
\* failures, lost answers or rounds of inquiries keep Close waiting for ever.
CloseCompletes == a.closing ~> ~a.open
=============================================================================
