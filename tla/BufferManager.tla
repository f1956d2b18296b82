---------------------------- MODULE BufferManager ----------------------------
(***************************************************************************)
(* The io buffer accounting of a chunk server (chunk/BufferManager.cc):    *)
(* one manager for the whole server and one per storage device.  A manager *)
(* is a record, and each method of the class is an operator that returns   *)
(* the manager after the call.  Bytes are counted in units of one io       *)
(* buffer.  Statistics and the waiting time averages are left out.         *)
(***************************************************************************)
EXTENDS Integers, Sequences, SequencesExt, FiniteSetsExt

CONSTANT Clients

(* A manager as Init leaves it.  waitQ and overQ are the two wait queues:  *)
(* a client that waits is in one of them, in overQ when its request would  *)
(* take it over its quota (mOverQuotaWaitingFlag).                         *)
NewManager(total, quota) ==
  [total |-> total, quota |-> Min({total, quota}), rem |-> total,
   waitQ |-> <<>>, overQ |-> <<>>,
   bytes |-> [c \in Clients |-> 0], want |-> [c \in Clients |-> 0],
   overloaded |-> FALSE, low |-> FALSE]

IsWaiting(m, c) == c \in ToSet(m.waitQ) \cup ToSet(m.overQ)

IsOverQuota(m, c) == m.quota < m.bytes[c] + m.want[c]

(* A client keeps its place unless it changes queues.                      *)
ChangeOverQuotaWait(m, c, flag) ==
  IF flag = (c \in ToSet(m.overQ)) THEN m
  ELSE IF flag THEN [m EXCEPT !.waitQ = Remove(@, c), !.overQ = Append(@, c)]
  ELSE [m EXCEPT !.overQ = Remove(@, c), !.waitQ = Append(@, c)]

(* Mutant of Put: a client over its quota stays in the over quota queue.   *)
PutLeavesQueue(m, c, n) ==
  LET left == Max({0, m.bytes[c] - n})
  IN  IF n <= 0 THEN m
      ELSE [m EXCEPT !.rem = @ + m.bytes[c] - left, !.bytes[c] = left]

(* The negative half of Modify: more may be put back than the client has,  *)
(* the count then stops at zero.                                           *)
Put(m, c, n) ==
  LET left == Max({0, m.bytes[c] - n})
      p    == [m EXCEPT !.rem = @ + m.bytes[c] - left, !.bytes[c] = left]
  IN  IF n <= 0 THEN m
      ELSE IF c \in ToSet(m.overQ) THEN ChangeOverQuotaWait(p, c, IsOverQuota(p, c))
      ELSE p

Requested(m, c, n) == m.want[c] + m.bytes[c] + n

(* Whether a request is granted at once.  It need not wait behind the      *)
(* queue, but must leave something of what remains.                        *)
Grants(m, c, n, disk) ==
  \/ n <= 0
  \/ /\ ~IsWaiting(m, c)
     /\ ~(disk /\ m.overloaded)
     /\ ~m.low
     /\ Requested(m, c, n) < m.rem + m.bytes[c]
     /\ Requested(m, c, n) <= m.quota

(* The positive half of Modify: a request that is denied joins a queue, a  *)
(* client that already waits asks for more in the place it has.            *)
Get(m, c, n, disk) ==
  LET over   == m.quota < Requested(m, c, n)
      queued == IF IsWaiting(m, c) THEN ChangeOverQuotaWait(m, c, over)
                ELSE IF over THEN [m EXCEPT !.overQ = Append(@, c)]
                ELSE [m EXCEPT !.waitQ = Append(@, c)]
  IN  IF n <= 0 THEN m
      ELSE IF Grants(m, c, n, disk)
      THEN [m EXCEPT !.bytes[c] = @ + n, !.rem = @ - n]
      ELSE [queued EXCEPT !.want[c] = @ + n]

CancelRequest(m, c) ==
  [m EXCEPT !.waitQ = Remove(@, c), !.overQ = Remove(@, c), !.want[c] = 0]

Unregister(m, c) == Put(CancelRequest(m, c), c, m.bytes[c])

(* Unregister takes the client off the over quota queue and leaves the     *)
(* flag set, so that the Put that follows runs into Modify's QCRTASSERT.   *)
UnregisterAborts(m, c) == c \in ToSet(m.overQ) /\ m.bytes[c] > 0

(* The loop of Timeout: the front of the wait queue is granted as long as  *)
(* there is enough for it.                                                 *)
FrontCanGo(m) ==
  /\ ~m.overloaded
  /\ ~m.low
  /\ m.waitQ # <<>>
  /\ m.want[Head(m.waitQ)] <= m.rem

GrantFront(m) ==
  LET c == Head(m.waitQ)
  IN  [m EXCEPT !.waitQ = Tail(@), !.rem = @ - m.want[c],
                !.bytes[c] = @ + m.want[c], !.want[c] = 0]
=============================================================================
