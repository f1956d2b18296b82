----------------------- MODULE DistributedRepairProofs -----------------------
(***************************************************************************)
(* Proofs about DistributedRepair, for each of the four plans of the meta  *)
(* server, any number of failures, and any timing: the plans are trees,    *)
(* the queues of the servers account for every request, and the            *)
(* destination waits for all the answers to its own requests.              *)
(***************************************************************************)
EXTENDS DistributedRepair, TLAPS

-----------------------------------------------------------------------------
(* The plans *)

\* Every source sends to one server, and to one with a higher key, or to the
\* destination.
IsTree(n, plan) ==
    /\ \A o \in plan : o[1] \in 0..n /\ o[3] \in 1..n /\ (o[1] = Dst \/ o[3] < o[1])
    /\ \A c \in 1..n : \E o \in plan : o[3] = c
    /\ \A o, p \in plan : o[3] = p[3] => o[1] = p[1]

\* The plan for 6 sources is a tree.
LEMMA Plan6Tree == IsTree(6, Plan6)
<1>1. \A o : o \in FirstRound(6) <=>
           o \in {<<2, 1, 1>>, <<4, 1, 3>>, <<6, 1, 5>>}
  <2>1. {j \in 1..6 : j % 2 = 0} = {2, 4, 6}
    OBVIOUS
  <2> QED  BY <2>1 DEF FirstRound
<1>2. \A o : o \in Plan6 <=>
           o \in {<<2, 1, 1>>, <<4, 1, 3>>, <<6, 1, 5>>, <<4, 2, 2>>, <<0, 2, 6>>,
                 <<0, 3, 4>>}
  BY <1>1 DEF Plan6, Dst
<1>3. \A c \in 1..6 : \E o \in Plan6 : o[3] = c
  <2>1. \A x, y, z : <<x, y, z>> \in Plan6 => \E o \in Plan6 : o[3] = z
    OBVIOUS
  <2>2. {<<2, 1, 1>>, <<4, 2, 2>>, <<4, 1, 3>>, <<0, 3, 4>>, <<6, 1, 5>>,
         <<0, 2, 6>>}
          \subseteq Plan6
    BY <1>2
  <2> QED  BY <2>1, <2>2
<1> QED  BY <1>2, <1>3 DEF IsTree, Dst

\* The plan for 8 sources is a tree.
LEMMA Plan8Tree == IsTree(8, Plan8)
<1>1. \A o : o \in FirstRound(8) <=>
           o \in {<<2, 1, 1>>, <<4, 1, 3>>, <<6, 1, 5>>, <<8, 1, 7>>}
  <2>1. {j \in 1..8 : j % 2 = 0} = {2, 4, 6, 8}
    OBVIOUS
  <2> QED  BY <2>1 DEF FirstRound
<1>2. \A o : o \in Plan8 <=>
           o \in {<<2, 1, 1>>, <<4, 1, 3>>, <<6, 1, 5>>, <<8, 1, 7>>, <<4, 2, 2>>,
                 <<8, 2, 6>>, <<8, 3, 4>>, <<0, 4, 8>>}
  BY <1>1 DEF Plan8, Dst
<1>3. \A c \in 1..8 : \E o \in Plan8 : o[3] = c
  <2>1. \A x, y, z : <<x, y, z>> \in Plan8 => \E o \in Plan8 : o[3] = z
    OBVIOUS
  <2>2. {<<2, 1, 1>>, <<4, 2, 2>>, <<4, 1, 3>>, <<8, 3, 4>>, <<6, 1, 5>>,
         <<8, 2, 6>>, <<8, 1, 7>>, <<0, 4, 8>>}
          \subseteq Plan8
    BY <1>2
  <2> QED  BY <2>1, <2>2
<1> QED  BY <1>2, <1>3 DEF IsTree, Dst

\* The plan for 10 sources is a tree.
LEMMA Plan10Tree == IsTree(10, Plan10)
<1>1. \A o : o \in FirstRound(10) <=>
           o \in {<<2, 1, 1>>, <<4, 1, 3>>, <<6, 1, 5>>, <<8, 1, 7>>, <<10, 1, 9>>}
  <2>1. {j \in 1..10 : j % 2 = 0} = {2, 4, 6, 8, 10}
    OBVIOUS
  <2> QED  BY <2>1 DEF FirstRound
<1>2. \A o : o \in Plan10 <=>
           o \in {<<2, 1, 1>>, <<4, 1, 3>>, <<6, 1, 5>>, <<8, 1, 7>>, <<10, 1, 9>>,
                 <<4, 2, 2>>, <<8, 2, 6>>, <<0, 2, 10>>, <<0, 3, 4>>, <<0, 4, 8>>}
  BY <1>1 DEF Plan10, Dst
<1>3. \A c \in 1..10 : \E o \in Plan10 : o[3] = c
  <2>1. \A x, y, z : <<x, y, z>> \in Plan10 => \E o \in Plan10 : o[3] = z
    OBVIOUS
  <2>2. {<<2, 1, 1>>, <<4, 2, 2>>, <<4, 1, 3>>, <<0, 3, 4>>, <<6, 1, 5>>,
         <<8, 2, 6>>, <<8, 1, 7>>, <<0, 4, 8>>, <<10, 1, 9>>, <<0, 2, 10>>}
          \subseteq Plan10
    BY <1>2
  <2> QED  BY <2>1, <2>2
<1> QED  BY <1>2, <1>3 DEF IsTree, Dst

\* The plan for 12 sources is a tree.
LEMMA Plan12Tree == IsTree(12, Plan12)
<1>1. \A o : o \in FirstRound(12) <=>
           o \in {<<2, 1, 1>>, <<4, 1, 3>>, <<6, 1, 5>>, <<8, 1, 7>>, <<10, 1, 9>>,
                 <<12, 1, 11>>}
  <2>1. {j \in 1..12 : j % 2 = 0} = {2, 4, 6, 8, 10, 12}
    OBVIOUS
  <2> QED  BY <2>1 DEF FirstRound
<1>2. \A o : o \in Plan12 <=>
           o \in {<<2, 1, 1>>, <<4, 1, 3>>, <<6, 1, 5>>, <<8, 1, 7>>, <<10, 1, 9>>,
                 <<12, 1, 11>>, <<4, 2, 2>>, <<8, 2, 6>>, <<12, 2, 10>>, <<0, 3, 12>>,
                 <<8, 3, 4>>, <<0, 4, 8>>}
  BY <1>1 DEF Plan12, Dst
<1>3. \A c \in 1..12 : \E o \in Plan12 : o[3] = c
  <2>1. \A x, y, z : <<x, y, z>> \in Plan12 => \E o \in Plan12 : o[3] = z
    OBVIOUS
  <2>2. {<<2, 1, 1>>, <<4, 2, 2>>, <<4, 1, 3>>, <<8, 3, 4>>, <<6, 1, 5>>,
         <<8, 2, 6>>, <<8, 1, 7>>, <<0, 4, 8>>, <<10, 1, 9>>, <<12, 2, 10>>,
         <<12, 1, 11>>, <<0, 3, 12>>}
          \subseteq Plan12
    BY <1>2
  <2> QED  BY <2>1, <2>2
<1> QED  BY <1>2, <1>3 DEF IsTree, Dst

\* The plan in use is a tree.
LEMMA PlanIsTree == IsTree(N, Plan(N))
BY RepairAssumption, Plan6Tree, Plan8Tree, Plan10Tree, Plan12Tree DEF Plan

\* Askers and lists of the plan.
LEMMA PlanFacts ==
    /\ Dst \in Nodes /\ Sources \subseteq Nodes /\ Dst \notin Sources
    /\ Peers \in [Nodes -> SUBSET Sources]
    /\ \A c \in Sources : Asker[c] \in Nodes /\ c \in Peers[Asker[c]]
    /\ \A s \in Nodes : \A c \in Peers[s] : s = Asker[c]
<1>1. N \in Nat
  BY RepairAssumption
<1>2. Dst \in Nodes /\ Sources \subseteq Nodes /\ Dst \notin Sources
  BY <1>1 DEF Dst, Nodes, Sources
<1>3. Peers \in [Nodes -> SUBSET Sources]
  BY PlanIsTree DEF IsTree, Peers, List, Nodes, Sources
<1>4. ASSUME NEW c \in Sources
      PROVE  \E s \in Nodes : c \in Peers[s]
  <2>1. PICK o \in Plan(N) : o[3] = c
    BY PlanIsTree DEF IsTree, Sources
  <2>2. o[1] \in Nodes
    BY PlanIsTree DEF IsTree, Nodes
  <2>3. c \in Peers[o[1]]
    BY <2>1, <2>2 DEF Peers, List
  <2> QED  BY <2>2, <2>3
<1>5. \A c \in Sources : Asker[c] \in Nodes /\ c \in Peers[Asker[c]]
  BY <1>4 DEF Asker
<1>6. ASSUME NEW c \in Sources, NEW s \in Nodes, NEW t \in Nodes, c \in Peers[s], c \in Peers[t]
      PROVE  s = t
  <2>1. PICK o \in Plan(N) : o[1] = s /\ o[3] = c
    BY <1>6 DEF Peers, List
  <2>2. PICK p \in Plan(N) : p[1] = t /\ p[3] = c
    BY <1>6 DEF Peers, List
  <2> QED  BY <2>1, <2>2, PlanIsTree DEF IsTree
<1> QED  BY <1>2, <1>3, <1>5, <1>6

\* Only receivers ask, and a list cut short is a part of the list.
LEMMA ListFacts ==
    /\ Receivers \subseteq Nodes
    /\ \A s \in Nodes : s \notin Receivers => Peers[s] = {}
    /\ \A s \in Nodes : \A t : PeersBefore(s, t) \subseteq Peers[s]
<1>1. Receivers \subseteq Nodes
  BY PlanIsTree DEF IsTree, Receivers, Nodes
<1>2. \A s \in Nodes : s \notin Receivers => Peers[s] = {}
  BY DEF Receivers, Peers, List
<1>3. \A s \in Nodes : \A t : PeersBefore(s, t) \subseteq Peers[s]
  BY DEF Peers, PeersBefore, List
<1> QED  BY <1>1, <1>2, <1>3

-----------------------------------------------------------------------------
(* The inductive invariant *)

\* The request to c is in the queue of its asker, without data.
Waits(c) == c \in down[Asker[c]] /\ c \notin got[Asker[c]]

\* The request to c is on its way, queued at c, answered, or lost.
Placed(c) == c \in asks \/ c \in up \/ c \in answers \/ c \in lost

\* It is in one of these places.
OnePlace(c) ==
    /\ c \in asks => c \notin up /\ c \notin answers /\ c \notin lost
    /\ c \in up => c \notin answers /\ c \notin lost
    /\ c \in answers => c \notin lost

\* Requests wait in the queue of their asker exactly while they are somewhere.
Requests == \A c \in Sources : (Waits(c) <=> Placed(c)) /\ OnePlace(c)

\* Queues hold requests of the server's own list, and data only while the server
\* is asked itself; one that has all it needs has answered.
Queues ==
    /\ \A s \in Nodes : got[s] \subseteq down[s] /\ down[s] \subseteq Peers[s]
    /\ \A s \in Nodes : s \notin up => got[s] = {}
    /\ \A s \in up : read[s] = "done" => down[s] # got[s]

\* The lists go out once, and a server asks nobody before it has its list.
ListsOnce ==
    /\ repl = "check" => lists = {} /\ inflight = {}
    /\ \A s \in Nodes : repl = "check" \/ s \in lists => down[s] = {}
    /\ (\E w \in written : w.at = Dst) =>
          repl # "check" /\ Dst \notin lists /\ down[Dst] = {}

Inv == TypeOK /\ Requests /\ Queues /\ ListsOnce

\* What a request's asker is, where the request of a peer is looked for.
LEMMA AskerOfPeer ==
    ASSUME NEW s \in Nodes, NEW c \in Peers[s]
    PROVE  c \in Sources /\ Asker[c] = s
BY PlanFacts

\* No server asks itself.
LEMMA AskerDiffers ==
    ASSUME NEW c \in Sources
    PROVE  Asker[c] # c
<1>1. Asker[c] \in Nodes /\ c \in Peers[Asker[c]]
  BY PlanFacts
<1>2. PICK o \in Plan(N) : o[1] = Asker[c] /\ o[3] = c
  BY <1>1 DEF Peers, List
<1> QED  BY <1>1, <1>2, PlanIsTree, RepairAssumption DEF IsTree, Nodes, Sources, Dst

-----------------------------------------------------------------------------
(* The steps *)

\* The meta server's scan, and the end of its requests, touch no queue.
LEMMA MetaStep ==
    ASSUME Inv, ChunkReplicationChecker \/ RepairRequestDone
    PROVE  Inv'
<1> USE PlanFacts
<1>1. CASE ChunkReplicationChecker
  <2>1. /\ UNCHANGED <<asks, answers, up, down, got, read, written, lost, faults>>
        /\ repl' \in {"noDestination", "pending"}
        /\ inflight' \subseteq Receivers /\ lists' \subseteq Receivers
        /\ lists' = lists \/ repl = "check"
    BY <1>1 DEF Inv, TypeOK, ChunkReplicationChecker, HandoutChunkReplicationWork, queue
  <2>2. TypeOK'
    BY <2>1 DEF Inv, TypeOK
  <2>3. Requests' /\ Queues'
    BY <2>1 DEF Inv, Requests, Queues, Waits, Placed, OnePlace
  <2>4. ListsOnce'
    BY <2>1 DEF Inv, ListsOnce
  <2> QED  BY <2>2, <2>3, <2>4 DEF Inv
<1>2. CASE RepairRequestDone
  <2>1. /\ UNCHANGED <<repl, lists, asks, answers, up, down, got, read, written, lost, faults>>
        /\ inflight' \subseteq inflight
    BY <1>2 DEF RepairRequestDone, wires, queue
  <2>2. TypeOK'
    BY <2>1 DEF Inv, TypeOK
  <2>3. Requests' /\ Queues'
    BY <2>1 DEF Inv, Requests, Queues, Waits, Placed, OnePlace
  <2>4. ListsOnce'
    BY <2>1 DEF Inv, ListsOnce
  <2> QED  BY <2>2, <2>3, <2>4 DEF Inv
<1> QED  BY <1>1, <1>2

\* A server gets its list and asks peers on it that nobody has asked before
\* (DistributedRepairChunkOp::Execute).
LEMMA ListStep ==
    ASSUME Inv, NEW s \in Nodes, DistributedRepair(s)
    PROVE  Inv'
<1> USE PlanFacts
<1>1. PICK peers \in SUBSET Peers[s] : Ask(s, peers)
  BY ListFacts DEF DistributedRepair
<1>2. /\ s \in lists /\ lists' = lists \ {s} /\ faults' \in 0..MaxFaults
      /\ asks' = asks \cup peers /\ down' = [down EXCEPT ![s] = @ \cup peers]
      /\ UNCHANGED <<repl, inflight, answers, up, got, read, written, lost>>
  BY <1>1, RepairAssumption DEF DistributedRepair, Ask, meta, Inv, TypeOK
<1>3. down[s] = {} /\ got[s] = {} /\ repl # "check"
  BY <1>2 DEF Inv, ListsOnce, Queues
<1>4. /\ down'[s] = peers
      /\ \A r \in Nodes : r # s => down'[r] = down[r]
  BY <1>2, <1>3 DEF Inv, TypeOK
<1>5. TypeOK'
  <2>1. peers \subseteq Sources
    BY <1>1
  <2> QED  BY <1>2, <2>1 DEF Inv, TypeOK
<1>6. Requests'
  <2> SUFFICES ASSUME NEW c \in Sources
               PROVE  (Waits(c) <=> Placed(c))' /\ OnePlace(c)'
    BY DEF Requests
  <2>0. (Waits(c) <=> Placed(c)) /\ OnePlace(c)
    BY DEF Inv, Requests
  <2>1. CASE Asker[c] = s
    <3>1. ~Placed(c)
      BY <2>0, <2>1, <1>3 DEF Waits
    <3> QED  BY <2>1, <3>1, <1>2, <1>3, <1>4 DEF Waits, Placed, OnePlace
  <2>2. CASE Asker[c] # s
    <3>1. c \notin peers
      BY <2>2, <1>1, AskerOfPeer
    <3> QED  BY <2>0, <2>2, <3>1, <1>2, <1>4 DEF Waits, Placed, OnePlace
  <2> QED  BY <2>1, <2>2
<1>7. Queues'
  BY <1>1, <1>2, <1>3, <1>4 DEF Inv, Queues
<1>8. ListsOnce'
  BY <1>2, <1>3, <1>4 DEF Inv, ListsOnce
<1> QED  BY <1>5, <1>6, <1>7, <1>8 DEF Inv

\* A request is registered at its peer and the read started
\* (ReadForPartialDecodeOp::Execute).
LEMMA RegisterStep ==
    ASSUME Inv, NEW s \in Nodes, ReadForPartialDecode(s)
    PROVE  Inv'
<1> USE PlanFacts
<1>1. /\ s \in asks /\ s \in Sources /\ asks' = asks \ {s} /\ up' = up \cup {s}
      /\ read' = [read EXCEPT ![s] = "reading"]
      /\ UNCHANGED <<repl, inflight, lists, answers, down, got, written, lost, faults>>
  BY DEF ReadForPartialDecode, meta, Inv, TypeOK
<1>2. TypeOK'
  BY <1>1 DEF Inv, TypeOK
<1>3. Requests'
  BY <1>1 DEF Inv, Requests, Waits, Placed, OnePlace
<1>4. Queues'
  BY <1>1 DEF Inv, TypeOK, Queues
<1>5. ListsOnce'
  BY <1>1 DEF Inv, ListsOnce
<1> QED  BY <1>2, <1>3, <1>4, <1>5 DEF Inv

\* A read error leaves the queues alone (ReadOp::HandleDone).
LEMMA ErrorStep ==
    ASSUME Inv, NEW s \in Nodes, DiskError(s)
    PROVE  Inv'
<1> USE PlanFacts
<1>1. /\ read' = [read EXCEPT ![s] = "failed"] /\ faults' \in 0..MaxFaults
      /\ UNCHANGED <<repl, inflight, lists, asks, answers, up, down, got, written, lost>>
  BY RepairAssumption DEF DiskError, meta, wires, queue, Inv, TypeOK
<1>2. TypeOK'
  BY <1>1 DEF Inv, TypeOK
<1>3. Requests' /\ ListsOnce'
  BY <1>1 DEF Inv, Requests, Waits, Placed, OnePlace, ListsOnce
<1>4. Queues'
  BY <1>1 DEF Inv, TypeOK, Queues
<1> QED  BY <1>2, <1>3, <1>4 DEF Inv

\* A request or an answer is lost.
LEMMA LossStep ==
    ASSUME Inv, AskLost
    PROVE  Inv'
<1> USE PlanFacts
<1>1. PICK c \in asks \cup answers :
         /\ asks' = asks \ {c} /\ answers' = answers \ {c} /\ lost' = lost \cup {c}
  BY DEF AskLost
<1>2. /\ c \in Sources /\ faults' \in 0..MaxFaults
      /\ UNCHANGED <<repl, inflight, lists, up, down, got, read, written>>
  BY RepairAssumption DEF AskLost, meta, queue, Inv, TypeOK
<1>3. TypeOK'
  BY <1>1, <1>2 DEF Inv, TypeOK
<1>4. Requests'
  BY <1>1, <1>2 DEF Inv, Requests, Waits, Placed, OnePlace
<1>5. Queues' /\ ListsOnce'
  BY <1>2 DEF Inv, Queues, ListsOnce
<1> QED  BY <1>3, <1>4, <1>5 DEF Inv

\* Draining a complete queue forgets no request that is somewhere: the only ones
\* without data are those whose answers, `gone', are taken off the wires.
LEMMA DrainStep ==
    ASSUME Inv, NEW s \in Sources, s \in up, NEW gone \in SUBSET Sources,
           Drain(s, answers \ gone), gone \subseteq answers,
           \A c \in gone : Asker[c] = s, down[s] \subseteq got[s] \cup gone,
           read' = read \/ read' = [read EXCEPT ![s] = "done"],
           UNCHANGED <<repl, inflight, lists, asks, written, lost, faults>>
    PROVE  Inv'
<1> USE PlanFacts
<1>1. /\ answers' = (answers \ gone) \cup {s} /\ up' = up \ {s}
      /\ down' = [down EXCEPT ![s] = {}] /\ got' = [got EXCEPT ![s] = {}]
  BY DEF Drain
<1>2. /\ down'[s] = {} /\ got'[s] = {}
      /\ \A r \in Nodes : r # s => down'[r] = down[r] /\ got'[r] = got[r]
  BY <1>1 DEF Inv, TypeOK
<1>3. TypeOK'
  BY <1>1 DEF Inv, TypeOK
<1>4. Requests'
  <2> SUFFICES ASSUME NEW c \in Sources
               PROVE  (Waits(c) <=> Placed(c))' /\ OnePlace(c)'
    BY DEF Requests
  <2>0. (Waits(c) <=> Placed(c)) /\ OnePlace(c)
    BY DEF Inv, Requests
  <2>1. CASE Asker[c] = s
    <3>1. c # s
      BY <2>1, AskerDiffers
    <3>2. Placed(c) => c \in gone
      BY <2>0, <2>1 DEF Waits
    <3>3. ~Placed(c)'
      BY <2>0, <3>1, <3>2, <1>1 DEF Placed, OnePlace
    <3> QED  BY <2>1, <3>3, <1>2 DEF Waits, Placed, OnePlace
  <2>2. CASE Asker[c] # s
    <3>1. c \notin gone
      BY <2>2
    <3> QED  BY <2>0, <2>2, <3>1, <1>1, <1>2 DEF Waits, Placed, OnePlace
  <2> QED  BY <2>1, <2>2
<1>5. Queues'
  BY <1>1, <1>2 DEF Inv, TypeOK, Queues
<1>6. ListsOnce'
  BY <1>2 DEF Inv, ListsOnce
<1> QED  BY <1>3, <1>4, <1>5, <1>6 DEF Inv

\* A read is done: a server that has all it needs answers (ReadOp::HandleDone).
LEMMA ReadStep ==
    ASSUME Inv, NEW s \in Nodes, DiskReadDone(s)
    PROVE  Inv'
<1> USE PlanFacts
<1>1. /\ read' = [read EXCEPT ![s] = "done"]
      /\ UNCHANGED <<repl, inflight, lists, asks, written, lost, faults>>
  BY DEF DiskReadDone, meta
<1>2. CASE s \in up /\ AllBuffersReady(s, got[s])
  <2>0. PICK gone \in SUBSET Sources : gone = {}
    OBVIOUS
  <2>1. /\ Drain(s, answers \ gone) /\ s \in Sources /\ s \in up
        /\ gone \subseteq answers /\ down[s] \subseteq got[s] \cup gone
        /\ \A d \in gone : Asker[d] = s
    <3>1. answers \ gone = answers
      BY <2>0
    <3> QED  BY <1>2, <2>0, <3>1 DEF DiskReadDone, AllBuffersReady, Inv, TypeOK
  <2>2. read' = read \/ read' = [read EXCEPT ![s] = "done"]
    BY <1>1
  <2> QED  BY <1>1, <2>1, <2>2, DrainStep, Zenon
<1>3. CASE ~(s \in up /\ AllBuffersReady(s, got[s]))
  <2>1. UNCHANGED <<answers, up, down, got>>
    BY <1>3 DEF DiskReadDone, queue
  <2>2. TypeOK'
    BY <1>1, <2>1 DEF Inv, TypeOK
  <2>3. Requests' /\ ListsOnce'
    BY <1>1, <2>1 DEF Inv, Requests, Waits, Placed, OnePlace, ListsOnce
  <2>4. Queues'
    BY <1>1, <1>3, <2>1 DEF Inv, TypeOK, Queues, AllBuffersReady
  <2> QED  BY <2>2, <2>3, <2>4 DEF Inv
<1> QED  BY <1>2, <1>3

\* An answer arrives at a server that is asked itself, or at one that takes
\* itself for the destination (SendChunkForDistributedRepairOp::HandleDone).
LEMMA AnswerStep ==
    ASSUME Inv, AnswerArrives
    PROVE  Inv'
<1> USE PlanFacts
<1>0. PICK c \in answers : HandleDone(c)
  BY DEF AnswerArrives
<1>1. PICK s \in Nodes : s = Asker[c]
  BY DEF Inv, TypeOK
<1>2. /\ c \in Sources /\ c \in down[s] /\ c \notin got[s] /\ c \notin asks
      /\ c \notin up /\ c \notin lost
  BY <1>1 DEF Inv, TypeOK, Requests, Waits, Placed, OnePlace
<1>3. UNCHANGED <<repl, inflight, lists, asks, read, lost, faults>>
  BY DEF AnswerArrives, meta
<1>4. repl # "check" /\ s \notin lists
  BY <1>2 DEF Inv, ListsOnce
<1>5. CASE s \in up /\ AllBuffersReady(s, got[s] \cup {c})
  <2>0. PICK gone \in SUBSET Sources : gone = {c}
    <3>1. {c} \in SUBSET Sources
      BY <1>2
    <3> QED  BY <3>1, Zenon
  <2>1. Drain(s, answers \ gone) /\ s \in Sources /\ s \in up
    <3>1. UpstreamNotified(s, c)
      BY <1>0, <1>1, <1>5 DEF HandleDone
    <3>2. Drain(s, answers \ {c})
      BY <1>5, <3>1, Zenon DEF UpstreamNotified
    <3> QED  BY <1>5, <2>0, <3>2, Zenon DEF Inv, TypeOK
  <2>2. /\ gone \subseteq answers /\ down[s] \subseteq got[s] \cup gone
        /\ \A d \in gone : Asker[d] = s
    BY <1>1, <1>5, <2>0 DEF AllBuffersReady
  <2>3. UNCHANGED <<repl, inflight, lists, asks, written, lost, faults>>
    BY <1>0, <1>1, <1>3, <1>5 DEF HandleDone
  <2>4. read' = read \/ read' = [read EXCEPT ![s] = "done"]
    BY <1>3
  <2> QED  BY <2>1, <2>2, <2>3, <2>4, DrainStep, Zenon
<1>6. CASE s \in up /\ ~AllBuffersReady(s, got[s] \cup {c})
  <2>1. /\ got' = [got EXCEPT ![s] = @ \cup {c}] /\ answers' = answers \ {c}
        /\ UNCHANGED <<up, down, written>>
    BY <1>0, <1>1, <1>6 DEF HandleDone, UpstreamNotified
  <2>2. /\ got'[s] = got[s] \cup {c} /\ \A r \in Nodes : r # s => got'[r] = got[r]
    BY <2>1 DEF Inv, TypeOK
  <2>3. TypeOK'
    BY <1>2, <1>3, <2>1 DEF Inv, TypeOK
  <2>4. Requests'
    <3> SUFFICES ASSUME NEW d \in Sources
                 PROVE  (Waits(d) <=> Placed(d))' /\ OnePlace(d)'
      BY DEF Requests
    <3>0. (Waits(d) <=> Placed(d)) /\ OnePlace(d)
      BY DEF Inv, Requests
    <3> QED  BY <1>1, <1>2, <1>3, <2>1, <2>2, <3>0 DEF Waits, Placed, OnePlace
  <2>5. Queues'
    <3>1. down[s] # got'[s]
      BY <1>6, <2>2 DEF AllBuffersReady
    <3>2. up \subseteq Nodes
      BY DEF Inv, TypeOK
    <3>3. c \in Peers[s] /\ got[s] \subseteq down[s] /\ down[s] \subseteq Peers[s]
      BY <1>2 DEF Inv, Queues
    <3>4. \A r \in Nodes : got'[r] \subseteq down'[r] /\ down'[r] \subseteq Peers[r]
      BY <1>2, <2>1, <2>2, <3>3 DEF Inv, Queues
    <3>5. \A r \in Nodes : r \notin up' => got'[r] = {}
      BY <1>6, <2>1, <2>2 DEF Inv, Queues
    <3>6. \A r \in up' : read'[r] = "done" => down'[r] # got'[r]
      BY <1>3, <2>1, <2>2, <3>1, <3>2 DEF Inv, Queues
    <3> QED  BY <3>4, <3>5, <3>6 DEF Queues
  <2>6. ListsOnce'
    BY <1>3, <2>1 DEF Inv, ListsOnce
  <2> QED  BY <2>3, <2>4, <2>5, <2>6 DEF Inv
<1>7. CASE s \notin up
  <2>1. /\ down' = [down EXCEPT ![s] = @ \ {c}] /\ answers' = answers \ {c}
        /\ IF down[s] \subseteq {c} THEN written' = written \cup {[at |-> s, from |-> {c}]}
           ELSE written' = written
        /\ UNCHANGED <<up, got>>
    BY <1>0, <1>1, <1>7 DEF HandleDone, ActsAsDestination, HandleWrite
  <2>2. /\ down'[s] = down[s] \ {c} /\ \A r \in Nodes : r # s => down'[r] = down[r]
        /\ got[s] = {}
    BY <1>7, <2>1 DEF Inv, TypeOK, Queues
  <2>3. TypeOK'
    <3>1. written' \subseteq [at : Nodes, from : SUBSET Sources]
      BY <1>2, <2>1 DEF Inv, TypeOK
    <3> QED  BY <1>3, <2>1, <3>1 DEF Inv, TypeOK
  <2>4. Requests'
    <3> SUFFICES ASSUME NEW d \in Sources
                 PROVE  (Waits(d) <=> Placed(d))' /\ OnePlace(d)'
      BY DEF Requests
    <3>0. (Waits(d) <=> Placed(d)) /\ OnePlace(d)
      BY DEF Inv, Requests
    <3> QED  BY <1>1, <1>2, <1>3, <2>1, <2>2, <3>0 DEF Waits, Placed, OnePlace
  <2>5. Queues'
    BY <1>3, <1>7, <2>1, <2>2 DEF Inv, Queues
  <2>6. ListsOnce'
    <3>1. \A r \in Nodes : repl' = "check" \/ r \in lists' => down'[r] = {}
      BY <1>3, <1>4, <2>2 DEF Inv, ListsOnce
    <3>2. ASSUME \E w \in written' : w.at = Dst
          PROVE  repl # "check" /\ Dst \notin lists /\ down'[Dst] = {}
      <4>1. CASE \E w \in written : w.at = Dst
        BY <4>1, <1>2, <2>2 DEF Inv, ListsOnce
      <4>2. CASE ~\E w \in written : w.at = Dst
        <5>1. s = Dst /\ down[s] \subseteq {c}
          BY <3>2, <4>2, <2>1
        <5> QED  BY <5>1, <1>4, <2>2
      <4> QED  BY <4>1, <4>2
    <3> QED  BY <1>3, <1>4, <3>1, <3>2 DEF ListsOnce
  <2> QED  BY <2>3, <2>4, <2>5, <2>6 DEF Inv
<1> QED  BY <1>5, <1>6, <1>7

-----------------------------------------------------------------------------
(* Theorems *)

\* The invariant holds before the repair is handed out.
LEMMA InvInit == Init => Inv
<1> SUFFICES ASSUME Init PROVE Inv
  OBVIOUS
<1> USE PlanFacts
<1>1. TypeOK
  BY RepairAssumption DEF Init, TypeOK
<1>2. Requests /\ Queues /\ ListsOnce
  BY DEF Init, Requests, Queues, ListsOnce, Waits, Placed, OnePlace
<1> QED  BY <1>1, <1>2 DEF Inv

\* Every step of a repair keeps the invariant.
LEMMA InvStep == Inv /\ [Next]_vars => Inv'
<1> SUFFICES ASSUME Inv, [Next]_vars PROVE Inv'
  OBVIOUS
<1>1. CASE UNCHANGED vars
  BY <1>1 DEF Inv, TypeOK, Requests, Queues, ListsOnce, Waits, Placed, OnePlace, vars, meta,
              wires, queue
<1>2. CASE Next
  BY <1>2, MetaStep, ListStep, RegisterStep, ErrorStep, LossStep, ReadStep, AnswerStep DEF Next
<1> QED  BY <1>1, <1>2

\* In the partial decoding queues no request is forgotten while its answer can
\* still come, none is answered twice, one that waits for nothing was lost, and
\* no server that has everything keeps its asker waiting
\* (SendChunkForDistributedRepairOp::HandleDone, ReadOp::HandleDone), for each
\* of the plans, whatever fails and whatever the order.
THEOREM QueuesAccountForRequests == Spec => []EntriesAccounted
<1>1. Inv => EntriesAccounted
  BY DEF Inv, Requests, Queues, Waits, Placed, OnePlace, EntriesAccounted
<1> QED  BY InvInit, InvStep, <1>1, PTL DEF Spec

\* The destination writes the chunk only when each of the peers it asked has
\* answered and the answers are in (DistributedRepairChunkOp::HandleDone), for
\* each of the plans, whatever fails and whatever the order.
THEOREM DestinationWaits == Spec => []DestinationWaitsForAll
<1>1. Inv => DestinationWaitsForAll
  <2> SUFFICES ASSUME Inv, \E w \in written : w.at = Dst
               PROVE  down[Dst] = {} /\ \A c \in Peers[Dst] : c \notin asks \cup up \cup answers \cup lost
    BY DEF DestinationWaitsForAll
  <2>1. down[Dst] = {}
    BY DEF Inv, ListsOnce
  <2>2. \A c \in Peers[Dst] : c \in Sources /\ Asker[c] = Dst
    BY PlanFacts, AskerOfPeer
  <2> QED  BY <2>1, <2>2 DEF Inv, Requests, Waits, Placed
<1> QED  BY InvInit, InvStep, <1>1, PTL DEF Spec

=============================================================================
