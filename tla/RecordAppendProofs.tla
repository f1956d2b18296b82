------------------------ MODULE RecordAppendProofs --------------------------
(***************************************************************************)
(* Proofs about RecordAppend for every chain length and every set of write *)
(* ids: the types of the state, that a stable replica is the variant the   *)
(* meta server decided on, and the facts about the steps, the queues and   *)
(* the wires that the other proofs share.                                  *)
(*                                                                         *)
(* ChainInv, the last section, is about offsets: the appends in flight at  *)
(* an open appender are the ones past its commit offset, in order, and the *)
(* successor's successful replies are the ones between the two commit      *)
(* offsets, in order.  An appender that is no longer open never commits    *)
(* again, so nothing is said about it.                                     *)
(***************************************************************************)
EXTENDS RecordAppend, Functions, TLAPS

\* The ops the program builds: an append carries a client's record, and a
\* close names a write id.
Ops == {o \in OpT : /\ o.kind # "ack" => o.w \in Wids
                    /\ o.kind = "append" => o.seq \in 1 .. MaxOps}
Statuses == [op : Ops, ok : BOOLEAN]

\* The appends among a sequence of ops.
AppendsOf(ops) == {k \in DOMAIN ops : ops[k].kind = "append"}

\* What counting the appends of a commit comes to (AppendCommit adds the sizes
\* of the ops it is given to mNextCommitOffset one by one).  It depends on no
\* variable: RecordAppendTheorems proves it, from the library's facts about
\* cardinality, and the type invariant carries it to the lemmas.
Counting ==
    /\ Cardinality({}) = 0 /\ Cardinality({1}) = 1
    /\ \A ops \in Seq(Ops) : Cardinality(AppendsOf(ops)) \in Nat
    /\ \A ops \in Seq(Ops), c, d \in Nat :
          c <= d /\ ExistsBijection(AppendsOf(ops), c .. d - 1) =>
              Cardinality(AppendsOf(ops)) = d - c

ChainType ==
    /\ st \in [Pos -> States]
    /\ data \in [Pos -> Seq(Record)]
    /\ commit \in [Pos -> Nat]
    /\ pend \in [Pos -> Seq(Statuses)]
    /\ flight \in [Pos -> Seq(Ops)]
    /\ link \in [Pos -> Seq(Ops)]
    /\ reply \in [Pos -> Seq(Statuses)]

ClientType ==
    /\ mcommit \in [Pos -> Nat] /\ ackSent \in Nat
    /\ wid \in [Pos -> [Wids -> WidInfo]]
    /\ lease \in BOOLEAN
    /\ acked \subseteq Record
    /\ told \subseteq [w : Wids, seq : 0 .. MaxOps, status : {"ok", "busy", "bad"}]

MetaType ==
    /\ relinq \in {NoData} \cup Seq(Record)
    /\ phase \in {"lease", "begin", "decided"}
    /\ wait \subseteq Pos /\ mcs \subseteq Pos
    /\ decision \in {NoData} \cup Seq(Record)
    /\ wait # {} => phase = "begin"
    /\ mcs # {} => phase = "decided"
    /\ phase = "decided" => decision # NoData

TypeInv == ChainType /\ ClientType /\ MetaType /\ Counting

-----------------------------------------------------------------------------
(* Sequences.                                                              *)

\* A function on an initial segment of the naturals is a sequence.
LEMMA IsSequence ==
    ASSUME NEW S, NEW n \in Nat, NEW f \in [1 .. n -> S]
    PROVE  f \in Seq(S) /\ Len(f) = n
  OBVIOUS

\* Sequences over a subset.
LEMMA SeqMonotonic ==
    ASSUME NEW S, NEW T, S \subseteq T, NEW s \in Seq(S)
    PROVE  s \in Seq(T)
  OBVIOUS

\* The entries of a sequence of statuses.
LEMMA StatusFacts ==
    ASSUME NEW s \in Seq(Statuses), NEW k \in 1 .. Len(s)
    PROVE  s[k] \in Statuses /\ s[k].op \in Ops /\ s[k].ok \in BOOLEAN
  <1>1. s[k] \in Statuses
    OBVIOUS
  <1>. QED  BY <1>1 DEF Statuses

\* What concatenation does.
LEMMA ConcatFacts ==
    ASSUME NEW S, NEW s \in Seq(S), NEW t \in Seq(S)
    PROVE  /\ s \o t \in Seq(S) /\ Len(s \o t) = Len(s) + Len(t)
           /\ \A k \in 1 .. Len(s) : (s \o t)[k] = s[k]
           /\ \A k \in 1 .. Len(t) : (s \o t)[Len(s) + k] = t[k]
           /\ \A k \in Len(s) + 1 .. Len(s \o t) : (s \o t)[k] = t[k - Len(s)]
  OBVIOUS

\* What appending one element does.
LEMMA AppendFacts ==
    ASSUME NEW S, NEW s \in Seq(S), NEW e \in S
    PROVE  /\ Append(s, e) \in Seq(S) /\ Len(Append(s, e)) = Len(s) + 1
           /\ \A k \in 1 .. Len(s) : Append(s, e)[k] = s[k]
           /\ Append(s, e)[Len(s) + 1] = e
  OBVIOUS

\* What taking the first element off does.
LEMMA TailFacts ==
    ASSUME NEW S, NEW s \in Seq(S), s # <<>>
    PROVE  /\ Head(s) \in S /\ Head(s) = s[1] /\ Len(s) >= 1
           /\ Tail(s) \in Seq(S) /\ Len(Tail(s)) = Len(s) - 1
           /\ \A k \in 1 .. Len(s) - 1 : Tail(s)[k] = s[k + 1]
  OBVIOUS

\* An initial segment of a sequence.
LEMMA PrefixFacts ==
    ASSUME NEW S, NEW s \in Seq(S), NEW n \in 0 .. Len(s)
    PROVE  /\ SubSeq(s, 1, n) \in Seq(S) /\ Len(SubSeq(s, 1, n)) = n
           /\ \A k \in 1 .. n : SubSeq(s, 1, n)[k] = s[k]
  OBVIOUS

\* The statuses given to a sequence of ops.
LEMMA AnswerFacts ==
    ASSUME NEW s \in Seq(Ops), NEW b \in BOOLEAN
    PROVE  /\ Answer(s, b) \in Seq(Statuses) /\ Len(Answer(s, b)) = Len(s)
           /\ \A k \in 1 .. Len(s) : Answer(s, b)[k].op = s[k] /\ Answer(s, b)[k].ok = b
  <1>. \A k \in 1 .. Len(s) : [op |-> s[k], ok |-> b] \in Statuses
    BY DEF Statuses
  <1>. QED  BY DEF Answer

\* A sequence without one of its elements.
LEMMA WithoutFacts ==
    ASSUME NEW S, NEW s \in Seq(S), NEW k \in 1 .. Len(s)
    PROVE  /\ Without(s, k) \in Seq(S) /\ Len(Without(s, k)) = Len(s) - 1
           /\ \A j \in 1 .. Len(s) - 1 : Without(s, k)[j] = IF j < k THEN s[j] ELSE s[j + 1]
  BY DEF Without

-----------------------------------------------------------------------------
(* Types.                                                                  *)

\* What an open master trims off is past its commit offset.
MasterBound == st[1] = "open" => commit[1] <= Len(data[1])

\* The position of the master is a position.
LEMMA PosFacts == Pos \subseteq Nat /\ 1 \in Pos /\ N \in Pos /\ N \in Nat
  BY ChainAssumption DEF Pos

\* The initial state has its types.
LEMMA TypeInit == Init /\ Counting => TypeInv
  BY PosFacts, ChainAssumption DEF Init, TypeInv, ChainType, ClientType, MetaType, States, WidInfo

\* What a position that fails leaves behind has its types.
LEMMA SetFailedType ==
    ASSUME TypeInv, MasterBound, NEW i \in Pos, st[i] = "open", SetFailed(i)
    PROVE  /\ st' \in [Pos -> States] /\ data' \in [Pos -> Seq(Record)]
           /\ relinq' \in {NoData} \cup Seq(Record)
           /\ st'[i] # "open" /\ \A j \in Pos : j # i => st'[j] = st[j] /\ data'[j] = data[j]
  <1>1. CASE i = 1
    <2>1. Trimmed(1) \in Seq(Record)
      BY <1>1, PosFacts, PrefixFacts DEF MasterBound, Trimmed, TypeInv, ChainType
    <2>. QED  BY <1>1, <2>1, Zenon DEF SetFailed, TypeInv, ChainType, States
  <1>2. CASE i # 1
    BY <1>2, Zenon DEF SetFailed, TypeInv, ChainType, MetaType, States
  <1>. QED  BY <1>1, <1>2

\* The ops of the master, and the close, are well formed.
LEMMA NewOpType ==
    ASSUME TypeInv
    PROVE  /\ \A w \in Wids, n \in 1 .. MaxOps : AppendOp("append", w, n) \in Ops
           /\ AppendOp("ack", NoWid, 0) \in Ops
           /\ \A w \in Wids : CloseOp(w) \in Ops
  <1>1. Len(data[1]) \in Nat /\ commit[1] \in Nat
    BY PosFacts DEF TypeInv, ChainType
  <1>. QED  BY <1>1, ChainAssumption DEF AppendOp, CloseOp, Ops, OpT

\* What is known of a write id, updated, keeps its type.
LEMMA WidFacts ==
    ASSUME NEW ws \in WidInfo
    PROVE  /\ \A s \in {"ok", "busy", "bad", "erased"} : [ws EXCEPT !.status = s] \in WidInfo
           /\ [ws EXCEPT !.ro = TRUE] \in WidInfo
           /\ \A n \in 0 .. MaxOps, e \in Nat :
                 [ws EXCEPT !.status = "busy", !.seq = n, !.end = e] \in WidInfo
           /\ \A x : Settled(ws, x) \in WidInfo
  BY Zenon DEF WidInfo, Settled

\* A client's append keeps the types.
LEMMA ClientAppendType ==
    ASSUME TypeInv, NEW w \in Wids, ClientAppend(w)
    PROVE  TypeInv'
  <1>. DEFINE n == wid[1][w].seq + 1
              a == [op |-> AppendOp("append", w, n), ok |-> TRUE]
  <1>1. wid[1][w] \in WidInfo /\ n \in 1 .. MaxOps /\ n \in 0 .. MaxOps
    BY PosFacts, ChainAssumption DEF TypeInv, ClientType, ClientAppend, WidInfo
  <1>2. <<w, n>> \in Record /\ a \in Statuses
    BY <1>1, NewOpType DEF Record, Statuses
  <1>3. Len(data[1]) + 1 \in Nat
    BY PosFacts DEF TypeInv, ChainType
  <1>. HIDE DEF n, a
  <1>4. data' = [data EXCEPT ![1] = Append(data[1], <<w, n>>)]
        /\ pend' = [pend EXCEPT ![1] = Append(pend[1], a)]
    BY DEF ClientAppend, n, a
  <1>5. Append(data[1], <<w, n>>) \in Seq(Record) /\ Append(pend[1], a) \in Seq(Statuses)
    BY <1>2, PosFacts, AppendFacts DEF TypeInv, ChainType
  <1>6. ChainType'
    <2>1. UNCHANGED <<st, commit, flight, link, reply>>
      BY DEF ClientAppend
    <2>. QED  BY <2>1, <1>4, <1>5, PosFacts, Zenon DEF TypeInv, ChainType
  <1>7. ClientType'
    <2>1. [wid[1][w] EXCEPT !.status = "busy", !.seq = n, !.end = Len(data[1]) + 1] \in WidInfo
      BY <1>1, <1>3, WidFacts, ChainAssumption, Zenon
    <2>2. wid' \in [Pos -> [Wids -> WidInfo]]
      BY <2>1, PosFacts DEF TypeInv, ClientType, ClientAppend, n
    <2>. QED  BY <2>2 DEF TypeInv, ClientType, ClientAppend
  <1>8. MetaType'
    BY DEF TypeInv, MetaType, ClientAppend, metasrv
  <1>. QED  BY <1>6, <1>7, <1>8 DEF TypeInv

\* Position i takes m off the wire, with the status ok.
Takes(i, m, ok) ==
    /\ link' = [link EXCEPT ![i - 1] = Tail(link[i - 1])]
    /\ pend' = [pend EXCEPT ![i] = Append(pend[i], [op |-> m, ok |-> ok])]
    /\ ok => /\ st[i] = "open" /\ m.off = Len(data[i])
             /\ \A k \in DOMAIN pend[i] : pend[i][k].ok
    /\ st' = st \/ (~ok /\ st[i] = "open" /\ st' = [st EXCEPT ![i] = "failed"])
    /\ data' = IF ok /\ m.kind = "append"
               THEN [data EXCEPT ![i] = Append(data[i], <<m.w, m.seq>>)] ELSE data
    /\ UNCHANGED <<commit, flight, reply, acked, relinq, metasrv>>

\* What AppendBegin does to the chain.
LEMMA AppendBeginFacts ==
    ASSUME TypeInv, NEW i \in Pos, AppendBegin(i)
    PROVE  /\ i - 1 \in Pos /\ i > 1 /\ link[i - 1] # <<>>
           /\ Head(link[i - 1]) \in Ops /\ Head(link[i - 1]).kind \in {"append", "ack"}
           /\ \E ok \in BOOLEAN : Takes(i, Head(link[i - 1]), ok)
  <1>1. i > 1 /\ i - 1 \in Pos /\ link[i - 1] # <<>>
    <2>1. i > 1 /\ link[i - 1] # <<>>
      BY Zenon DEF AppendBegin
    <2>. QED  BY <2>1, ChainAssumption DEF Pos
  <1>2. Head(link[i - 1]) \in Ops
    BY <1>1, TailFacts DEF TypeInv, ChainType
  <1>3. \E ok \in BOOLEAN : Takes(i, Head(link[i - 1]), ok)
    <2>. DEFINE m == Head(link[i - 1])
                mc == NewMasterCommit(i, m.mc)
                ws == Settled(wid[i][m.w], mc)
                may == st[i] = "open" /\ \A k \in DOMAIN pend[i] : pend[i][k].ok
                inOrder == m.off = Len(data[i])
                known == m.kind = "ack" \/ wid[i][m.w].status # "erased"
    <2>1. PICK corrupt \in BOOLEAN :
             LET ok == may /\ known /\ inOrder
                       /\ (m.kind = "append" => ws.status = "ok" /\ ~ws.ro /\ ~corrupt)
             IN  /\ link' = [link EXCEPT ![i - 1] = Tail(@)]
                 /\ pend' = [pend EXCEPT ![i] = Append(@, [op |-> m, ok |-> ok])]
                 /\ st' = [st EXCEPT ![i] = IF may /\ known /\ ~inOrder THEN "failed" ELSE @]
                 /\ data' = IF ok /\ m.kind = "append"
                            THEN [data EXCEPT ![i] = Append(@, <<m.w, m.seq>>)] ELSE data
                 /\ UNCHANGED <<commit, flight, reply, acked, relinq, metasrv>>
      BY Zenon DEF AppendBegin
    <2>. DEFINE ok == may /\ known /\ inOrder
                      /\ (m.kind = "append" => ws.status = "ok" /\ ~ws.ro /\ ~corrupt)
    <2>2. ok \in BOOLEAN
      OBVIOUS
    <2>3. st' = st \/ (~ok /\ st[i] = "open" /\ st' = [st EXCEPT ![i] = "failed"])
      <3>1. CASE may /\ known /\ ~inOrder
        BY <2>1, <3>1, Zenon
      <3>2. CASE ~(may /\ known /\ ~inOrder)
        BY <2>1, <3>2, Zenon DEF TypeInv, ChainType
      <3>. QED  BY <3>1, <3>2
    <2>. QED  BY <2>1, <2>2, <2>3, Zenon DEF Takes
  <1>4. Head(link[i - 1]).kind \in {"append", "ack"}
    BY Zenon DEF AppendBegin
  <1>. QED  BY <1>1, <1>2, <1>3, <1>4

\* What a commit does.
LEMMA CommitFacts ==
    ASSUME TypeInv, NEW i \in Pos, NEW ops \in Seq(Ops), CommitOps(i, ops)
    PROVE  /\ commit' \in [Pos -> Nat]
           /\ commit'[i] = commit[i] + Cardinality(AppendsOf(ops))
           /\ \A j \in Pos : j # i => commit'[j] = commit[j]
           /\ wid' \in [Pos -> [Wids -> WidInfo]]
           /\ acked' \subseteq Record
           /\ \A r \in acked' : r \in acked \/
                 (i = 1 /\ \E k \in AppendsOf(ops) : r = <<ops[k].w, ops[k].seq>>)
  <1>1. commit' = [commit EXCEPT ![i] = commit[i] + Cardinality(AppendsOf(ops))]
    BY Zenon DEF CommitOps, AppendsOf
  <1>2. \A k \in AppendsOf(ops) : <<ops[k].w, ops[k].seq>> \in Record
    BY DEF AppendsOf, Ops, Record
  <1>3. wid' \in [Pos -> [Wids -> WidInfo]]
    <2>1. CASE i = 1
      <3>1. wid' = [wid EXCEPT ![1] = [w \in Wids |->
                       IF \E k \in AppendsOf(ops) : ops[k].w = w
                       THEN [wid[1][w] EXCEPT !.status = "ok"] ELSE wid[1][w]]]
        BY <2>1 DEF CommitOps, AppendsOf
      <3>2. \A w \in Wids : wid[1][w] \in WidInfo
        BY PosFacts DEF TypeInv, ClientType
      <3>3. \A w \in Wids : [wid[1][w] EXCEPT !.status = "ok"] \in WidInfo
        BY <3>2, WidFacts, Zenon
      <3>. QED  BY <3>1, <3>2, <3>3, PosFacts DEF TypeInv, ClientType
    <2>2. CASE i # 1
      BY <2>2 DEF CommitOps, TypeInv, ClientType
    <2>. QED  BY <2>1, <2>2
  <1>4. \A r \in acked' : r \in acked \/
           (i = 1 /\ \E k \in AppendsOf(ops) : r = <<ops[k].w, ops[k].seq>>)
    <2>1. CASE i = 1
      <3>. DEFINE New == {<<ops[k].w, ops[k].seq>> : k \in AppendsOf(ops)}
      <3>1. acked' = acked \cup New
        BY <2>1, Zenon DEF CommitOps, AppendsOf
      <3>2. \A r \in New : \E k \in AppendsOf(ops) : r = <<ops[k].w, ops[k].seq>>
        OBVIOUS
      <3>. HIDE DEF New
      <3>. QED  BY <2>1, <3>1, <3>2
    <2>2. CASE i # 1
      BY <2>2 DEF CommitOps
    <2>. QED  BY <2>1, <2>2
  <1>5. acked' \subseteq Record
    BY <1>2, <1>4, Zenon DEF TypeInv, ClientType
  <1>6. Cardinality(AppendsOf(ops)) \in Nat /\ commit \in [Pos -> Nat]
    BY DEF TypeInv, ChainType, Counting
  <1>7. /\ commit' \in [Pos -> Nat]
        /\ commit'[i] = commit[i] + Cardinality(AppendsOf(ops))
        /\ \A j \in Pos : j # i => commit'[j] = commit[j]
    BY <1>1, <1>6
  <1>. QED  BY <1>3, <1>4, <1>5, <1>7, Zenon

\* The replies of a position go to its predecessor's queue.
LEMMA RepliesFacts ==
    ASSUME NEW rep \in [Pos -> Seq(Statuses)], NEW i \in Pos, NEW rs \in Seq(Statuses)
    PROVE  /\ RepliesTo(rep, i, rs) \in [Pos -> Seq(Statuses)]
           /\ \A j \in Pos : j # i - 1 => RepliesTo(rep, i, rs)[j] = rep[j]
           /\ i > 1 => /\ i - 1 \in Pos
                       /\ RepliesTo(rep, i, rs)[i - 1] = rep[i - 1] \o rs
  <1>1. CASE i = 1
    BY <1>1 DEF RepliesTo
  <1>2. CASE i # 1
    <2>1. i - 1 \in Pos
      BY <1>2, ChainAssumption DEF Pos
    <2>2. rep[i - 1] \o rs \in Seq(Statuses)
      BY <2>1, ConcatFacts
    <2>. QED  BY <1>2, <2>1, <2>2 DEF RepliesTo
  <1>. QED  BY <1>1, <1>2

\* Position i runs its queue: the first good ops, sent, are forwarded or
\* committed, and the rest, refused, fail.
Runs(i, good, sent, refused) ==
    /\ pend[i] # <<>> /\ pend' = [pend EXCEPT ![i] = <<>>]
    /\ IF st[i] # "open" THEN good = 0
       ELSE (\A k \in 1 .. good : pend[i][k].ok)
            /\ (good < Len(pend[i]) => ~pend[i][good + 1].ok)
    /\ IF good < Len(pend[i]) /\ st[i] = "open" THEN SetFailed(i) ELSE KeepState
    /\ IF i < N
       THEN /\ flight' = [flight EXCEPT ![i] = flight[i] \o sent]
            /\ link' = [link EXCEPT ![i] = link[i] \o sent]
            /\ reply' = RepliesTo(reply, i, Answer(refused, FALSE))
            /\ UNCHANGED <<commit, wid, acked>>
       ELSE /\ CommitOps(i, sent)
            /\ reply' = RepliesTo(reply, i, Answer(sent, TRUE) \o Answer(refused, FALSE))
            /\ UNCHANGED <<flight, link>>
    /\ UNCHANGED metasrv

\* o is the op of the queue entry a, stamped by the master.
Stamped(i, o, a) ==
    /\ o.kind = a.op.kind /\ o.w = a.op.w /\ o.seq = a.op.seq /\ o.off = a.op.off
    /\ IF i = 1 THEN o.mc = commit[1] ELSE o = a.op

\* What running the queue does to the chain.
LEMMA RunFacts ==
    ASSUME TypeInv, NEW i \in Pos, RunPendingSubmitQueue(i)
    PROVE  \E good \in 0 .. Len(pend[i]), sent, refused \in Seq(Ops) :
             /\ Runs(i, good, sent, refused)
             /\ Len(sent) = good
             /\ \A k \in 1 .. good : Stamped(i, sent[k], pend[i][k])
  <1>. DEFINE q == pend[i]
              ops == [k \in DOMAIN q |->
                        IF i = 1 THEN [q[k].op EXCEPT !.mc = commit[1]] ELSE q[k].op]
  <1>1. q \in Seq(Statuses) /\ commit[1] \in Int
    BY PosFacts DEF TypeInv, ChainType
  <1>2. \A k \in 1 .. Len(q) : q[k].op \in Ops
    BY <1>1, StatusFacts
  <1>3. \A o \in Ops : /\ [o EXCEPT !.mc = commit[1]] \in Ops
                       /\ Stamped(1, [o EXCEPT !.mc = commit[1]], [op |-> o, ok |-> TRUE])
    <2>. SUFFICES ASSUME NEW o \in Ops
                  PROVE  /\ [o EXCEPT !.mc = commit[1]] \in Ops
                         /\ Stamped(1, [o EXCEPT !.mc = commit[1]], [op |-> o, ok |-> TRUE])
      BY Zenon
    <2>1. o \in OpT
      BY DEF Ops
    <2>2. PICK p : p = [o EXCEPT !.mc = commit[1]]
      BY Zenon
    <2>3. /\ p \in OpT /\ p.kind = o.kind /\ p.w = o.w /\ p.seq = o.seq /\ p.off = o.off
          /\ p.mc = commit[1]
      BY <1>1, <2>1, <2>2 DEF OpT
    <2>. QED  BY <2>2, <2>3, Zenon DEF Ops, Stamped
  <1>4. \A k \in 1 .. Len(q) : ops[k] \in Ops /\ Stamped(i, ops[k], q[k])
    BY <1>1, <1>2, <1>3 DEF Stamped
  <1>5. ops \in Seq(Ops) /\ Len(ops) = Len(q)
    <2>1. DOMAIN ops = DOMAIN q /\ ops = [k \in DOMAIN ops |-> ops[k]]
      BY Zenon
    <2>. HIDE DEF ops
    <2>2. ops \in [1 .. Len(q) -> Ops] /\ Len(q) \in Nat
      BY <1>1, <1>4, <2>1
    <2>. QED  BY <2>2, IsSequence
  <1>. HIDE DEF ops
  <1>6. PICK good \in 0 .. Len(q) : Runs(i, good, SubSeq(ops, 1, good), SubSeq(ops, good + 1, Len(q)))
    BY Zenon DEF RunPendingSubmitQueue, Runs, ops
  <1>7. /\ SubSeq(ops, 1, good) \in Seq(Ops) /\ Len(SubSeq(ops, 1, good)) = good
        /\ \A k \in 1 .. good : SubSeq(ops, 1, good)[k] = ops[k]
    BY <1>5, PrefixFacts
  <1>8. SubSeq(ops, good + 1, Len(q)) \in Seq(Ops)
    BY <1>1, <1>5
  <1>9. PICK sent, refused \in Seq(Ops) :
           /\ sent = SubSeq(ops, 1, good) /\ refused = SubSeq(ops, good + 1, Len(q))
    BY <1>7, <1>8, Zenon
  <1>10. Runs(i, good, sent, refused)
    BY <1>6, <1>9
  <1>11. Len(sent) = good /\ \A k \in 1 .. good : Stamped(i, sent[k], pend[i][k])
    BY <1>4, <1>7, <1>9
  <1>. QED  BY <1>10, <1>11

\* AppendBegin keeps the types.
LEMMA AppendBeginType ==
    ASSUME TypeInv, NEW i \in Pos, AppendBegin(i)
    PROVE  TypeInv'
  <1>. DEFINE m == Head(link[i - 1])
  <1>1. /\ i - 1 \in Pos /\ i > 1 /\ link[i - 1] # <<>> /\ m \in Ops
        /\ m.kind \in {"append", "ack"}
    BY AppendBeginFacts
  <1>2. PICK ok \in BOOLEAN : Takes(i, m, ok)
    BY AppendBeginFacts
  <1>3. /\ m.kind = "append" => m.w \in Wids /\ m.seq \in 0 .. MaxOps /\ <<m.w, m.seq>> \in Record
        /\ m.off + 1 \in Nat /\ m.mc \in Int
    <2>1. m \in OpT /\ (m.kind = "append" => m.w \in Wids /\ m.seq \in 1 .. MaxOps)
      BY <1>1 DEF Ops
    <2>. QED  BY <2>1 DEF OpT, Record
  <1>. HIDE DEF m
  <1>4. ChainType'
    <2>1. st' \in [Pos -> States]
      BY <1>2, Zenon DEF Takes, TypeInv, ChainType, States
    <2>2. data' \in [Pos -> Seq(Record)]
      <3>1. CASE ok /\ m.kind = "append"
        <4>1. Append(data[i], <<m.w, m.seq>>) \in Seq(Record)
          BY <1>3, <3>1, AppendFacts DEF TypeInv, ChainType
        <4>. QED  BY <1>2, <3>1, <4>1 DEF Takes, TypeInv, ChainType
      <3>2. CASE ~(ok /\ m.kind = "append")
        BY <1>2, <3>2 DEF Takes, TypeInv, ChainType
      <3>. QED  BY <3>1, <3>2
    <2>3. pend' \in [Pos -> Seq(Statuses)]
      <3>1. [op |-> m, ok |-> ok] \in Statuses
        BY <1>1 DEF Statuses
      <3>2. Append(pend[i], [op |-> m, ok |-> ok]) \in Seq(Statuses)
        BY <3>1, AppendFacts DEF TypeInv, ChainType
      <3>. QED  BY <1>2, <3>2 DEF Takes, TypeInv, ChainType
    <2>4. link' \in [Pos -> Seq(Ops)]
      <3>1. Tail(link[i - 1]) \in Seq(Ops)
        BY <1>1, TailFacts DEF TypeInv, ChainType
      <3>. QED  BY <1>1, <1>2, <3>1 DEF Takes, TypeInv, ChainType
    <2>. QED  BY <1>2, <2>1, <2>2, <2>3, <2>4, Zenon DEF Takes, TypeInv, ChainType
  <1>5. ClientType'
    <2>. DEFINE mc == NewMasterCommit(i, m.mc)
                ws == Settled(wid[i][m.w], mc)
    <2>1. mc \in Nat
      BY <1>3 DEF NewMasterCommit, TypeInv, ClientType, ChainType
    <2>2. m.kind = "append" => ws \in WidInfo
      BY <1>3, WidFacts, Zenon DEF TypeInv, ClientType
    <2>. HIDE DEF mc, ws
    <2>3. \/ mcommit' = mcommit
          \/ mcommit' = [mcommit EXCEPT ![i] = mc]
      <3>1. mcommit = [mcommit EXCEPT ![i] = mcommit[i]]
        BY DEF TypeInv, ClientType
      <3>. QED  BY <3>1, Zenon DEF AppendBegin, m, mc
    <2>4. \/ wid' = wid
          \/ m.kind = "append" /\ wid' = [wid EXCEPT ![i][m.w] = ws]
          \/ m.kind = "append" /\ wid' = [wid EXCEPT ![i][m.w] =
                [ws EXCEPT !.status = "busy", !.seq = m.seq, !.end = m.off + 1]]
      BY <1>1, Zenon DEF AppendBegin, m, mc, ws
    <2>5. wid' \in [Pos -> [Wids -> WidInfo]]
      <3>1. CASE wid' = wid
        BY <3>1 DEF TypeInv, ClientType
      <3>2. CASE m.kind = "append" /\ wid' = [wid EXCEPT ![i][m.w] = ws]
        BY <3>2, <2>2, <1>3 DEF TypeInv, ClientType
      <3>3. CASE m.kind = "append" /\ wid' = [wid EXCEPT ![i][m.w] =
                   [ws EXCEPT !.status = "busy", !.seq = m.seq, !.end = m.off + 1]]
        <4>1. [ws EXCEPT !.status = "busy", !.seq = m.seq, !.end = m.off + 1] \in WidInfo
          BY <3>3, <2>2, <1>3, WidFacts, Zenon
        <4>. QED  BY <3>3, <4>1, <1>3 DEF TypeInv, ClientType
      <3>. QED  BY <2>4, <3>1, <3>2, <3>3
    <2>6. UNCHANGED <<ackSent, lease, acked, told>>
      BY Zenon DEF AppendBegin
    <2>. QED  BY <2>1, <2>3, <2>5, <2>6 DEF TypeInv, ClientType
  <1>6. MetaType'
    BY <1>2 DEF Takes, TypeInv, MetaType, metasrv
  <1>. QED  BY <1>4, <1>5, <1>6 DEF TypeInv

\* Running the queue keeps the types.
LEMMA RunType ==
    ASSUME TypeInv, MasterBound, NEW i \in Pos, RunPendingSubmitQueue(i)
    PROVE  TypeInv'
  <1>1. PICK good \in 0 .. Len(pend[i]), sent \in Seq(Ops), refused \in Seq(Ops) :
           Runs(i, good, sent, refused)
    BY RunFacts
  <1>2. /\ Answer(sent, TRUE) \in Seq(Statuses) /\ Answer(refused, FALSE) \in Seq(Statuses)
        /\ Answer(sent, TRUE) \o Answer(refused, FALSE) \in Seq(Statuses)
    BY AnswerFacts, ConcatFacts, Zenon
  <1>3. /\ st' \in [Pos -> States] /\ data' \in [Pos -> Seq(Record)]
        /\ relinq' \in {NoData} \cup Seq(Record)
    <2>1. CASE good < Len(pend[i]) /\ st[i] = "open"
      BY <1>1, <2>1, SetFailedType DEF Runs
    <2>2. CASE ~(good < Len(pend[i]) /\ st[i] = "open")
      BY <1>1, <2>2 DEF Runs, KeepState, TypeInv, ChainType, MetaType
    <2>. QED  BY <2>1, <2>2
  <1>4. pend' \in [Pos -> Seq(Statuses)]
    BY <1>1 DEF Runs, TypeInv, ChainType
  <1>5. reply' \in [Pos -> Seq(Statuses)]
    <2>1. reply \in [Pos -> Seq(Statuses)]
      BY DEF TypeInv, ChainType
    <2>2. PICK rs \in Seq(Statuses) : reply' = RepliesTo(reply, i, rs)
      BY <1>1, <1>2, Zenon DEF Runs
    <2>. QED  BY <2>1, <2>2, RepliesFacts, Zenon
  <1>6. flight' \in [Pos -> Seq(Ops)] /\ link' \in [Pos -> Seq(Ops)]
    <2>1. flight[i] \o sent \in Seq(Ops) /\ link[i] \o sent \in Seq(Ops)
      BY ConcatFacts DEF TypeInv, ChainType
    <2>. QED  BY <1>1, <2>1, Zenon DEF Runs, TypeInv, ChainType
  <1>7. /\ commit' \in [Pos -> Nat] /\ wid' \in [Pos -> [Wids -> WidInfo]]
        /\ acked' \subseteq Record
    <2>1. CASE i < N
      BY <1>1, <2>1, Zenon DEF Runs, TypeInv, ChainType, ClientType
    <2>2. CASE ~(i < N)
      BY <1>1, <2>2, CommitFacts, Zenon DEF Runs
    <2>. QED  BY <2>1, <2>2
  <1>8. ackSent' \in Nat /\ UNCHANGED <<mcommit, lease, told, metasrv>>
    <2>1. ackSent' = commit[1] \/ ackSent' = ackSent
      BY Zenon DEF RunPendingSubmitQueue
    <2>2. UNCHANGED <<mcommit, lease, told, metasrv>>
      BY Zenon DEF RunPendingSubmitQueue
    <2>. QED  BY <2>1, <2>2, PosFacts, Zenon DEF TypeInv, ChainType, ClientType
  <1>9. ChainType'
    BY <1>3, <1>4, <1>5, <1>6, <1>7 DEF ChainType
  <1>10. ClientType'
    BY <1>7, <1>8 DEF TypeInv, ClientType
  <1>11. MetaType'
    BY <1>3, <1>8 DEF TypeInv, MetaType, metasrv
  <1>. QED  BY <1>9, <1>10, <1>11 DEF TypeInv

\* OpDone keeps the types.
LEMMA OpDoneType ==
    ASSUME TypeInv, MasterBound, NEW i \in Pos, OpDone(i)
    PROVE  TypeInv'
  <1>. DEFINE r == Head(reply[i])
              rest == [reply EXCEPT ![i] = Tail(@)]
              good == st[i] = "open" /\ r.ok
  <1>1. r \in Statuses /\ r.op \in Ops /\ r.ok \in BOOLEAN /\ rest \in [Pos -> Seq(Statuses)]
    <2>1. reply \in [Pos -> Seq(Statuses)] /\ reply[i] # <<>>
      BY DEF OpDone, TypeInv, ChainType
    <2>2. r \in Statuses /\ Tail(reply[i]) \in Seq(Statuses)
      BY <2>1, TailFacts
    <2>. QED  BY <2>1, <2>2, Zenon DEF Statuses
  <1>2. UNCHANGED <<mcommit, ackSent, pend, link, lease, told, metasrv>>
    BY DEF OpDone
  <1>3. CASE reply' = rest /\ UNCHANGED <<commit, wid, acked, flight>> /\ KeepState
    <2>. HIDE DEF rest
    <2>. QED  BY <1>1, <1>2, <1>3, Zenon
              DEF KeepState, TypeInv, ChainType, ClientType, MetaType, metasrv
  <1>4. ASSUME NEW k \in DOMAIN flight[i],
               flight' = [flight EXCEPT ![i] = Without(@, k)],
               reply' = RepliesTo(rest, i, Answer(<<r.op>>, good)),
               IF good THEN CommitOps(i, <<r.op>>) ELSE UNCHANGED <<commit, wid, acked>>,
               IF st[i] = "open" /\ ~r.ok THEN SetFailed(i) ELSE KeepState
        PROVE  TypeInv'
    <2>1. <<r.op>> \in Seq(Ops) /\ Answer(<<r.op>>, good) \in Seq(Statuses)
      <3>1. good \in BOOLEAN
        OBVIOUS
      <3>. HIDE DEF r, good
      <3>2. <<r.op>> \in Seq(Ops)
        BY <1>1
      <3>. QED  BY <3>1, <3>2, AnswerFacts, Zenon
    <2>2. reply' \in [Pos -> Seq(Statuses)]
      <3>. HIDE DEF r, rest, good
      <3>. QED  BY <1>1, <1>4, <2>1, RepliesFacts, Zenon
    <2>3. flight' \in [Pos -> Seq(Ops)]
      <3>1. flight[i] \in Seq(Ops) /\ k \in 1 .. Len(flight[i])
        BY DEF TypeInv, ChainType
      <3>2. Without(flight[i], k) \in Seq(Ops)
        BY <3>1, WithoutFacts
      <3>. QED  BY <1>4, <3>2 DEF TypeInv, ChainType
    <2>4. /\ commit' \in [Pos -> Nat] /\ wid' \in [Pos -> [Wids -> WidInfo]]
          /\ acked' \subseteq Record
      <3>1. CASE good
        BY <1>4, <2>1, <3>1, CommitFacts, Zenon
      <3>2. CASE ~good
        BY <1>4, <3>2, Zenon DEF TypeInv, ChainType, ClientType
      <3>. QED  BY <3>1, <3>2
    <2>5. /\ st' \in [Pos -> States] /\ data' \in [Pos -> Seq(Record)]
          /\ relinq' \in {NoData} \cup Seq(Record)
      <3>1. CASE st[i] = "open" /\ ~r.ok
        BY <1>4, <3>1, SetFailedType
      <3>2. CASE ~(st[i] = "open" /\ ~r.ok)
        BY <1>4, <3>2 DEF KeepState, TypeInv, ChainType, MetaType
      <3>. QED  BY <3>1, <3>2
    <2>6. ChainType'
      BY <1>2, <2>2, <2>3, <2>4, <2>5, Zenon DEF TypeInv, ChainType
    <2>7. ClientType'
      BY <1>2, <2>4, Zenon DEF TypeInv, ClientType
    <2>8. MetaType'
      BY <1>2, <2>5, Zenon DEF TypeInv, MetaType, metasrv
    <2>. QED  BY <2>6, <2>7, <2>8 DEF TypeInv
  <1>. QED  BY <1>3, <1>4, Zenon DEF OpDone

\* A broken connection keeps the types.
LEMMA PeerFailedType ==
    ASSUME TypeInv, MasterBound, NEW i \in Pos, PeerFailed(i)
    PROVE  TypeInv'
  <1>1. UNCHANGED <<commit, mcommit, ackSent, wid, pend, lease, acked, told, metasrv>>
    BY DEF PeerFailed
  <1>2. /\ st' \in [Pos -> States] /\ data' \in [Pos -> Seq(Record)]
        /\ relinq' \in {NoData} \cup Seq(Record)
    <2>1. CASE st[i] = "open"
      BY <2>1, SetFailedType DEF PeerFailed
    <2>2. CASE st[i] # "open"
      BY <2>2 DEF PeerFailed, KeepState, TypeInv, ChainType, MetaType
    <2>. QED  BY <2>1, <2>2
  <1>3. flight' \in [Pos -> Seq(Ops)]
    BY DEF PeerFailed, TypeInv, ChainType
  <1>4. link' \in [Pos -> Seq(Ops)]
    <2>1. PICK k \in 0 .. Len(link[i]) : link' = [link EXCEPT ![i] = SubSeq(link[i], 1, k)]
      BY Zenon DEF PeerFailed
    <2>2. SubSeq(link[i], 1, k) \in Seq(Ops)
      BY PrefixFacts DEF TypeInv, ChainType
    <2>. QED  BY <2>1, <2>2 DEF TypeInv, ChainType
  <1>5. reply' \in [Pos -> Seq(Statuses)]
    <2>1. Answer(flight[i], FALSE) \in Seq(Statuses)
      BY AnswerFacts, Zenon DEF TypeInv, ChainType
    <2>2. PICK rep \in [Pos -> Seq(Statuses)] : rep = [reply EXCEPT ![i] = <<>>]
      <3>1. [reply EXCEPT ![i] = <<>>] \in [Pos -> Seq(Statuses)]
        BY DEF TypeInv, ChainType
      <3>. QED  BY <3>1, Zenon
    <2>3. reply' = RepliesTo(rep, i, Answer(flight[i], FALSE))
      BY <2>2, Zenon DEF PeerFailed
    <2>. QED  BY <2>1, <2>3, RepliesFacts, Zenon
  <1>6. ChainType'
    BY <1>1, <1>2, <1>3, <1>4, <1>5, Zenon DEF TypeInv, ChainType
  <1>7. ClientType' /\ MetaType'
    BY <1>1, <1>2, Zenon DEF TypeInv, ClientType, MetaType, metasrv
  <1>. QED  BY <1>6, <1>7 DEF TypeInv

\* A position that only fails keeps the types.
LEMMA OnlyFailsType ==
    ASSUME TypeInv, MasterBound, NEW i \in Pos, st[i] = "open", SetFailed(i),
           UNCHANGED <<commit, mcommit, ackSent, wires, lease, acked, told, metasrv>>,
           wid' \in [Pos -> [Wids -> WidInfo]]
    PROVE  TypeInv'
  <1>1. /\ st' \in [Pos -> States] /\ data' \in [Pos -> Seq(Record)]
        /\ relinq' \in {NoData} \cup Seq(Record)
    BY SetFailedType
  <1>2. ChainType'
    BY <1>1, Zenon DEF TypeInv, ChainType, wires
  <1>3. ClientType' /\ MetaType'
    BY <1>1, Zenon DEF TypeInv, ClientType, MetaType, metasrv
  <1>. QED  BY <1>2, <1>3 DEF TypeInv

\* The lease, the idle timer, the replication timeout and a failed allocation
\* fail a position that is open.
LEMMA FailsType ==
    ASSUME TypeInv, MasterBound,
           \/ LeaseExpired \/ TryToCloseChunk
           \/ \E i \in Pos : ReplicationTimeout(i) \/ \E w \in Wids : InvalidateWriteId(i, w)
    PROVE  TypeInv'
  <1>1. CASE LeaseExpired \/ TryToCloseChunk
    BY <1>1, PosFacts, OnlyFailsType DEF LeaseExpired, TryToCloseChunk, TypeInv, ClientType
  <1>2. ASSUME NEW i \in Pos, ReplicationTimeout(i)
        PROVE  TypeInv'
    BY <1>2, OnlyFailsType DEF ReplicationTimeout, TypeInv, ClientType
  <1>3. ASSUME NEW i \in Pos, NEW w \in Wids, InvalidateWriteId(i, w)
        PROVE  TypeInv'
    <2>1. wid' = [wid EXCEPT ![i][w].status = "erased"]
      BY <1>3 DEF InvalidateWriteId
    <2>2. [wid[i][w] EXCEPT !.status = "erased"] \in WidInfo
      BY WidFacts, Zenon DEF TypeInv, ClientType
    <2>3. wid' \in [Pos -> [Wids -> WidInfo]]
      BY <2>1, <2>2 DEF TypeInv, ClientType
    <2>. QED  BY <1>3, <2>3, OnlyFailsType DEF InvalidateWriteId
  <1>. QED  BY <1>1, <1>2, <1>3

\* Losing a replica, the lease, and the meta server's own steps keep the types.
LEMMA SimpleType ==
    ASSUME TypeInv,
           \/ LeaseClerkExpires \/ BeginMakeChunkStable \/ BeginMakeChunkStableDone
           \/ LeaseRelinquish \/ \E i \in Pos : Lose(i)
    PROVE  TypeInv'
  <1>1. CASE LeaseClerkExpires
    BY <1>1, Zenon DEF LeaseClerkExpires, TypeInv, ChainType, ClientType, MetaType,
                       appender, wires, metasrv
  <1>2. CASE BeginMakeChunkStable
    <2>1. MetaType'
      BY <1>2 DEF BeginMakeChunkStable, TypeInv, MetaType
    <2>. QED  BY <1>2, <2>1, Zenon DEF BeginMakeChunkStable, TypeInv, ChainType, ClientType,
                                       appender, wires
  <1>3. CASE BeginMakeChunkStableDone
    <2>1. MetaType'
      BY <1>3 DEF BeginMakeChunkStableDone, TypeInv, MetaType
    <2>. QED  BY <1>3, <2>1, Zenon DEF BeginMakeChunkStableDone, TypeInv, ChainType, ClientType,
                                       appender, wires
  <1>4. CASE LeaseRelinquish
    <2>1. MetaType'
      BY <1>4 DEF LeaseRelinquish, TypeInv, MetaType, metasrv
    <2>. QED  BY <1>4, <2>1, Zenon DEF LeaseRelinquish, TypeInv, ChainType, ClientType,
                                       appender, wires
  <1>5. ASSUME NEW i \in Pos, Lose(i)
        PROVE  TypeInv'
    <2>1. st' \in [Pos -> States]
      BY <1>5 DEF Lose, TypeInv, ChainType, States
    <2>. QED  BY <1>5, <2>1, Zenon DEF Lose, TypeInv, ChainType, ClientType, MetaType,
                                       wires, metasrv
  <1>. QED  BY <1>1, <1>2, <1>3, <1>4, <1>5

\* The reply to begin make stable keeps the types: the replica is cut at its
\* commit offset if it is longer.
LEMMA BeginMakeStableType ==
    ASSUME TypeInv, NEW i \in Pos, BeginMakeStable(i)
    PROVE  TypeInv'
  <1>. DEFINE mine == IF commit[i] < Len(data[i]) THEN Trimmed(i) ELSE data[i]
              live == st[i] \in {"open", "failed", "closed"}
  <1>1. mine \in Seq(Record)
    BY PrefixFacts DEF Trimmed, TypeInv, ChainType
  <1>. HIDE DEF mine
  <1>2. st' \in [Pos -> States] /\ data' \in [Pos -> Seq(Record)]
    BY <1>1 DEF BeginMakeStable, mine, TypeInv, ChainType, States
  <1>3. UNCHANGED <<commit, mcommit, ackSent, wid, wires, lease, acked, told, relinq, phase, mcs>>
    BY DEF BeginMakeStable
  <1>4. wait' \subseteq Pos /\ phase = "begin"
    BY DEF BeginMakeStable, TypeInv, MetaType
  <1>5. decision' \in {NoData} \cup Seq(Record)
    BY <1>1, Zenon DEF BeginMakeStable, mine, TypeInv, MetaType
  <1>6. ChainType' /\ ClientType'
    BY <1>2, <1>3, Zenon DEF TypeInv, ChainType, ClientType, wires
  <1>7. MetaType'
    BY <1>3, <1>4, <1>5 DEF TypeInv, MetaType
  <1>. QED  BY <1>6, <1>7 DEF TypeInv

\* Make chunk stable keeps the types: the replica is cut to the decision.
LEMMA MakeChunkStableType ==
    ASSUME TypeInv, NEW i \in Pos, MakeChunkStable(i)
    PROVE  TypeInv'
  <1>1. decision \in Seq(Record)
    BY DEF MakeChunkStable, TypeInv, MetaType
  <1>2. st' \in [Pos -> States]
    BY Zenon DEF MakeChunkStable, TypeInv, ChainType, States
  <1>3. \/ data' = data
        \/ data' = [data EXCEPT ![i] = decision]
    BY Zenon DEF MakeChunkStable, TypeInv, ChainType
  <1>4. data' \in [Pos -> Seq(Record)]
    BY <1>1, <1>3, Zenon DEF TypeInv, ChainType
  <1>5. /\ UNCHANGED <<commit, mcommit, ackSent, wid, wires, lease, acked, told, relinq>>
        /\ UNCHANGED <<phase, wait, decision>> /\ mcs' \subseteq mcs
    BY DEF MakeChunkStable
  <1>6. ChainType' /\ ClientType'
    BY <1>2, <1>4, <1>5, Zenon DEF TypeInv, ChainType, ClientType, wires
  <1>7. MetaType'
    BY <1>5 DEF TypeInv, MetaType
  <1>. QED  BY <1>6, <1>7 DEF TypeInv

\* The commit ack, the inquiry and the close keep the types.
LEMMA RequestType ==
    ASSUME TypeInv,
           \/ SendCommitAck
           \/ \E w \in Wids : CloseChunk(w) \/ \E i \in Pos : GetOpStatus(i, w)
    PROVE  TypeInv'
  <1>1. CASE SendCommitAck
    <2>. DEFINE a == [op |-> AppendOp("ack", NoWid, 0), ok |-> TRUE]
    <2>1. a \in Statuses
      BY NewOpType DEF Statuses
    <2>. HIDE DEF a
    <2>2. pend' = [pend EXCEPT ![1] = Append(pend[1], a)]
      BY <1>1 DEF SendCommitAck, a
    <2>3. Append(pend[1], a) \in Seq(Statuses)
      BY <2>1, PosFacts, AppendFacts DEF TypeInv, ChainType
    <2>4. pend' \in [Pos -> Seq(Statuses)]
      BY <2>2, <2>3, Zenon DEF TypeInv, ChainType
    <2>. QED  BY <1>1, <2>4, Zenon DEF SendCommitAck, TypeInv, ChainType, ClientType, MetaType,
                                       appender, metasrv
  <1>2. ASSUME NEW w \in Wids, CloseChunk(w)
        PROVE  TypeInv'
    <2>1. [wid[1][w] EXCEPT !.status = "erased"] \in WidInfo
      BY PosFacts, WidFacts, Zenon DEF TypeInv, ClientType
    <2>2. wid' \in [Pos -> [Wids -> WidInfo]]
      BY <1>2, <2>1, PosFacts DEF CloseChunk, TypeInv, ClientType
    <2>3. Append(link[1], CloseOp(w)) \in Seq(Ops)
      BY NewOpType, PosFacts, AppendFacts DEF TypeInv, ChainType
    <2>4. link' \in [Pos -> Seq(Ops)]
      BY <1>2, <2>3, Zenon DEF CloseChunk, TypeInv, ChainType
    <2>. QED  BY <1>2, <2>2, <2>4, Zenon DEF CloseChunk, TypeInv, ChainType, ClientType, MetaType,
                                             metasrv
  <1>3. ASSUME NEW w \in Wids, NEW i \in Pos, GetOpStatus(i, w)
        PROVE  TypeInv'
    <2>. DEFINE ws == wid[i][w]
                now == IF ws.status # "busy" THEN ws
                       ELSE IF st[i] = "stable"
                       THEN [ws EXCEPT !.status = IF ws.end <= Len(data[i]) THEN "ok" ELSE "bad"]
                       ELSE IF i > 1 THEN Settled(ws, mcommit[i]) ELSE ws
                t == [w |-> w, seq |-> ws.seq, status |-> now.status]
    <2>1. ws \in WidInfo /\ ws.status # "erased"
      <3>1. ws.status # "erased"
        BY <1>3, Zenon DEF GetOpStatus
      <3>. QED  BY <3>1 DEF TypeInv, ClientType
    <2>2. now \in WidInfo /\ now.status # "erased"
      <3>1. \A s \in {"ok", "bad"} : /\ [ws EXCEPT !.status = s] \in WidInfo
                                   /\ [ws EXCEPT !.status = s].status = s
        BY <2>1, WidFacts, Zenon DEF WidInfo
      <3>2. Settled(ws, mcommit[i]) \in WidInfo /\ Settled(ws, mcommit[i]).status # "erased"
        BY <2>1, <3>1, WidFacts, Zenon DEF Settled
      <3>. HIDE DEF ws
      <3>. QED  BY <2>1, <3>1, <3>2
    <2>. HIDE DEF now
    <2>3. [now EXCEPT !.ro = TRUE] \in WidInfo
      BY <2>2, WidFacts, Zenon
    <2>4. wid' = [wid EXCEPT ![i][w] = [now EXCEPT !.ro = TRUE]] /\ told' = told \cup {t}
      BY <1>3, Zenon DEF GetOpStatus, now
    <2>5. wid' \in [Pos -> [Wids -> WidInfo]]
      BY <2>3, <2>4 DEF TypeInv, ClientType
    <2>6. t \in [w : Wids, seq : 0 .. MaxOps, status : {"ok", "busy", "bad"}]
      BY <2>1, <2>2 DEF WidInfo
    <2>7. told' \subseteq [w : Wids, seq : 0 .. MaxOps, status : {"ok", "busy", "bad"}]
      BY <2>4, <2>6, Zenon DEF TypeInv, ClientType
    <2>. QED  BY <1>3, <2>5, <2>7, Zenon DEF GetOpStatus, TypeInv, ChainType, ClientType, MetaType,
                                             wires, metasrv
  <1>. QED  BY <1>1, <1>2, <1>3

\* What a forwarded close does to the wires.
LEMMA CloseForwardedFacts ==
    ASSUME TypeInv, NEW i \in Pos, CloseForwarded(i)
    PROVE  /\ i > 1 /\ i - 1 \in Pos /\ link[i - 1] # <<>>
           /\ Head(link[i - 1]) \in Ops /\ Head(link[i - 1]).kind = "close"
           /\ link' \in [Pos -> Seq(Ops)]
           /\ link'[i - 1] = Tail(link[i - 1])
           /\ \A j \in Pos : j # i - 1 =>
                 link'[j] = link[j] \/ link'[j] = Append(link[j], Head(link[i - 1]))
           /\ UNCHANGED <<st, data, commit, pend, flight, reply, acked, relinq, metasrv>>
  <1>. DEFINE m == Head(link[i - 1])
  <1>1. i > 1 /\ link[i - 1] # <<>> /\ m.kind = "close"
    BY Zenon DEF CloseForwarded
  <1>2. i - 1 \in Pos
    BY <1>1, ChainAssumption DEF Pos
  <1>3. m \in Ops /\ Tail(link[i - 1]) \in Seq(Ops)
    BY <1>1, <1>2, TailFacts DEF TypeInv, ChainType
  <1>. HIDE DEF m
  <1>4. \A j \in Pos : Append(link[j], m) \in Seq(Ops)
    BY <1>3, AppendFacts DEF TypeInv, ChainType
  <1>5. PICK done :
           link' = [j \in Pos |-> IF j = i - 1 THEN Tail(link[j])
                                  ELSE IF j = i /\ i < N /\ done THEN Append(link[j], m)
                                  ELSE link[j]]
    BY Zenon DEF CloseForwarded, m
  <1>6. /\ link'[i - 1] = Tail(link[i - 1])
        /\ \A j \in Pos : j # i - 1 => link'[j] = link[j] \/ link'[j] = Append(link[j], m)
    BY <1>2, <1>5
  <1>7. link' \in [Pos -> Seq(Ops)]
    <2>1. \A j \in Pos : link'[j] \in Seq(Ops)
      BY <1>3, <1>4, <1>6, Zenon DEF TypeInv, ChainType
    <2>2. link' = [j \in Pos |-> link'[j]]
      BY <1>5
    <2>. QED  BY <2>1, <2>2
  <1>8. UNCHANGED <<st, data, commit, pend, flight, reply, acked, relinq, metasrv>>
    BY Zenon DEF CloseForwarded
  <1>. QED  BY <1>1, <1>2, <1>3, <1>6, <1>7, <1>8, Zenon DEF m

\* A forwarded close keeps the types.
LEMMA CloseForwardedType ==
    ASSUME TypeInv, NEW i \in Pos, CloseForwarded(i)
    PROVE  TypeInv'
  <1>. DEFINE m == Head(link[i - 1])
              mc == NewMasterCommit(i, m.mc)
              upto == IF st[i] = "stable" THEN Len(data[i]) ELSE mc
              ws == Settled(wid[i][m.w], upto)
  <1>1. /\ link' \in [Pos -> Seq(Ops)] /\ m \in Ops /\ m.kind = "close"
        /\ UNCHANGED <<st, data, commit, pend, flight, reply, acked, relinq, metasrv>>
    BY CloseForwardedFacts, Zenon
  <1>2. m.w \in Wids /\ m.mc \in Int
    BY <1>1 DEF Ops, OpT
  <1>3. mc \in Nat
    BY <1>2 DEF NewMasterCommit, TypeInv, ClientType, ChainType
  <1>4. ws \in WidInfo /\ [ws EXCEPT !.status = "erased"] \in WidInfo
    <2>1. wid[i][m.w] \in WidInfo
      BY <1>2 DEF TypeInv, ClientType
    <2>2. ws \in WidInfo
      BY <2>1, WidFacts, Zenon
    <2>. QED  BY <2>2, WidFacts, Zenon
  <1>. HIDE DEF m, mc, ws
  <1>5. mcommit' = mcommit \/ mcommit' = [mcommit EXCEPT ![i] = mc]
    BY Zenon DEF CloseForwarded, m, mc
  <1>6. \/ wid' = wid
        \/ wid' = [wid EXCEPT ![i][m.w] = ws]
        \/ wid' = [wid EXCEPT ![i][m.w] = [ws EXCEPT !.status = "erased"]]
    BY Zenon DEF CloseForwarded, m, mc, ws
  <1>7. UNCHANGED <<ackSent, lease, told>>
    BY Zenon DEF CloseForwarded
  <1>8. wid' \in [Pos -> [Wids -> WidInfo]]
    <2>1. CASE wid' = wid
      BY <2>1, Zenon DEF TypeInv, ClientType
    <2>2. CASE wid' = [wid EXCEPT ![i][m.w] = ws]
      BY <1>2, <1>4, <2>2 DEF TypeInv, ClientType
    <2>3. CASE wid' = [wid EXCEPT ![i][m.w] = [ws EXCEPT !.status = "erased"]]
      BY <1>2, <1>4, <2>3 DEF TypeInv, ClientType
    <2>. QED  BY <1>6, <2>1, <2>2, <2>3, Zenon
  <1>9. ClientType'
    BY <1>1, <1>3, <1>5, <1>7, <1>8, Zenon DEF TypeInv, ClientType
  <1>10. ChainType' /\ MetaType'
    BY <1>1, Zenon DEF TypeInv, ChainType, MetaType, metasrv
  <1>. QED  BY <1>9, <1>10 DEF TypeInv

\* Every step keeps the types, as long as an open master has not committed
\* past the end of its replica.
LEMMA TypeStep ==
    ASSUME TypeInv, MasterBound, [Next]_vars
    PROVE  TypeInv'
  <1>1. CASE UNCHANGED vars
    BY <1>1, Zenon DEF vars, appender, wires, metasrv, TypeInv, ChainType, ClientType, MetaType
  <1>2. ASSUME NEW w \in Wids, ClientAppend(w) \/ CloseChunk(w)
        PROVE  TypeInv'
    BY <1>2, ClientAppendType, RequestType
  <1>3. CASE LeaseExpired \/ SendCommitAck \/ TryToCloseChunk \/ LeaseClerkExpires
    BY <1>3, FailsType, RequestType, SimpleType
  <1>4. ASSUME NEW i \in Pos,
               \/ AppendBegin(i) \/ RunPendingSubmitQueue(i) \/ OpDone(i) \/ PeerFailed(i)
               \/ ReplicationTimeout(i) \/ Lose(i) \/ CloseForwarded(i)
               \/ BeginMakeStable(i) \/ MakeChunkStable(i)
        PROVE  TypeInv'
    BY <1>4, AppendBeginType, RunType, OpDoneType, PeerFailedType, FailsType, SimpleType,
       CloseForwardedType, BeginMakeStableType, MakeChunkStableType
  <1>5. ASSUME NEW i \in Pos, NEW w \in Wids, GetOpStatus(i, w) \/ InvalidateWriteId(i, w)
        PROVE  TypeInv'
    BY <1>5, RequestType, FailsType
  <1>6. CASE BeginMakeChunkStable \/ BeginMakeChunkStableDone \/ LeaseRelinquish
    BY <1>6, SimpleType
  <1>. QED  BY <1>1, <1>2, <1>3, <1>4, <1>5, <1>6 DEF Next

\* The stronger types imply the ones the model declares.
LEMMA TypesDeclared == TypeInv => TypeOK
  <1>. SUFFICES ASSUME TypeInv PROVE TypeOK
    OBVIOUS
  <1>1. Ops \subseteq OpT /\ Statuses \subseteq [op : OpT, ok : BOOLEAN]
    BY DEF Ops, Statuses
  <1>2. \A s \in Seq(Ops) : s \in Seq(OpT)
    BY <1>1, SeqMonotonic, Zenon
  <1>3. \A s \in Seq(Statuses) : s \in Seq([op : OpT, ok : BOOLEAN])
    BY <1>1, SeqMonotonic, Zenon
  <1>4. /\ flight \in [Pos -> Seq(OpT)] /\ link \in [Pos -> Seq(OpT)]
        /\ pend \in [Pos -> Seq([op : OpT, ok : BOOLEAN])]
        /\ reply \in [Pos -> Seq([op : OpT, ok : BOOLEAN])]
    BY <1>2, <1>3 DEF TypeInv, ChainType
  <1>. QED  BY <1>4, Zenon DEF TypeInv, ChainType, ClientType, MetaType, TypeOK

-----------------------------------------------------------------------------
(* Stable replicas.                                                        *)

\* No step touches a stable replica, and the decision is final.
LEMMA StableStep ==
    ASSUME TypeInv, StableIsChosen, [Next]_vars
    PROVE  StableIsChosen'
  <1>. SUFFICES ASSUME NEW j \in Pos, st'[j] = "stable"
                PROVE  phase' = "decided" /\ data'[j] = decision'
    BY DEF StableIsChosen
  <1>. DEFINE Kept == st'[j] = st[j] /\ data'[j] = data[j]
              Same == UNCHANGED <<phase, decision>>
  <1>1. Kept /\ Same => phase' = "decided" /\ data'[j] = decision'
    BY DEF StableIsChosen
  <1>2. ASSUME NEW i \in Pos, st[i] = "open", SetFailed(i)
        PROVE  Kept
    BY <1>2, PosFacts DEF SetFailed, TypeInv, ChainType
  <1>3. CASE UNCHANGED vars
    BY <1>1, <1>3, Zenon DEF vars, appender, metasrv
  <1>4. ASSUME NEW w \in Wids, ClientAppend(w)
        PROVE  Kept /\ Same
    BY <1>4, PosFacts DEF ClientAppend, metasrv, TypeInv, ChainType
  <1>5. CASE \/ SendCommitAck \/ LeaseClerkExpires
             \/ \E w \in Wids : CloseChunk(w) \/ \E i \in Pos : GetOpStatus(i, w)
    <2>1. Kept /\ Same
      BY <1>5, Zenon DEF SendCommitAck, LeaseClerkExpires, CloseChunk, GetOpStatus, appender, metasrv
    <2>. QED  BY <1>1, <2>1
  <1>6. CASE LeaseExpired \/ TryToCloseChunk
    BY <1>1, <1>2, <1>6, PosFacts DEF LeaseExpired, TryToCloseChunk, metasrv
  <1>7. ASSUME NEW i \in Pos, ReplicationTimeout(i) \/ \E w \in Wids : InvalidateWriteId(i, w)
        PROVE  Kept /\ Same
    BY <1>2, <1>7 DEF ReplicationTimeout, InvalidateWriteId, metasrv
  <1>8. ASSUME NEW i \in Pos, AppendBegin(i)
        PROVE  Kept /\ Same
    <2>1. PICK ok \in BOOLEAN : Takes(i, Head(link[i - 1]), ok)
      BY <1>8, AppendBeginFacts
    <2>. QED  BY <2>1 DEF Takes, metasrv, TypeInv, ChainType
  <1>9. ASSUME NEW i \in Pos, RunPendingSubmitQueue(i)
        PROVE  Kept /\ Same
    <2>1. PICK good, sent, refused : Runs(i, good, sent, refused)
      BY <1>9, RunFacts
    <2>. QED  BY <1>2, <2>1, Zenon DEF Runs, KeepState, metasrv
  <1>10. ASSUME NEW i \in Pos, OpDone(i) \/ PeerFailed(i)
         PROVE  Kept /\ Same
    BY <1>2, <1>10, Zenon DEF OpDone, PeerFailed, KeepState, metasrv
  <1>11. ASSUME NEW i \in Pos, Lose(i) \/ CloseForwarded(i)
         PROVE  Kept /\ Same
    <2>1. CASE Lose(i)
      BY <2>1 DEF Lose, metasrv, TypeInv, ChainType
    <2>2. CASE CloseForwarded(i)
      BY <2>2, CloseForwardedFacts, Zenon DEF metasrv
    <2>. QED  BY <1>11, <2>1, <2>2
  <1>12. ASSUME NEW i \in Pos, BeginMakeStable(i)
         PROVE  FALSE
    <2>1. phase = "begin" /\ st[j] # "stable"
      BY <1>12 DEF BeginMakeStable, TypeInv, MetaType, StableIsChosen
    <2>. QED  BY <1>12, <2>1 DEF BeginMakeStable, TypeInv, ChainType
  <1>13. ASSUME NEW i \in Pos, MakeChunkStable(i)
         PROVE  phase' = "decided" /\ data'[j] = decision'
    <2>1. phase = "decided" /\ Same
      BY <1>13 DEF MakeChunkStable, TypeInv, MetaType
    <2>2. CASE j = i /\ st[i] \in {"open", "failed", "closed"}
      BY <1>13, <2>1, <2>2 DEF MakeChunkStable, TypeInv, ChainType
    <2>3. CASE ~(j = i /\ st[i] \in {"open", "failed", "closed"})
      <3>1. Kept
        BY <1>13, <2>3 DEF MakeChunkStable, TypeInv, ChainType
      <3>. QED  BY <1>1, <2>1, <3>1
    <2>. QED  BY <2>2, <2>3
  <1>14. CASE BeginMakeChunkStable \/ BeginMakeChunkStableDone \/ LeaseRelinquish
    BY <1>14, Zenon DEF BeginMakeChunkStable, BeginMakeChunkStableDone, LeaseRelinquish,
                        StableIsChosen, appender, metasrv
  <1>. QED  BY <1>1, <1>3, <1>4, <1>5, <1>6, <1>7, <1>8, <1>9, <1>10, <1>11, <1>12, <1>13, <1>14
            DEF Next

-----------------------------------------------------------------------------
(* Offsets: the chain, and the invariant about it.                         *)

Open(i)  == st[i] = "open"
App(o)   == o.kind = "append"
OkApp(a) == a.ok /\ a.op.kind = "append"

\* The appends of f have increasing offsets from c to before d.
Ordered(f, c, d) ==
    /\ \A k \in 1 .. Len(f) : App(f[k]) => c <= f[k].off /\ f[k].off < d
    /\ \A j, k \in 1 .. Len(f) : j < k /\ App(f[j]) /\ App(f[k]) => f[j].off < f[k].off

\* The same of the successful appends among the statuses q.
OrderedOk(q, c, d) ==
    /\ \A k \in 1 .. Len(q) : OkApp(q[k]) => c <= q[k].op.off /\ q[k].op.off < d
    /\ \A j, k \in 1 .. Len(q) : j < k /\ OkApp(q[j]) /\ OkApp(q[k]) =>
          q[j].op.off < q[k].op.off

\* Nothing is accepted behind a refused op.
OkFirst(q) == \A j, k \in 1 .. Len(q) : j < k /\ q[k].ok => q[j].ok

\* The appends of f come before the accepted ones of q.
Before(f, q) == \A j \in 1 .. Len(f), k \in 1 .. Len(q) :
                   App(f[j]) /\ OkApp(q[k]) => f[j].off < q[k].op.off
Has(f, o) == \E k \in 1 .. Len(f) : f[k] = o

\* The successful appends of q, or all appends of g, are in f.
OkIn(q, f)  == \A k \in 1 .. Len(q) : OkApp(q[k]) => Has(f, q[k].op)
AppsIn(g, f) == \A k \in 1 .. Len(g) : App(g[k]) => Has(f, g[k])

\* Every offset from c to before d is the one of a successful append of q.
Covers(q, c, d) == \A o \in c .. d - 1 : \E k \in 1 .. Len(q) : OkApp(q[k]) /\ q[k].op.off = o

\* The first reply is taken: a successful append is the next one to commit.
LEMMA OkTail ==
    ASSUME NEW q \in Seq(Statuses), q # <<>>, NEW c \in Nat, NEW d \in Nat,
           OrderedOk(q, c, d), Covers(q, c, d)
    PROVE  /\ OkApp(Head(q)) => /\ Head(q).op.off = c /\ c < d
                                /\ OrderedOk(Tail(q), c + 1, d) /\ Covers(Tail(q), c + 1, d)
           /\ ~OkApp(Head(q)) => OrderedOk(Tail(q), c, d) /\ Covers(Tail(q), c, d)
           /\ \A f : OkIn(q, f) => OkIn(Tail(q), f)
  <1>. DEFINE t == Tail(q)
  <1>1. /\ Len(t) = Len(q) - 1 /\ 1 \in 1 .. Len(q) /\ Head(q) = q[1]
        /\ \A k \in 1 .. Len(t) : k + 1 \in 1 .. Len(q) /\ t[k] = q[k + 1] /\ 1 < k + 1
    BY TailFacts
  <1>2. Len(q) \in Nat /\ \A k \in 1 .. Len(q) : q[k].op.off \in Nat
    BY StatusFacts DEF Ops, OpT
  <1>. HIDE DEF t
  <1>3. OrderedOk(t, c, d)
    <2>1. \A j, k \in 1 .. Len(t) : j < k => j + 1 < k + 1
      BY <1>1, <1>2
    <2>. QED  BY <1>1, <2>1, Zenon DEF OrderedOk
  <1>4. ASSUME NEW k \in 1 .. Len(q), k # 1 PROVE \E j \in 1 .. Len(t) : t[j] = q[k]
    <2>1. k - 1 \in 1 .. Len(t) /\ (k - 1) + 1 = k
      BY <1>1, <1>2, <1>4
    <2>. QED  BY <1>1, <2>1, Zenon
  <1>5. ASSUME OkApp(q[1]) PROVE /\ q[1].op.off = c /\ c < d
                                 /\ OrderedOk(t, c + 1, d) /\ Covers(t, c + 1, d)
    <2>1. c <= q[1].op.off /\ q[1].op.off < d
      BY <1>1, <1>5, Zenon DEF OrderedOk
    <2>2. c < d /\ c \in c .. d - 1
      BY <1>1, <1>2, <2>1
    <2>3. PICK k \in 1 .. Len(q) : OkApp(q[k]) /\ q[k].op.off = c
      BY <2>2, Zenon DEF Covers
    <2>4. k = 1
      <3>. SUFFICES ASSUME 1 < k PROVE FALSE
        BY <1>2
      <3>1. q[1].op.off < q[k].op.off
        BY <1>1, <1>5, <2>3, Zenon DEF OrderedOk
      <3>. QED  BY <1>1, <1>2, <2>1, <2>3, <3>1
    <2>5. ASSUME NEW j \in 1 .. Len(t), OkApp(t[j]) PROVE c + 1 <= t[j].op.off /\ t[j].op.off < d
      <3>1. q[1].op.off < t[j].op.off
        BY <1>1, <1>5, <2>5, Zenon DEF OrderedOk
      <3>2. t[j].op.off < d
        BY <1>3, <2>5, Zenon DEF OrderedOk
      <3>. QED  BY <1>1, <1>2, <2>3, <2>4, <3>1, <3>2
    <2>6. OrderedOk(t, c + 1, d)
      BY <1>3, <2>5, Zenon DEF OrderedOk
    <2>7. Covers(t, c + 1, d)
      <3>. SUFFICES ASSUME NEW o \in c + 1 .. d - 1
                    PROVE  \E j \in 1 .. Len(t) : OkApp(t[j]) /\ t[j].op.off = o
        BY Zenon DEF Covers
      <3>1. o \in c .. d - 1 /\ o # c
        OBVIOUS
      <3>2. PICK m \in 1 .. Len(q) : OkApp(q[m]) /\ q[m].op.off = o
        BY <3>1, Zenon DEF Covers
      <3>3. m # 1
        BY <2>3, <2>4, <3>1, <3>2
      <3>. QED  BY <1>4, <3>2, <3>3, Zenon
    <2>. QED  BY <2>2, <2>3, <2>4, <2>6, <2>7
  <1>6. ASSUME ~OkApp(q[1]) PROVE Covers(t, c, d)
    <2>. SUFFICES ASSUME NEW o \in c .. d - 1
                  PROVE  \E j \in 1 .. Len(t) : OkApp(t[j]) /\ t[j].op.off = o
      BY DEF Covers
    <2>1. PICK m \in 1 .. Len(q) : OkApp(q[m]) /\ q[m].op.off = o
      BY Zenon DEF Covers
    <2>. QED  BY <1>4, <1>6, <2>1, Zenon
  <1>7. \A f : OkIn(q, f) => OkIn(t, f)
    BY <1>1, Zenon DEF OkIn
  <1>. QED  BY <1>1, <1>3, <1>5, <1>6, <1>7, Zenon DEF t

\* sent is what is forwarded of the queue q: its first ops, all accepted.
SentOf(sent, q) ==
    /\ Len(sent) <= Len(q)
    /\ \A k \in 1 .. Len(sent) : /\ q[k].ok
                                 /\ sent[k].kind = q[k].op.kind /\ sent[k].off = q[k].op.off

\* What is forwarded keeps the order of the queue.
LEMMA SentOrdered ==
    ASSUME NEW q \in Seq(Statuses), NEW sent \in Seq(Ops), SentOf(sent, q)
    PROVE  /\ \A c, d : OrderedOk(q, c, d) => Ordered(sent, c, d)
           /\ \A f : Before(f, q) => \A j \in 1 .. Len(f), k \in 1 .. Len(sent) :
                        App(f[j]) /\ App(sent[k]) => f[j].off < sent[k].off
           /\ \A f : OkIn(q, f) /\ (\A k \in 1 .. Len(sent) : sent[k] = q[k].op) => AppsIn(sent, f)
  <1>1. \A k \in 1 .. Len(sent) : k \in 1 .. Len(q)
    BY DEF SentOf
  <1>2. \A k \in 1 .. Len(sent) : App(sent[k]) => OkApp(q[k])
    BY <1>1, Zenon DEF SentOf, App, OkApp
  <1>3. \A k \in 1 .. Len(sent) : sent[k].off = q[k].op.off
    BY Zenon DEF SentOf
  <1>4. ASSUME NEW c, NEW d, OrderedOk(q, c, d) PROVE Ordered(sent, c, d)
    BY <1>1, <1>2, <1>3, <1>4, Zenon DEF Ordered, OrderedOk
  <1>5. ASSUME NEW f, Before(f, q), NEW j \in 1 .. Len(f), NEW k \in 1 .. Len(sent),
               App(f[j]), App(sent[k])
        PROVE  f[j].off < sent[k].off
    BY <1>1, <1>2, <1>3, <1>5, Zenon DEF Before
  <1>6. ASSUME NEW f, OkIn(q, f), \A k \in 1 .. Len(sent) : sent[k] = q[k].op
        PROVE  AppsIn(sent, f)
    BY <1>1, <1>2, <1>6, Zenon DEF OkIn, AppsIn
  <1>. QED  BY <1>4, <1>5, <1>6, Zenon

\* The last position of the chain commits what is accepted: its commit offset
\* moves from c to the end d of its replica, and the replies say so.
LEMMA LastCommits ==
    ASSUME Counting, NEW q \in Seq(Statuses), NEW sent \in Seq(Ops), SentOf(sent, q),
           NEW c \in Nat, NEW d \in Nat, c <= d,
           OrderedOk(q, c, d), OkFirst(q), Covers(q, c, d),
           Len(sent) < Len(q) => ~q[Len(sent) + 1].ok
    PROVE  /\ Cardinality(AppendsOf(sent)) = d - c
           /\ OrderedOk(Answer(sent, TRUE), c, d) /\ Covers(Answer(sent, TRUE), c, d)
           /\ \A f : OkIn(q, f) /\ (\A k \in 1 .. Len(sent) : sent[k] = q[k].op)
                     => OkIn(Answer(sent, TRUE), f)
  <1>. DEFINE A == AppendsOf(sent)
              f == [k \in A |-> sent[k].off]
  <1>0. /\ Len(sent) \in Nat /\ Len(q) \in Nat /\ Ordered(sent, c, d)
        /\ \A k \in 1 .. Len(sent) : sent[k].off \in Nat
        /\ \A k : k \in A <=> k \in 1 .. Len(sent) /\ App(sent[k])
    <2>1. Ordered(sent, c, d)
      BY SentOrdered, Zenon
    <2>2. \A k \in 1 .. Len(sent) : sent[k].off \in Nat
      BY DEF Ops, OpT
    <2>3. \A k : k \in A <=> k \in 1 .. Len(sent) /\ App(sent[k])
      BY DEF AppendsOf, App
    <2>4. Len(sent) \in Nat /\ Len(q) \in Nat
      OBVIOUS
    <2>. QED  BY <2>1, <2>2, <2>3, <2>4, Zenon
  <1>. HIDE DEF A
  <1>1. ASSUME NEW o \in c .. d - 1 PROVE \E k \in A : sent[k].off = o
    <2>1. PICK k \in 1 .. Len(q) : OkApp(q[k]) /\ q[k].op.off = o
      BY <1>1, Zenon DEF Covers
    <2>2. k \in 1 .. Len(sent)
      <3>. SUFFICES ASSUME Len(sent) < k PROVE FALSE
        BY <1>0
      <3>1. Len(sent) + 1 \in 1 .. Len(q) /\ Len(sent) < Len(q)
        BY <1>0
      <3>2. q[Len(sent) + 1].ok
        <4>1. CASE Len(sent) + 1 = k
          BY <2>1, <4>1 DEF OkApp
        <4>2. CASE Len(sent) + 1 < k
          BY <2>1, <3>1, <4>2, Zenon DEF OkFirst, OkApp
        <4>. QED  BY <1>0, <4>1, <4>2
      <3>. QED  BY <3>1, <3>2
    <2>3. sent[k].off = o /\ App(sent[k])
      BY <2>1, <2>2, Zenon DEF SentOf, App, OkApp
    <2>. QED  BY <1>0, <2>2, <2>3
  <1>2. \A k \in A : sent[k].off \in c .. d - 1
    BY <1>0 DEF Ordered
  <1>3. \A j, k \in A : j # k => sent[j].off # sent[k].off
    <2>. SUFFICES ASSUME NEW j \in A, NEW k \in A, j < k PROVE sent[j].off # sent[k].off
      BY <1>0
    <2>1. sent[j].off < sent[k].off
      BY <1>0, Zenon DEF Ordered
    <2>. QED  BY <1>0, <2>1
  <1>4. Cardinality(A) = d - c
    <2>1. f \in Bijection(A, c .. d - 1)
      <3>1. f \in [A -> c .. d - 1]
        BY <1>2
      <3>2. f \in Injection(A, c .. d - 1)
        BY <1>3, <3>1 DEF Injection, IsInjective
      <3>3. f \in Surjection(A, c .. d - 1)
        BY <1>1, <3>1, Zenon DEF Surjection
      <3>. QED  BY <3>2, <3>3 DEF Bijection
    <2>2. ExistsBijection(A, c .. d - 1)
      BY <2>1 DEF ExistsBijection
    <2>. QED  BY <2>2, Zenon DEF A, Counting
  <1>. DEFINE r == Answer(sent, TRUE)
  <1>5. /\ Len(r) = Len(sent)
        /\ \A k \in 1 .. Len(sent) : r[k].op = sent[k] /\ r[k].ok
    BY AnswerFacts, Zenon
  <1>. HIDE DEF r
  <1>6. \A k \in 1 .. Len(r) : OkApp(r[k]) <=> App(sent[k])
    BY <1>5, Zenon DEF OkApp, App
  <1>7. OrderedOk(r, c, d)
    BY <1>0, <1>5, <1>6, Zenon DEF Ordered, OrderedOk
  <1>8. Covers(r, c, d)
    <2>. SUFFICES ASSUME NEW o \in c .. d - 1
                  PROVE  \E k \in 1 .. Len(r) : OkApp(r[k]) /\ r[k].op.off = o
      BY DEF Covers
    <2>1. PICK k \in A : sent[k].off = o
      BY <1>1
    <2>2. k \in 1 .. Len(sent) /\ App(sent[k])
      BY <1>0
    <2>. QED  BY <1>5, <1>6, <2>1, <2>2
  <1>9. ASSUME NEW g, OkIn(q, g), \A k \in 1 .. Len(sent) : sent[k] = q[k].op
        PROVE  OkIn(r, g)
    <2>1. AppsIn(sent, g)
      BY <1>9, SentOrdered, Zenon
    <2>. QED  BY <1>5, <1>6, <2>1, Zenon DEF AppsIn, OkIn
  <1>. QED  BY <1>4, <1>7, <1>8, <1>9, Zenon DEF A, r

\* No position has committed more than it has, or more than its successors.
Commits ==
    /\ \A i \in Pos : st[i] # "stable" \/ i = 1 => commit[i] <= Len(data[i])
    /\ \A i, j \in Pos : i <= j => commit[i] <= commit[j]
    /\ flight[N] = <<>>
    /\ \A k \in 1 .. Len(pend[1]) : pend[1][k].ok

\* What is in flight at an open position, and behind it what waits to be
\* forwarded, lies between its commit offset and the end of its replica.
Local(i) ==
    Open(i) => /\ Ordered(flight[i], commit[i], Len(data[i]))
               /\ OrderedOk(pend[i], commit[i], Len(data[i]))
               /\ OkFirst(pend[i]) /\ Before(flight[i], pend[i])

\* Between an open position and its successor: the replies are what the
\* successor committed and the position has not; if the successor is open too,
\* what it has in hand is in flight at the position, and what is on the wire
\* comes next.
Edge(i) ==
    /\ Open(i) => /\ Len(data[i + 1]) <= Len(data[i])
                  /\ OrderedOk(reply[i], commit[i], commit[i + 1])
                  /\ Covers(reply[i], commit[i], commit[i + 1])
                  /\ OkIn(reply[i], flight[i])
    /\ Open(i) /\ Open(i + 1) =>
          /\ Ordered(link[i], Len(data[i + 1]), Len(data[i]))
          /\ AppsIn(link[i], flight[i])
          /\ OrderedOk(pend[i], Len(data[i + 1]), Len(data[i]))
          /\ AppsIn(flight[i + 1], flight[i]) /\ OkIn(pend[i + 1], flight[i])

\* The last position commits what it accepts when it runs its queue.
LastWaits == Open(N) => Covers(pend[N], commit[N], Len(data[N]))

ChainInv ==
    /\ Commits
    /\ \A i \in Pos : Local(i)
    /\ \A i \in Pos : i < N => Edge(i)
    /\ LastWaits

\* The neighbours of a position.
LEMMA Neighbours ==
    ASSUME NEW i \in Pos
    PROVE  /\ i < N => /\ i + 1 \in Pos /\ i + 1 # i /\ i # i - 1 /\ N # i /\ i # N
                       /\ i <= i + 1 /\ i + 1 # i - 1
           /\ ~(i < N) => i = N
           /\ i > 1 => /\ i - 1 \in Pos /\ i - 1 # i /\ (i - 1) + 1 = i /\ i - 1 < N
                       /\ i - 1 <= i /\ i # 1 /\ i # i - 1
           /\ \A j \in Pos : (i <= j /\ j # i => i + 1 <= j) /\ (N <= j => j = N)
           /\ 1 <= i /\ ~(N < N)
  BY ChainAssumption DEF Pos

\* Offsets are numbers.
LEMMA OpOffsets ==
    /\ \A s \in Seq(Ops) : \A k \in 1 .. Len(s) : s[k] \in Ops /\ s[k].off \in Nat
    /\ \A q \in Seq(Statuses) : \A k \in 1 .. Len(q) : q[k].op \in Ops /\ q[k].op.off \in Nat
  BY StatusFacts DEF Ops, OpT

\* The state of one position has its types.
LEMMA PositionTypes ==
    ASSUME TypeInv, NEW i \in Pos
    PROVE  /\ st[i] \in States /\ data[i] \in Seq(Record) /\ Len(data[i]) \in Nat
           /\ commit[i] \in Nat /\ pend[i] \in Seq(Statuses) /\ reply[i] \in Seq(Statuses)
           /\ flight[i] \in Seq(Ops) /\ link[i] \in Seq(Ops)
  <1>1. /\ st[i] \in States /\ data[i] \in Seq(Record) /\ commit[i] \in Nat
        /\ pend[i] \in Seq(Statuses) /\ reply[i] \in Seq(Statuses)
        /\ flight[i] \in Seq(Ops) /\ link[i] \in Seq(Ops)
    BY Zenon DEF TypeInv, ChainType
  <1>. QED  BY <1>1

\* A position that fails keeps what it committed.
LEMMA SetFailedFacts ==
    ASSUME TypeInv, ChainInv, NEW i \in Pos, st[i] = "open", SetFailed(i)
    PROVE  /\ st'[i] # "open" /\ st'[i] # "stable"
           /\ Len(data'[i]) <= Len(data[i]) /\ commit[i] <= Len(data'[i])
           /\ \A j \in Pos : j # i => st'[j] = st[j] /\ data'[j] = data[j]
           /\ i # 1 => data' = data
  <1>0. commit[i] <= Len(data[i]) /\ commit[i] \in Nat /\ Len(data[i]) \in Nat
        /\ data[i] \in Seq(Record)
    BY PositionTypes DEF ChainInv, Commits
  <1>1. CASE i = 1
    <2>1. Len(Trimmed(1)) = commit[1]
      BY <1>0, <1>1, PrefixFacts DEF Trimmed
    <2>. QED  BY <1>0, <1>1, <2>1 DEF SetFailed, TypeInv, ChainType
  <1>2. CASE i # 1
    BY <1>0, <1>2 DEF SetFailed, TypeInv, ChainType
  <1>. QED  BY <1>1, <1>2

\* The indices of a sequence of ops.
LEMMA SequenceDomain == \A s \in Seq(Ops) : DOMAIN s = 1 .. Len(s)
  OBVIOUS

\* What the master relinquished, or the meta server has been told, is not
\* short of what its author committed, and its author commits no more.
Decided ==
    /\ relinq # NoData => ~Open(1) /\ commit[1] <= Len(relinq)
    /\ decision # NoData => \E j \in Pos : ~Open(j) /\ commit[j] <= Len(decision)

\* The bound the types rest on.
LEMMA ChainBound == ChainInv => MasterBound
  BY PosFacts, Zenon DEF ChainInv, Commits, MasterBound

\* The parts of a wire and of a queue.
LEMMA WireParts ==
    /\ \A s \in Seq(Ops) : s # <<>> =>
          /\ Head(s) \in Ops /\ Has(s, Head(s))
          /\ \A k \in 1 .. Len(Tail(s)) : Has(s, Tail(s)[k])
    /\ \A s \in Seq(Ops), o \in Ops : \A k \in 1 .. Len(Append(s, o)) :
          Has(s, Append(s, o)[k]) \/ Append(s, o)[k] = o
    /\ \A s \in Seq(Ops), n \in Nat : n <= Len(s) =>
          \A k \in 1 .. Len(SubSeq(s, 1, n)) : Has(s, SubSeq(s, 1, n)[k])
    /\ \A s, t \in Seq(Ops) : \A k \in 1 .. Len(s \o t) :
          Has(s, (s \o t)[k]) \/ \E l \in 1 .. Len(t) : (s \o t)[k] = t[l]
    /\ \A q \in Seq(Statuses), a \in Statuses : \A k \in 1 .. Len(Append(q, a)) :
          (\E l \in 1 .. Len(q) : q[l] = Append(q, a)[k]) \/ Append(q, a)[k] = a
  <1>1. ASSUME NEW s \in Seq(Ops), s # <<>>
        PROVE  /\ Head(s) \in Ops /\ Has(s, Head(s))
               /\ \A k \in 1 .. Len(Tail(s)) : Has(s, Tail(s)[k])
    <2>1. /\ Head(s) \in Ops /\ 1 \in 1 .. Len(s) /\ Head(s) = s[1]
          /\ \A k \in 1 .. Len(Tail(s)) : k + 1 \in 1 .. Len(s) /\ Tail(s)[k] = s[k + 1]
      BY <1>1, TailFacts
    <2>. QED  BY <2>1, Zenon DEF Has
  <1>2. ASSUME NEW s \in Seq(Ops), NEW o \in Ops, NEW k \in 1 .. Len(Append(s, o))
        PROVE  Has(s, Append(s, o)[k]) \/ Append(s, o)[k] = o
    <2>1. (k \in 1 .. Len(s) /\ Append(s, o)[k] = s[k]) \/ Append(s, o)[k] = o
      BY AppendFacts
    <2>. QED  BY <2>1, Zenon DEF Has
  <1>3. ASSUME NEW s \in Seq(Ops), NEW n \in Nat, n <= Len(s), NEW k \in 1 .. Len(SubSeq(s, 1, n))
        PROVE  Has(s, SubSeq(s, 1, n)[k])
    <2>1. k \in 1 .. Len(s) /\ SubSeq(s, 1, n)[k] = s[k]
      <3>1. n \in 0 .. Len(s)
        BY <1>3
      <3>. QED  BY <3>1, PrefixFacts
    <2>. QED  BY <2>1, Zenon DEF Has
  <1>4. ASSUME NEW s \in Seq(Ops), NEW t \in Seq(Ops), NEW k \in 1 .. Len(s \o t)
        PROVE  Has(s, (s \o t)[k]) \/ \E l \in 1 .. Len(t) : (s \o t)[k] = t[l]
    <2>1. \/ k \in 1 .. Len(s) /\ (s \o t)[k] = s[k]
          \/ k - Len(s) \in 1 .. Len(t) /\ (s \o t)[k] = t[k - Len(s)]
      BY ConcatFacts
    <2>. QED  BY <2>1, Zenon DEF Has
  <1>5. ASSUME NEW q \in Seq(Statuses), NEW a \in Statuses, NEW k \in 1 .. Len(Append(q, a))
        PROVE  (\E l \in 1 .. Len(q) : q[l] = Append(q, a)[k]) \/ Append(q, a)[k] = a
    <2>1. (k \in 1 .. Len(q) /\ Append(q, a)[k] = q[k]) \/ Append(q, a)[k] = a
      BY AppendFacts
    <2>. QED  BY <2>1, Zenon
  <1>. QED  BY <1>1, <1>2, <1>3, <1>4, <1>5, Zenon
=============================================================================
