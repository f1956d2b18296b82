----------------------- MODULE RecordAppendTheorems -------------------------
(***************************************************************************)
(* Theorems about RecordAppend, for every chain length, every set of write *)
(* ids and every number of appends.                                        *)
(***************************************************************************)
EXTENDS RecordAppendChainProofs, RecordAppendHistoryProofs, FiniteSetTheorems

-----------------------------------------------------------------------------
(* What a commit adds up.                                                  *)

\* The appends of a commit, counted: none, one, or as many as the offsets
\* they are at (AppendCommit).
LEMMA Counts == Counting
  <1>1. Cardinality({}) = 0 /\ Cardinality({1}) = 1
    BY FS_EmptySet, FS_Singleton
  <1>2. ASSUME NEW ops \in Seq(Ops)
        PROVE  IsFiniteSet(AppendsOf(ops)) /\ Cardinality(AppendsOf(ops)) \in Nat
    <2>1. IsFiniteSet(1 .. Len(ops)) /\ AppendsOf(ops) \in SUBSET (1 .. Len(ops))
      BY FS_Interval DEF AppendsOf
    <2>2. IsFiniteSet(AppendsOf(ops))
      BY <2>1, FS_Subset
    <2>. QED  BY <2>2, FS_CardinalityType
  <1>3. ASSUME NEW ops \in Seq(Ops), NEW c \in Nat, NEW d \in Nat, c <= d,
               ExistsBijection(AppendsOf(ops), c .. d - 1)
        PROVE  Cardinality(AppendsOf(ops)) = d - c
    <2>1. Cardinality(c .. d - 1) = Cardinality(AppendsOf(ops))
      BY <1>2, <1>3, FS_Bijection
    <2>2. d - 1 \in Int /\ c \in Int
      OBVIOUS
    <2>3. Cardinality(c .. d - 1) = IF c > d - 1 THEN 0 ELSE (d - 1) - c + 1
      BY <2>2, FS_Interval, Zenon
    <2>. QED  BY <1>3, <2>1, <2>3
  <1>. QED  BY <1>1, <1>2, <1>3, Zenon DEF Counting

-----------------------------------------------------------------------------
(* Records reported appended, and stable replicas.                         *)

\* The inductive invariant.
Inv == TypeInv /\ ChainInv /\ OneHistory /\ Decided /\ AckedHeld /\ StableIsChosen

\* Every step keeps the invariant.
LEMMA InvStep ==
    ASSUME Inv, [Next]_vars
    PROVE  Inv'
  <1>0. TypeInv /\ ChainInv /\ OneHistory /\ Decided /\ AckedHeld /\ StableIsChosen
    BY Zenon DEF Inv
  <1>1. TypeInv'
    BY <1>0, TypeStep, ChainBound, Zenon
  <1>2. ChainInv'
    BY <1>0, <1>1, ChainStep, Zenon
  <1>3. StableIsChosen'
    BY <1>0, StableStep, Zenon
  <1>4. OneHistory' /\ Decided' /\ AckedHeld'
    <2>1. CASE DataEffect /\ WireEffect /\ CommitEffect /\ DecisionEffect /\ AckEffect
      BY <1>0, <1>1, <1>2, <2>1, HistoryKept, DecidedKept, AckedKept, Zenon
    <2>2. CASE \E w \in Wids : ClientAppend(w)
      BY <1>0, <2>2, ClientAppendHistory, Zenon
    <2>. QED  BY <1>0, <2>1, <2>2, Effects, Zenon
  <1>. QED  BY <1>1, <1>2, <1>3, <1>4, Zenon DEF Inv

\* The invariant holds at first: there is no record yet.
LEMMA InvInit ==
    ASSUME Init
    PROVE  Inv
  <1>1. TypeInv /\ ChainInv /\ Decided
    BY Counts, TypeInit, ChainInit, Zenon
  <1>2. \A i \in Pos : data[i] = <<>> /\ pend[i] = <<>> /\ flight[i] = <<>> /\ link[i] = <<>>
    BY DEF Init
  <1>3. relinq = NoData /\ decision = NoData /\ acked = {} /\ \A i \in Pos : st[i] # "stable"
    BY DEF Init
  <1>4. \A k : ~(k \in 1 .. Len(<<>>))
    OBVIOUS
  <1>5. \A k, r : ~At(k, r)
    BY <1>2, <1>3, <1>4, Zenon DEF At, In
  <1>6. OneHistory
    BY <1>5, Zenon DEF OneHistory
  <1>7. AckedHeld /\ StableIsChosen
    BY <1>3 DEF AckedHeld, StableIsChosen
  <1>. QED  BY <1>1, <1>6, <1>7, Zenon DEF Inv

\* A record reported appended is in the variant decided on.
LEMMA InvChosen ==
    ASSUME Inv
    PROVE  AckedIsChosen
  <1>. SUFFICES ASSUME phase = "decided", NEW r \in acked
                PROVE  Chosen(r)
    BY Zenon DEF AckedIsChosen
  <1>0. TypeInv /\ ChainInv /\ OneHistory /\ Decided /\ AckedHeld
    BY Zenon DEF Inv
  <1>1. decision # NoData
    BY <1>0 DEF TypeInv, MetaType
  <1>2. /\ commit[1] <= Len(decision) /\ commit[1] \in Nat /\ decision \in Seq(Record)
    BY <1>0, <1>1, DecidedBound, Zenon
  <1>3. PICK k \in 1 .. commit[1] : In(data[1], k, r)
    BY <1>0, Zenon DEF AckedHeld
  <1>4. k \in 1 .. Len(decision) /\ k \in DOMAIN decision
    BY <1>2
  <1>5. At(k, r) /\ At(k, decision[k])
    BY <1>1, <1>3, <1>4, PosFacts, StateKnown, Zenon DEF At, AllIn
  <1>6. decision[k] = r
    BY <1>0, <1>5, Zenon DEF OneHistory
  <1>. QED  BY <1>4, <1>6, Zenon DEF Chosen

\* The invariant holds in every state.
LEMMA InvAlways == Spec => []Inv
  <1>1. Init => Inv
    BY InvInit
  <1>2. Inv /\ [Next]_vars => Inv'
    BY InvStep
  <1>. QED  BY <1>1, <1>2, PTL DEF Spec

\* Whoever fails, whoever reports the chunk, and whatever is lost on the way:
\* a record that the master (AppendCommit) reported appended to its client is
\* part of the variant the meta server decides on, for every chain length,
\* every number of write ids and of appends.
THEOREM AckedChosen == Spec => []AckedIsChosen
  BY InvAlways, InvChosen, PTL

\* A replica that has been made stable (MakeChunkStable) is the variant that
\* was decided on, and stays so.
THEOREM StableChosen == Spec => []StableIsChosen
  <1>1. Inv => StableIsChosen
    BY Zenon DEF Inv
  <1>. QED  BY <1>1, InvAlways, PTL

\* The queues, wires, offsets and write ids of the chain stay well formed.
THEOREM AppendTypes == Spec => []TypeOK
  <1>1. Inv => TypeOK
    BY TypesDeclared, Zenon DEF Inv
  <1>. QED  BY <1>1, InvAlways, PTL

-----------------------------------------------------------------------------
(* Status inquiries.                                                       *)

\* Every step keeps it.
LEMMA WidInvStep ==
    ASSUME Inv, Inv', WidInv, [Next]_vars
    PROVE  WidInv'
  <1>1. /\ TypeInv /\ ChainInv /\ OneHistory /\ Decided /\ StableIsChosen
        /\ TypeInv' /\ ChainInv' /\ AckedHeld'
    BY Zenon DEF Inv
  <1>2. CASE \E w \in Wids : ClientAppend(w)
    <2>1. PICK a \in Wids : ClientAppend(a)
      BY <1>2, Zenon
    <2>2. /\ NotedEnds /\ SeqOrder /\ Accepted /\ CommittedSeq /\ VariantSeq
          /\ MasterCommits /\ OneAtATime /\ StatusHeld /\ ToldHeld
      BY Zenon DEF WidInv
    <2>3. /\ NotedEnds' /\ SeqOrder' /\ Accepted' /\ CommittedSeq' /\ VariantSeq'
          /\ MasterCommits' /\ OneAtATime' /\ StatusHeld' /\ ToldHeld'
      BY <1>1, <2>1, <2>2, ClientAppendInquiry, Zenon
    <2>. QED  BY <2>3, Zenon DEF WidInv
  <1>3. CASE ~\E w \in Wids : ClientAppend(w)
    <2>1. DataEffect /\ WireEffect /\ CommitEffect /\ DecisionEffect
      BY <1>1, <1>3, Effects, Zenon
    <2>2. MasterCommits
      BY Zenon DEF WidInv
    <2>3. StepEffect
      BY <1>1, <1>3, <2>1, <2>2, StepEffects, Zenon
    <2>. QED  BY <1>1, <2>1, <2>3, EffectsKeep, Zenon
  <1>. QED  BY <1>2, <1>3

\* No append was accepted at first.
LEMMA WidInvInit ==
    ASSUME Init
    PROVE  WidInv
  <1>1. /\ \A i \in Pos : /\ data[i] = <<>> /\ pend[i] = <<>> /\ flight[i] = <<>> /\ link[i] = <<>>
                          /\ commit[i] = 0 /\ mcommit[i] = 0
        /\ relinq = NoData /\ decision = NoData /\ told = {}
    BY DEF Init
  <1>2. \A i \in Pos, w \in Wids : Seqno(i, w) = 0 /\ wid[i][w].end = 0 /\ wid[i][w].status = "ok"
    BY DEF Init, Seqno
  <1>3. (\A k : ~(k \in 1 .. Len(<<>>))) /\ ~(0 > 0) /\ Len(<<>>) = 0 /\ 0 <= 0 /\ "ok" # "bad"
    OBVIOUS
  <1>4. \A k, r : ~Hist(k, r)
    BY <1>1, <1>2, <1>3, Zenon DEF Hist, At, In, Noted
  <1>5. NotedEnds
    BY <1>1, <1>2, <1>3, Zenon DEF NotedEnds
  <1>6. SeqOrder /\ OneAtATime
    BY <1>4, Zenon DEF SeqOrder, OneAtATime
  <1>7. Accepted
    BY <1>1, <1>2, <1>3, Zenon DEF Accepted
  <1>8. CommittedSeq
    BY <1>1, <1>3, <1>4, PosFacts, Zenon DEF CommittedSeq
  <1>9. VariantSeq
    BY <1>1, Zenon DEF VariantSeq
  <1>10. MasterCommits
    BY <1>1, <1>3, PosFacts, Zenon DEF MasterCommits
  <1>11. StatusHeld
    BY <1>2, <1>3, Zenon DEF StatusHeld
  <1>12. ToldHeld
    BY <1>1 DEF ToldHeld
  <1>. QED  BY <1>5, <1>6, <1>7, <1>8, <1>9, <1>10, <1>11, <1>12, Zenon DEF WidInv

\* What the invariants say once the meta server has decided.
LEMMA WidInvFinal ==
    ASSUME Inv, WidInv
    PROVE  InquiryIsFinal
  <1>. SUFFICES ASSUME phase = "decided", NEW t \in told
                PROVE  /\ t.status = "ok" /\ t.seq > 0 => Chosen(<<t.w, t.seq>>)
                       /\ t.status = "bad" => ~Chosen(<<t.w, t.seq>>)
                       /\ \A n \in t.seq + 1 .. MaxOps : ~Chosen(<<t.w, n>>)
    BY Zenon DEF InquiryIsFinal
  <1>0. /\ TypeInv /\ ChainInv /\ OneHistory /\ Decided /\ VariantSeq /\ ToldHeld
    BY Zenon DEF Inv, WidInv
  <1>1. decision # NoData
    BY <1>0 DEF TypeInv, MetaType
  <1>2. commit[1] <= Len(decision) /\ commit[1] \in Nat /\ decision \in Seq(Record)
    BY <1>0, <1>1, DecidedBound, Zenon
  <1>3. ASSUME NEW r, Held(r) PROVE Chosen(r)
    <2>1. CASE \E k \in 1 .. commit[1] : In(data[1], k, r)
      <3>1. PICK k \in 1 .. commit[1] : In(data[1], k, r)
        BY <2>1, Zenon
      <3>2. k \in 1 .. Len(decision) /\ k \in DOMAIN decision
        BY <1>2
      <3>3. At(k, r) /\ At(k, decision[k])
        BY <1>1, <3>1, <3>2, PosFacts, StateKnown, Zenon DEF At, AllIn
      <3>4. decision[k] = r
        BY <1>0, <3>3, Zenon DEF OneHistory
      <3>. QED  BY <3>2, <3>4, Zenon DEF Chosen
    <2>. QED  BY <1>3, <2>1, Zenon DEF Held
  <1>4. t.w \in Wids /\ t.seq \in Nat
    BY <1>0, ChainAssumption DEF TypeInv, ClientType
  <1>5. PICK i \in Pos : Seqno(i, t.w) = t.seq
    BY <1>0, Zenon DEF ToldHeld
  <1>6. ASSUME NEW n \in t.seq + 1 .. MaxOps, Chosen(<<t.w, n>>) PROVE FALSE
    <2>1. PICK k \in DOMAIN decision : decision[k] = <<t.w, n>>
      BY <1>6, Zenon DEF Chosen
    <2>2. k \in 1 .. Len(decision)
      BY <1>2
    <2>3. UpTo(i, decision[k])
      BY <1>0, <1>1, <2>2, Zenon DEF VariantSeq
    <2>4. n <= t.seq
      BY <1>5, <2>1, <2>3 DEF UpTo
    <2>. QED  BY <1>4, <2>4
  <1>. QED  BY <1>0, <1>3, <1>6, Zenon DEF ToldHeld, Refused

\* What GetOpStatus tells a client is final, whichever participant answers: an
\* append reported successful is in the variant the meta server decides on,
\* one reported failed is not, and no later append with that write id is.
THEOREM InquiryFinal == Spec => []InquiryIsFinal
  <1>1. Init => WidInv
    BY WidInvInit
  <1>2. Inv /\ Inv' /\ WidInv /\ [Next]_vars => WidInv'
    BY WidInvStep
  <1>3. Inv /\ WidInv => InquiryIsFinal
    BY WidInvFinal
  <1>. QED  BY <1>1, <1>2, <1>3, InvAlways, PTL DEF Spec

-----------------------------------------------------------------------------
(* The order of the chain.                                                 *)

\* An append says that the master has committed the earlier ones of its write id.
Latest(o) == App(o) => \A l, n : Hist(l, <<o.w, n>>) /\ n < o.seq => l <= o.mc

Stamps ==
    \A i \in Pos : /\ \A k \in 1 .. Len(link[i]) : Latest(link[i][k])
                   /\ i > 1 => \A k \in 1 .. Len(pend[i]) : pend[i][k].ok => Latest(pend[i][k].op)

\* A write id in use has an append, and at an open position none has failed.
BusyNoted ==
    \A i \in Pos, w \in Wids : /\ wid[i][w].status = "busy" => Seqno(i, w) > 0
                               /\ Open(i) => wid[i][w].status # "bad"

OrderInv == Order /\ AckBound /\ Stamps /\ BusyNoted

\* A step other than a client's append: the master stamps what it forwards.
LEMMA StampsKept ==
    ASSUME TypeInv, ChainInv, WidInv, Stamps, [Next]_vars, QueueEffect,
           \A k, r : Hist(k, r)' => Hist(k, r)
    PROVE  Stamps'
  <1>0. Accepted /\ OneAtATime /\ NotedEnds
    BY Zenon DEF WidInv
  <1>1. ASSUME NEW o, Latest(o) PROVE Latest(o)'
    BY <1>1, Zenon DEF Latest, App
  <1>2. ASSUME NEW j \in Pos, NEW k \in 1 .. Len(link'[j]) PROVE Latest(link'[j][k])
    <2>1. CASE Has(link[j], link'[j][k])
      BY <2>1, Zenon DEF Stamps, Has
    <2>2. CASE ~App(link'[j][k])
      BY <2>2, Zenon DEF Latest
    <2>3. ASSUME NEW l \in 1 .. Len(pend[j]), pend[j][l].ok, Stamped(j, link'[j][k], pend[j][l]),
                 App(link'[j][k])
          PROVE  Latest(link'[j][k])
      <3>1. CASE j > 1
        <4>1. j # 1
          BY <3>1
        <4>. QED  BY <2>3, <3>1, <4>1, Zenon DEF Stamps, Stamped
      <3>2. CASE ~(j > 1)
        <4>1. j = 1
          BY <3>2 DEF Pos
        <4>2. PICK o, p : o = link'[j][k] /\ p = pend[j][l].op
          BY Zenon
        <4>3. /\ App(o) /\ o.w = p.w /\ o.seq = p.seq /\ o.mc = commit[1] /\ App(p) /\ p \in Ops
          <5>1. p \in Ops
            BY <4>2, PositionTypes, OpOffsets, Zenon
          <5>. QED  BY <2>3, <4>1, <4>2, <5>1, Zenon DEF Stamped, App
        <4>4. o.seq <= Seqno(1, o.w)
          BY <1>0, <2>3, <4>1, <4>2, <4>3, Zenon DEF Accepted, OpUpTo
        <4>5. o.w \in Wids /\ o.seq \in Nat
          BY <4>3, ChainAssumption DEF Ops, OpT, App
        <4>6. ASSUME NEW m, NEW n, Hist(m, <<o.w, n>>), n < o.seq PROVE m <= o.mc
          <5>1. n \in Nat /\ Seqno(1, o.w) \in Nat
            BY <1>0, <4>5, <4>6, HistTypes, RecordParts, WidTypes, PosFacts, Zenon
          <5>2. n < Seqno(1, o.w)
            BY <4>4, <4>5, <4>6, <5>1
          <5>. QED  BY <1>0, <4>3, <4>5, <4>6, <5>2, Zenon DEF OneAtATime
        <4>. QED  BY <4>2, <4>6, Zenon DEF Latest
      <3>. QED  BY <3>1, <3>2
    <2>. QED  BY <2>1, <2>2, <2>3, Zenon DEF QueueEffect
  <1>3. ASSUME NEW j \in Pos, j > 1, NEW k \in 1 .. Len(pend'[j]), pend'[j][k].ok
        PROVE  Latest(pend'[j][k].op)
    <2>1. PICK b : b = j - 1 /\ b \in Pos
      BY <1>3, Neighbours, Zenon
    <2>2. Has(pend[j], pend'[j][k]) \/ Has(link[b], pend'[j][k].op)
      BY <1>3, <2>1, PendSource, Zenon
    <2>. QED  BY <1>3, <2>1, <2>2, Zenon DEF Stamps, Has
  <1>. QED  BY <1>1, <1>2, <1>3, Zenon DEF Stamps, Latest, App

\* A client's append comes after all that is on the way.
LEMMA StampsAppend ==
    ASSUME TypeInv, WidInv, Stamps, NEW a \in Wids, ClientAppend(a)
    PROVE  Stamps'
  <1>0. Accepted
    BY Zenon DEF WidInv
  <1>1. link' = link /\ \A j \in Pos : j # 1 => pend'[j] = pend[j]
    BY NewRecord, Zenon
  <1>2. Seqno(1, a) \in Nat
    BY PosFacts, WidTypes, Zenon
  <1>3. ASSUME NEW o \in Ops, NEW i \in Pos, OpUpTo(i, o), Latest(o)
        PROVE  Latest(o)'
    <2>. SUFFICES ASSUME App(o), NEW l, NEW n, Hist(l, <<o.w, n>>)', n < o.seq
                  PROVE  l <= o.mc
      BY Zenon DEF Latest, App
    <2>1. o.w \in Wids /\ o.seq \in Nat
      BY ChainAssumption DEF Ops, OpT, App
    <2>2. CASE Hist(l, <<o.w, n>>)
      BY <1>3, <2>2, Zenon DEF Latest
    <2>3. CASE <<o.w, n>> = <<a, Seqno(1, a) + 1>>
      <3>1. o.w = a /\ n = Seqno(1, a) + 1
        BY <2>3
      <3>2. 1 <= i /\ 1 \in Pos
        BY PosFacts DEF Pos
      <3>3. o.seq <= Seqno(i, a) /\ Seqno(i, a) <= Seqno(1, a) /\ Seqno(i, a) \in Nat
        BY <1>0, <1>3, <3>1, <3>2, WidTypes, Zenon DEF OpUpTo, Accepted
      <3>. QED  BY <1>2, <2>1, <3>1, <3>3
    <2>. QED  BY <2>2, <2>3, NewHist, Zenon
  <1>4. ASSUME NEW j \in Pos, NEW k \in 1 .. Len(link[j]) PROVE Latest(link[j][k])'
    <2>1. PICK o : o = link[j][k] /\ o = link'[j][k]
      BY <1>1, Zenon
    <2>2. o \in Ops
      BY <2>1, PositionTypes, OpOffsets, Zenon
    <2>3. OpUpTo(j, o) /\ Latest(o)
      BY <1>0, <2>1, Zenon DEF Accepted, Stamps
    <2>4. Latest(o)'
      BY <1>3, <2>2, <2>3, Zenon
    <2>. QED  BY <2>1, <2>4, Zenon DEF Latest, App
  <1>5. ASSUME NEW j \in Pos, j > 1, NEW k \in 1 .. Len(pend[j]), pend[j][k].ok
        PROVE  Latest(pend[j][k].op)'
    <2>0. j # 1
      BY <1>5
    <2>1. PICK o : o = pend[j][k].op /\ o = pend'[j][k].op
      BY <1>1, <2>0, Zenon
    <2>2. o \in Ops
      BY <2>1, PositionTypes, OpOffsets, Zenon
    <2>3. OpUpTo(j, o) /\ Latest(o)
      BY <1>0, <1>5, <2>1, Zenon DEF Accepted, Stamps
    <2>4. Latest(o)'
      BY <1>3, <2>2, <2>3, Zenon
    <2>. QED  BY <2>1, <2>4, Zenon DEF Latest, App
  <1>6. \A j \in Pos : j > 1 => j # 1
    OBVIOUS
  <1>. QED  BY <1>1, <1>4, <1>5, <1>6, Zenon DEF Stamps, Latest, App

\* Write ids are taken by appends, and none fails while the position is open.
LEMMA BusyKept ==
    ASSUME TypeInv, BusyNoted, DataEffect, WidEffect
    PROVE  BusyNoted'
  <1>. SUFFICES ASSUME NEW i \in Pos, NEW w \in Wids
                PROVE  /\ wid'[i][w].status = "busy" => wid'[i][w].seq > 0
                       /\ Open(i)' => wid'[i][w].status # "bad"
    BY Zenon DEF BusyNoted, Seqno
  <1>1. Open(i)' => Open(i) /\ st[i] # "stable"
    BY DEF DataEffect, Open
  <1>2. /\ wid[i][w].status = "busy" => wid[i][w].seq > 0
        /\ Open(i) => wid[i][w].status # "bad"
    BY Zenon DEF BusyNoted, Seqno
  <1>3. CASE Accepts(i, w)
    <2>1. PICK m \in Ops : App(m) /\ wid'[i][w].seq = m.seq /\ wid'[i][w].status = "busy"
      BY <1>3, Zenon DEF Accepts
    <2>2. m.seq > 0
      BY <2>1, ChainAssumption DEF Ops, OpT, App
    <2>. QED  BY <2>1, <2>2
  <1>4. CASE wid'[i][w].seq = wid[i][w].seq /\ wid'[i][w].status \in {wid[i][w].status, "erased"}
    BY <1>1, <1>2, <1>4
  <1>5. CASE wid'[i][w].status = "ok"
    BY <1>5
  <1>6. CASE wid'[i][w].status = "bad" /\ st[i] = "stable"
    BY <1>1, <1>6
  <1>. QED  BY <1>3, <1>4, <1>5, <1>6, Zenon DEF WidEffect, WidStep, Seqno

\* A client's append takes its write id.
LEMMA BusyAppend ==
    ASSUME TypeInv, BusyNoted, NEW a \in Wids, ClientAppend(a)
    PROVE  BusyNoted'
  <1>1. PICK n, e : n = wid[1][a].seq + 1 /\ e = Len(data[1]) + 1
    BY Zenon
  <1>2. /\ wid' = [wid EXCEPT ![1][a] = [wid[1][a] EXCEPT !.status = "busy", !.seq = n, !.end = e]]
        /\ st' = st
    BY <1>1, Zenon DEF ClientAppend
  <1>3. wid \in [Pos -> [Wids -> WidInfo]] /\ 1 \in Pos /\ wid[1][a] \in WidInfo
    BY PosFacts DEF TypeInv, ClientType
  <1>4. \A i \in Pos, w \in Wids : i # 1 \/ w # a => wid'[i][w] = wid[i][w]
    BY <1>2, <1>3
  <1>5. wid'[1][a] = [wid[1][a] EXCEPT !.status = "busy", !.seq = n, !.end = e]
    BY <1>2, <1>3
  <1>6. wid'[1][a].status = "busy" /\ wid'[1][a].seq > 0 /\ wid'[1][a].status # "bad"
    <2>1. wid'[1][a].status = "busy" /\ wid'[1][a].seq = n
      BY <1>3, <1>5 DEF WidInfo
    <2>2. n > 0
      BY <1>1, <1>3, ChainAssumption DEF WidInfo
    <2>. QED  BY <2>1, <2>2
  <1>7. ASSUME NEW i \in Pos, NEW w \in Wids
        PROVE  /\ wid'[i][w].status = "busy" => wid'[i][w].seq > 0
               /\ Open(i)' => wid'[i][w].status # "bad"
    <2>1. CASE i = 1 /\ w = a
      BY <1>6, <2>1, Zenon
    <2>2. CASE i # 1 \/ w # a
      <3>1. wid'[i][w] = wid[i][w] /\ (Open(i)' => Open(i))
        BY <1>2, <1>4, <2>2, Zenon DEF Open
      <3>. QED  BY <3>1, Zenon DEF BusyNoted, Seqno
    <2>. QED  BY <2>1, <2>2
  <1>. QED  BY <1>7, Zenon DEF BusyNoted, Seqno

\* Every step keeps the order.
LEMMA OrderInvStep ==
    ASSUME Inv, Inv', WidInv, OrderInv, [Next]_vars
    PROVE  OrderInv'
  <1>0. /\ TypeInv /\ ChainInv /\ OneHistory /\ Decided /\ StableIsChosen /\ TypeInv'
        /\ Order /\ AckBound /\ Stamps /\ BusyNoted
    BY Zenon DEF Inv, OrderInv
  <1>1. Order'
    BY <1>0, OrderStep, Zenon
  <1>2. CASE \E w \in Wids : ClientAppend(w)
    <2>1. PICK a \in Wids : ClientAppend(a)
      BY <1>2, Zenon
    <2>2. commit' = commit /\ st' = st /\ commit[1] <= commit[1]
      <3>1. commit[1] <= commit[1]
        BY <1>0, PosFacts, PositionTypes
      <3>. QED  BY <1>0, <2>1, <3>1, NewRecord, Zenon
    <2>3. AckBound'
      BY <1>0, <2>2, AckStep, Zenon
    <2>. QED  BY <1>0, <1>1, <2>1, <2>3, StampsAppend, BusyAppend, Zenon DEF OrderInv
  <1>3. CASE ~\E w \in Wids : ClientAppend(w)
    <2>1. DataEffect /\ WireEffect /\ CommitEffect /\ DecisionEffect
      BY <1>0, <1>3, Effects, Zenon
    <2>2. MasterCommits /\ NotedEnds /\ SeqOrder
      BY Zenon DEF WidInv
    <2>3. WidEffect /\ QueueEffect
      BY <1>0, <1>3, <2>1, <2>2, StepEffects, Zenon DEF StepEffect
    <2>4. \A k, r : Hist(k, r)' => Hist(k, r)
      BY <1>0, <2>1, <2>2, <2>3, SeqOrderKept, Zenon
    <2>5. AckBound'
      <3>1. commit[1] <= commit'[1] /\ \A j \in Pos : st'[j] = "open" => st[j] = "open"
        BY <2>1, PosFacts, Zenon DEF CommitEffect, DataEffect
      <3>. QED  BY <1>0, <3>1, AckStep, Zenon
    <2>. QED  BY <1>0, <1>1, <2>1, <2>3, <2>4, <2>5, StampsKept, BusyKept, Zenon DEF OrderInv
  <1>. QED  BY <1>2, <1>3

\* Nothing is on its way at first.
LEMMA OrderInvInit ==
    ASSUME Init
    PROVE  OrderInv
  <1>1. Order /\ AckBound
    BY OrderInit, Zenon
  <1>2. \A i \in Pos : pend[i] = <<>> /\ link[i] = <<>>
    BY DEF Init
  <1>3. \A i \in Pos, w \in Wids : wid[i][w].status = "ok"
    BY DEF Init
  <1>4. (\A k : ~(k \in 1 .. Len(<<>>))) /\ "ok" # "bad" /\ "ok" # "busy"
    OBVIOUS
  <1>5. Stamps
    BY <1>2, <1>4, Zenon DEF Stamps
  <1>6. BusyNoted
    BY <1>3, <1>4, Zenon DEF BusyNoted
  <1>. QED  BY <1>1, <1>5, <1>6, Zenon DEF OrderInv

\* The first reply of an op in flight is the next to commit.
LEMMA NextReply ==
    ASSUME Inv, OrderInv, NEW i \in Pos, i < N, Open(i), reply[i] # <<>>, Head(reply[i]).ok
    PROVE  Head(reply[i]).op.off = commit[i]
  <1>0. TypeInv /\ ChainInv
    BY Zenon DEF Inv
  <1>1. PICK q, a : q = reply[i] /\ a = Head(q) /\ a.ok
    BY Zenon
  <1>2. /\ q \in Seq(Statuses) /\ commit[i] \in Nat /\ commit[i + 1] \in Nat /\ commit[1] \in Nat
        /\ i + 1 \in Pos /\ 1 \in Pos /\ 1 <= i
    <2>1. 1 <= i
      BY DEF Pos
    <2>. QED  BY <1>0, <1>1, <2>1, PositionTypes, PosFacts, Neighbours, Zenon
  <1>3. OrderedOk(q, commit[i], commit[i + 1]) /\ Covers(q, commit[i], commit[i + 1])
    BY <1>0, <1>1, Zenon DEF ChainInv, Edge
  <1>4. CASE App(a.op)
    <2>1. PICK c, d : c = commit[i] /\ d = commit[i + 1]
      BY Zenon
    <2>2. c \in Nat /\ d \in Nat /\ OrderedOk(q, c, d) /\ Covers(q, c, d) /\ q # <<>> /\ a = Head(q)
      BY <1>1, <1>2, <1>3, <2>1, Zenon
    <2>3. OkApp(a) => a.op.off = c
      BY <1>2, <2>2, OkTail, Zenon
    <2>4. OkApp(a)
      BY <1>1, <1>4, Zenon DEF OkApp, App
    <2>. QED  BY <1>1, <2>1, <2>3, <2>4, Zenon
  <1>5. CASE ~App(a.op)
    <2>1. 1 \in 1 .. Len(q) /\ q[1] = a /\ a.op.off \in Nat
      <3>1. 1 \in 1 .. Len(q) /\ q[1] = a
        BY <1>1, <1>2, TailFacts
      <3>. QED  BY <1>2, <3>1, OpOffsets, Zenon
    <2>2. commit[i] <= a.op.off
      BY <1>1, <1>5, <2>1, Zenon DEF OrderInv, Order, ReplyOrder, Behind
    <2>3. a.op.off <= commit[1]
      BY <1>1, <1>5, <2>1, Zenon DEF OrderInv, AckBound, AcksUpTo, AckUpTo
    <2>4. commit[1] <= commit[i]
      BY <1>0, <1>2, Zenon DEF ChainInv, Commits
    <2>. QED  BY <1>1, <1>2, <2>1, <2>2, <2>3, <2>4
  <1>. QED  BY <1>4, <1>5

\* The first append on the wire is the next one of the slave, which has heard
\* that the previous one of its write id is committed.
LEMMA NextAppend ==
    ASSUME Inv, WidInv, OrderInv, NEW i \in Pos, NEW b \in Pos, b = i - 1, i > 1, Open(i),
           AllOk(pend[i]), NEW m, link[b] # <<>>, m = Head(link[b]), App(m)
    PROVE  /\ m.off = Len(data[i])
           /\ Settled(wid[i][m.w], NewMasterCommit(i, m.mc)).status \in {"ok", "erased"}
  <1>0. /\ TypeInv /\ ChainInv /\ NotedEnds /\ SeqOrder /\ MasterCommits
        /\ Order /\ Stamps /\ BusyNoted
    BY Zenon DEF Inv, WidInv, OrderInv
  <1>1. link[b] \in Seq(Ops) /\ Len(data[i]) \in Nat /\ commit[1] \in Nat /\ commit[i] \in Nat
        /\ mcommit[i] \in Int /\ 1 \in Pos /\ 1 <= i /\ b + 1 = i /\ b < N
    <2>1. 1 <= i
      BY DEF Pos
    <2>2. mcommit[i] \in Int
      <3>1. mcommit[i] \in Nat
        BY <1>0, Zenon DEF TypeInv, ClientType
      <3>. QED  BY <3>1
    <2>. QED  BY <1>0, <2>1, <2>2, PosFacts, PositionTypes, Neighbours, Zenon
  <1>2. InTurn(link[b], Len(data[i]))
    BY <1>0, <1>1, Zenon DEF Order, LinkOrder
  <1>3. m.off = Len(data[i])
    BY <1>1, <1>2, InTurnTail, Zenon
  <1>4. m \in Ops /\ Has(link[b], m)
    BY <1>1, WireParts, Zenon
  <1>5. PICK w, x, y : w = m.w /\ x = NewMasterCommit(i, m.mc) /\ y = Settled(wid[i][w], x)
    BY Zenon
  <1>6. w \in Wids /\ m.seq \in Nat /\ m.mc \in Int
    BY <1>4, <1>5, ChainAssumption DEF Ops, OpT, App
  <1>7. wid[i][w] \in WidInfo /\ Seqno(i, w) \in Nat /\ wid[i][w].end \in Nat
    BY <1>0, <1>6, WidTypes, Zenon
  <1>8. m.mc <= x
    <2>1. m.mc <= commit[1] /\ commit[1] <= commit[i]
      BY <1>0, <1>1, <1>4, Zenon DEF MasterCommits, Has, ChainInv, Commits
    <2>. QED  BY <1>1, <1>5, <1>6, <2>1 DEF NewMasterCommit
  <1>9. CASE wid[i][w].status = "busy"
    <2>1. Seqno(i, w) > 0 /\ wid[i][w].end <= Len(data[i])
      BY <1>0, <1>6, <1>9, Zenon DEF BusyNoted, NotedEnds
    <2>2. PICK e, n, f, p : /\ e = wid[i][w].end /\ n = Seqno(i, w)
                            /\ f = m.off + 1 /\ p = m.seq
      BY Zenon
    <2>3. Hist(e, <<w, n>>)
      BY <1>6, <2>1, <2>2, Zenon DEF Hist, Noted
    <2>4. Hist(f, <<w, p>>)
      BY <1>4, <1>5, <2>2, StateKnown, Zenon DEF AllKnown, Known, Has, Hist
    <2>5. e < f
      BY <1>1, <1>3, <1>7, <2>1, <2>2
    <2>6. n < p
      BY <1>0, <1>6, <2>3, <2>4, <2>5, Increasing, Zenon
    <2>7. e <= m.mc
      <3>1. Latest(m)
        BY <1>0, <1>4, Zenon DEF Stamps, Has
      <3>. QED  BY <1>5, <2>2, <2>3, <2>6, <3>1, Zenon DEF Latest
    <2>8. wid[i][w].end <= x
      <3>1. x \in Int
        BY <1>1, <1>5, <1>6 DEF NewMasterCommit
      <3>. QED  BY <1>6, <1>7, <1>8, <2>2, <2>7, <3>1
    <2>9. y = [wid[i][w] EXCEPT !.status = "ok"]
      BY <1>5, <1>9, <2>8, Zenon DEF Settled
    <2>10. y.status = "ok"
      BY <1>7, <2>9 DEF WidInfo
    <2>. QED  BY <1>3, <1>5, <2>10
  <1>10. CASE wid[i][w].status # "busy"
    <2>1. y = wid[i][w]
      BY <1>5, <1>10, Zenon DEF Settled
    <2>2. wid[i][w].status # "bad"
      BY <1>0, <1>6, Zenon DEF BusyNoted
    <2>3. wid[i][w].status \in {"ok", "erased"}
      BY <1>7, <1>10, <2>2 DEF WidInfo
    <2>. QED  BY <1>3, <1>5, <2>1, <2>3
  <1>. QED  BY <1>9, <1>10

\* What the invariants say of the next ops.
LEMMA OrderInvChain ==
    ASSUME Inv, WidInv, OrderInv
    PROVE  ChainInOrder
  <1>0. TypeInv /\ ChainInv /\ TypeOK
    BY TypesDeclared, Zenon DEF Inv
  <1>1. \A i \in 1 .. N - 1 : i \in Pos /\ i + 1 \in Pos /\ i <= i + 1
    BY ChainAssumption DEF Pos
  <1>2. \A i \in 1 .. N - 1 : commit[i] <= commit[i + 1]
    BY <1>0, <1>1, Zenon DEF ChainInv, Commits
  <1>3. ASSUME NEW i \in Pos
        PROVE  DOMAIN flight[i] = 1 .. Len(flight[i]) /\ DOMAIN pend[i] = 1 .. Len(pend[i])
    <2>1. flight[i] \in Seq(Ops) /\ pend[i] \in Seq(Statuses)
      BY <1>0, PositionTypes, Zenon
    <2>. QED  BY <2>1
  <1>4. ASSUME NEW i \in Pos, Open(i), NEW k \in DOMAIN flight[i], App(flight[i][k])
        PROVE  flight[i][k].off >= commit[i]
    <2>1. commit[i] <= flight[i][k].off
      BY <1>0, <1>3, <1>4, Zenon DEF ChainInv, Local, Ordered
    <2>. QED  BY <2>1
  <1>5. ASSUME NEW i \in Pos, i > 1, link[i - 1] # <<>>, Open(i),
               Head(link[i - 1]).kind = "append", \A k \in DOMAIN pend[i] : pend[i][k].ok
        PROVE  LET m == Head(link[i - 1]) IN
               /\ m.off = Len(data[i])
               /\ Settled(wid[i][m.w], NewMasterCommit(i, m.mc)).status \in {"ok", "erased"}
    <2>1. AllOk(pend[i])
      BY <1>3, <1>5, Zenon DEF AllOk
    <2>2. PICK b \in Pos : b = i - 1
      BY <1>5, Neighbours, Zenon
    <2>3. PICK m : m = Head(link[b])
      OBVIOUS
    <2>4. App(m)
      BY <1>5, <2>2, <2>3, Zenon DEF App
    <2>5. /\ m.off = Len(data[i])
          /\ Settled(wid[i][m.w], NewMasterCommit(i, m.mc)).status \in {"ok", "erased"}
      BY <1>5, <2>1, <2>2, <2>3, <2>4, NextAppend, Zenon
    <2>. QED  BY <2>2, <2>3, <2>5, Zenon
  <1>. QED  BY <1>0, <1>2, <1>4, <1>5, NextReply, Zenon DEF ChainInOrder, Open, App

\* Appends, commit acks and replies travel in order along the chain: an open
\* appender has in flight only what it has not committed (AppendCommit's "out
\* of order" cannot happen), the next successful reply is for the next record,
\* an append reaches a slave at the end of its replica (AppendBegin's "invalid
\* append offset" cannot happen) and after word that the previous append of
\* its write id is committed, and successors have committed at least as much.
THEOREM ChainOrdered == Spec => []ChainInOrder
  <1>1. Init => WidInv /\ OrderInv
    BY WidInvInit, OrderInvInit
  <1>2. Inv /\ Inv' /\ WidInv /\ OrderInv /\ [Next]_vars => WidInv' /\ OrderInv'
    BY WidInvStep, OrderInvStep
  <1>3. Inv /\ WidInv /\ OrderInv => ChainInOrder
    BY OrderInvChain
  <1>. QED  BY <1>1, <1>2, <1>3, InvAlways, PTL DEF Spec
=============================================================================
