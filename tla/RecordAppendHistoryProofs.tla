-------------------- MODULE RecordAppendHistoryProofs -----------------------
(***************************************************************************)
(* The records and the write ids of RecordAppend, for every chain length.  *)
(*                                                                         *)
(* To the offsets of ChainInv this adds their content.  An offset has one  *)
(* record for all of history: every replica that reaches the offset, every *)
(* append on a wire or in a queue and every variant told to the meta       *)
(* server agree on it (OneHistory).  A record reported appended is in the  *)
(* master's replica below the master's commit offset, and a variant the    *)
(* meta server decides on is never shorter than what its author committed, *)
(* which is never less than what the master did.                           *)
(*                                                                         *)
(* To the history of the records this adds the one of the write ids.  What *)
(* the entry of a write id notes (the offset and the sequence number of    *)
(* its last append) belongs to the history; the records of a write id have *)
(* increasing sequence numbers along the chunk (SeqOrder); a participant   *)
(* that has, forwards or has committed a record has accepted it, and so    *)
(* has everybody before it (Accepted, CommittedSeq); so a variant has no   *)
(* record that some participant has not accepted (VariantSeq), and a       *)
(* participant whose entry is read only accepts none any more.             *)
(***************************************************************************)
EXTENDS RecordAppendProofs

\* Record r is at offset k - 1 according to o.
Is(o, k, r) == App(o) /\ k = o.off + 1 /\ r = <<o.w, o.seq>>

\* Record r is at offset k - 1 of the variant s.
In(s, k, r) == k \in 1 .. Len(s) /\ s[k] = r

\* Somebody has, sends, or reports record r at offset k - 1.
At(k, r) ==
    \/ \E i \in Pos : \/ In(data[i], k, r)
                      \/ \E j \in 1 .. Len(pend[i]) : Is(pend[i][j].op, k, r)
                      \/ \E j \in 1 .. Len(flight[i]) : Is(flight[i][j], k, r)
                      \/ \E j \in 1 .. Len(link[i]) : Is(link[i][j], k, r)
    \/ relinq # NoData /\ In(relinq, k, r)
    \/ decision # NoData /\ In(decision, k, r)

\* An offset has one record, and an open master has all there are.
OneHistory ==
    /\ \A k, r, s : At(k, r) /\ At(k, s) => r = s
    /\ Open(1) => \A k, r : At(k, r) => k <= Len(data[1])

\* A record reported appended is committed at the master.
AckedHeld == \A r \in acked : \E k \in 1 .. commit[1] : In(data[1], k, r)

\* What a record or an op says is already known.
Known(o)      == App(o) => At(o.off + 1, <<o.w, o.seq>>)
AllIn(s)      == \A k \in 1 .. Len(s) : At(k, s[k])
AllKnown(s)   == \A j \in 1 .. Len(s) : Known(s[j])
PendKnown(q)  == \A j \in 1 .. Len(q) : Known(q[j].op)

\* So is everything in a state.
LEMMA StateKnown ==
    /\ \A i \in Pos : /\ AllIn(data[i]) /\ PendKnown(pend[i])
                      /\ AllKnown(flight[i]) /\ AllKnown(link[i])
    /\ relinq # NoData => AllIn(relinq)
    /\ decision # NoData => AllIn(decision)
  <1>1. ASSUME NEW i \in Pos PROVE AllIn(data[i])
    BY <1>1, Zenon DEF AllIn, At, In
  <1>2. ASSUME NEW i \in Pos PROVE PendKnown(pend[i])
    BY <1>2, Zenon DEF PendKnown, Known, At, Is
  <1>3. ASSUME NEW i \in Pos PROVE AllKnown(flight[i])
    BY <1>3, Zenon DEF AllKnown, Known, At, Is
  <1>4. ASSUME NEW i \in Pos PROVE AllKnown(link[i])
    BY <1>4, Zenon DEF AllKnown, Known, At, Is
  <1>5. relinq # NoData => AllIn(relinq)
    BY Zenon DEF AllIn, At, In
  <1>6. decision # NoData => AllIn(decision)
    BY Zenon DEF AllIn, At, In
  <1>. QED  BY <1>1, <1>2, <1>3, <1>4, <1>5, <1>6, Zenon

-----------------------------------------------------------------------------
(* What a step does.                                                       *)

\* The replicas hold no new record, no position opens again, and the master
\* relinquishes its replica when it closes; it keeps what it committed.
DataEffect ==
    /\ \A j \in Pos : AllIn(data'[j])
    /\ \A j \in Pos : st[j] # "open" => st'[j] # "open"
    /\ st'[1] = "open" => data'[1] = data[1]
    /\ relinq' \in {relinq, NoData} \/ (relinq' = data'[1] /\ st'[1] # "open")
    /\ \A k \in 1 .. commit[1] : In(data'[1], k, data[1][k])

\* The queues and the wires hold no new record.
WireEffect == \A j \in Pos : PendKnown(pend'[j]) /\ AllKnown(flight'[j]) /\ AllKnown(link'[j])

\* Only an open position commits.
CommitEffect ==
    \A j \in Pos : commit[j] <= commit'[j] /\ (st[j] # "open" => commit'[j] = commit[j])

\* The decision is the variant relinquished, or that of a closed replica.
DecisionEffect ==
    \/ decision' = decision
    \/ relinq # NoData /\ decision' = relinq
    \/ \E j \in Pos : st'[j] = "closed" /\ decision' = data'[j]

\* A record is reported appended when the master has committed it.
AckEffect == \A r \in acked' : r \in acked \/ \E k \in 1 .. commit'[1] : In(data'[1], k, r)

\* A step with these effects adds no record.
LEMMA NoNewRecord ==
    ASSUME DataEffect, WireEffect, DecisionEffect, NEW k, NEW r, At(k, r)'
    PROVE  At(k, r)
  <1>1. ASSUME NEW i \in Pos, In(data'[i], k, r) PROVE At(k, r)
    BY <1>1, Zenon DEF DataEffect, AllIn, In
  <1>2. ASSUME NEW o, Known(o), Is(o, k, r) PROVE At(k, r)
    BY <1>2, Zenon DEF Known, Is
  <1>3. ASSUME NEW i \in Pos,
               \/ \E j \in 1 .. Len(pend'[i]) : Is(pend'[i][j].op, k, r)
               \/ \E j \in 1 .. Len(flight'[i]) : Is(flight'[i][j], k, r)
               \/ \E j \in 1 .. Len(link'[i]) : Is(link'[i][j], k, r)
        PROVE  At(k, r)
    BY <1>2, <1>3, Zenon DEF WireEffect, PendKnown, AllKnown
  <1>4. ASSUME relinq' # NoData, In(relinq', k, r) PROVE At(k, r)
    <2>1. CASE relinq' = relinq
      BY <1>4, <2>1, Zenon DEF At
    <2>2. CASE relinq' = data'[1]
      BY <1>1, <1>4, <2>2, PosFacts, Zenon
    <2>. QED  BY <1>4, <2>1, <2>2 DEF DataEffect
  <1>5. ASSUME decision' # NoData, In(decision', k, r) PROVE At(k, r)
    <2>1. CASE decision' = decision
      BY <1>5, <2>1, Zenon DEF At
    <2>2. CASE relinq # NoData /\ decision' = relinq
      BY <1>5, <2>2, Zenon DEF At
    <2>3. ASSUME NEW j \in Pos, decision' = data'[j] PROVE At(k, r)
      BY <1>1, <1>5, <2>3, Zenon
    <2>. QED  BY <2>1, <2>2, <2>3, Zenon DEF DecisionEffect
  <1>. QED  BY <1>1, <1>3, <1>4, <1>5, Zenon DEF At

\* A step with these effects keeps the history.
LEMMA HistoryKept ==
    ASSUME OneHistory, DataEffect, WireEffect, DecisionEffect
    PROVE  OneHistory'
  <1>1. \A k, r : At(k, r)' => At(k, r)
    BY NoNewRecord, Zenon
  <1>2. Open(1)' => Open(1) /\ data'[1] = data[1]
    BY PosFacts, Zenon DEF DataEffect, Open
  <1>. QED  BY <1>1, <1>2, Zenon DEF OneHistory

\* It keeps what is known of the decision.
LEMMA DecidedKept ==
    ASSUME TypeInv', ChainInv', Decided, DataEffect, CommitEffect, DecisionEffect
    PROVE  Decided'
  <1>1. ASSUME relinq' # NoData PROVE ~Open(1)' /\ commit'[1] <= Len(relinq')
    <2>1. CASE relinq' = relinq
      BY <1>1, <2>1, PosFacts, Zenon DEF Decided, DataEffect, CommitEffect, Open
    <2>2. CASE relinq' = data'[1] /\ st'[1] # "open"
      BY <2>2, PosFacts, Zenon DEF ChainInv, Commits, Open
    <2>. QED  BY <1>1, <2>1, <2>2 DEF DataEffect
  <1>2. ASSUME decision' # NoData PROVE \E j \in Pos : ~Open(j)' /\ commit'[j] <= Len(decision')
    <2>1. CASE decision' = decision
      BY <1>2, <2>1, Zenon DEF Decided, DataEffect, CommitEffect, Open
    <2>2. CASE relinq # NoData /\ decision' = relinq
      BY <2>2, PosFacts, Zenon DEF Decided, DataEffect, CommitEffect, Open
    <2>3. ASSUME NEW j \in Pos, st'[j] = "closed", decision' = data'[j]
          PROVE  ~Open(j)' /\ commit'[j] <= Len(decision')
      <3>1. st'[j] # "stable" /\ st'[j] # "open"
        BY <2>3
      <3>. QED  BY <2>3, <3>1, Zenon DEF ChainInv, Commits, Open
    <2>. QED  BY <2>1, <2>2, <2>3, Zenon DEF DecisionEffect
  <1>. QED  BY <1>1, <1>2, Zenon DEF Decided

\* It keeps what is known of the records reported appended.
LEMMA AckedKept ==
    ASSUME TypeInv, TypeInv', AckedHeld, DataEffect, CommitEffect, AckEffect
    PROVE  AckedHeld'
  <1>1. commit[1] \in Nat /\ commit'[1] \in Nat /\ commit[1] <= commit'[1]
    BY PosFacts DEF TypeInv, ChainType, CommitEffect
  <1>2. ASSUME NEW k \in 1 .. commit[1] PROVE k \in 1 .. commit'[1]
    BY <1>1, <1>2
  <1>3. ASSUME NEW r \in acked PROVE \E k \in 1 .. commit'[1] : In(data'[1], k, r)
    <2>1. PICK k \in 1 .. commit[1] : In(data[1], k, r)
      BY <1>3, Zenon DEF AckedHeld
    <2>2. data[1][k] = r
      BY <2>1, Zenon DEF In
    <2>. QED  BY <1>2, <2>1, <2>2, Zenon DEF DataEffect
  <1>. QED  BY <1>3, Zenon DEF AckEffect, AckedHeld

-----------------------------------------------------------------------------
(* The effects of the steps.                                               *)

\* The replica of one position is cut to d, and the position is not open.
LEMMA CutEffect ==
    ASSUME TypeInv, ChainInv, NEW i \in Pos, NEW s, s # "open", NEW d,
           st' = [st EXCEPT ![i] = s], data' = [data EXCEPT ![i] = d],
           \A k \in 1 .. Len(d) : In(data[i], k, d[k]),
           i = 1 => \A k \in 1 .. commit[1] : In(d, k, data[1][k]),
           relinq' = relinq \/ (i = 1 /\ relinq' = d)
    PROVE  DataEffect
  <1>1. /\ st'[i] = s /\ data'[i] = d
        /\ \A j \in Pos : j # i => st'[j] = st[j] /\ data'[j] = data[j]
    BY Zenon DEF TypeInv, ChainType
  <1>2. AllIn(d)
    <2>1. ASSUME NEW k \in 1 .. Len(d) PROVE At(k, d[k])
      <3>1. k \in 1 .. Len(data[i]) /\ data[i][k] = d[k]
        BY Zenon DEF In
      <3>. QED  BY <3>1, StateKnown, Zenon DEF AllIn
    <2>. QED  BY <2>1, Zenon DEF AllIn
  <1>3. \A j \in Pos : AllIn(data'[j])
    BY <1>1, <1>2, StateKnown, Zenon
  <1>4. \A k \in 1 .. commit[1] : In(data'[1], k, data[1][k])
    <2>1. CASE i = 1
      BY <1>1, <2>1, Zenon
    <2>2. CASE i # 1
      <3>1. \A k \in 1 .. commit[1] : k \in 1 .. Len(data[1])
        <4>1. commit[1] <= Len(data[1])
          BY PosFacts, Zenon DEF ChainInv, Commits
        <4>2. commit[1] \in Nat /\ Len(data[1]) \in Nat
          BY PosFacts, PositionTypes, Zenon
        <4>. QED  BY <4>1, <4>2
      <3>. QED  BY <1>1, <2>2, <3>1, PosFacts, Zenon DEF In
    <2>. QED  BY <2>1, <2>2
  <1>5. relinq' \in {relinq, NoData} \/ (relinq' = data'[1] /\ st'[1] # "open")
    BY <1>1, Zenon
  <1>. QED  BY <1>1, <1>3, <1>4, <1>5, PosFacts, Zenon DEF DataEffect

\* Nothing happens to the replicas.
LEMMA KeepEffect ==
    ASSUME TypeInv, ChainInv, UNCHANGED <<st, data>>, relinq' \in {relinq, NoData}
    PROVE  DataEffect
  <1>1. \A k \in 1 .. commit[1] : k \in 1 .. Len(data[1])
    <2>1. commit[1] <= Len(data[1])
      BY PosFacts, Zenon DEF ChainInv, Commits
    <2>2. commit[1] \in Nat /\ Len(data[1]) \in Nat
      BY PosFacts, PositionTypes, Zenon
    <2>. QED  BY <2>1, <2>2
  <1>2. \A k \in 1 .. commit[1] : In(data'[1], k, data[1][k])
    BY <1>1, Zenon DEF In
  <1>. QED  BY <1>2, StateKnown, Zenon DEF DataEffect

\* An initial segment of a replica.
LEMMA PrefixIn ==
    ASSUME NEW d \in Seq(Record), NEW n \in 0 .. Len(d), NEW c \in 0 .. n
    PROVE  /\ \A k \in 1 .. Len(SubSeq(d, 1, n)) : In(d, k, SubSeq(d, 1, n)[k])
           /\ \A k \in 1 .. c : In(SubSeq(d, 1, n), k, d[k])
  <1>1. /\ Len(SubSeq(d, 1, n)) = n /\ \A k \in 1 .. n : SubSeq(d, 1, n)[k] = d[k]
    BY PrefixFacts
  <1>2. /\ \A k \in 1 .. n : k \in 1 .. Len(d)
        /\ \A k \in 1 .. c : k \in 1 .. n
    OBVIOUS
  <1>. QED  BY <1>1, <1>2, Zenon DEF In

\* A position fails, or nothing happens to the replicas.
LEMMA OutcomeEffect ==
    ASSUME TypeInv, ChainInv, NEW i \in Pos, (st[i] = "open" /\ SetFailed(i)) \/ KeepState
    PROVE  DataEffect
  <1>1. CASE KeepState
    BY <1>1, KeepEffect, Zenon DEF KeepState
  <1>2. ASSUME st[i] = "open", SetFailed(i), i = 1 PROVE DataEffect
    <2>1. data[1] \in Seq(Record) /\ commit[1] \in 0 .. Len(data[1]) /\ commit[1] \in 0 .. commit[1]
      <3>1. commit[1] <= Len(data[1])
        BY PosFacts, Zenon DEF ChainInv, Commits
      <3>2. commit[1] \in Nat /\ Len(data[1]) \in Nat /\ data[1] \in Seq(Record)
        BY PosFacts, PositionTypes, Zenon
      <3>. QED  BY <3>1, <3>2
    <2>2. PICK d : d = Trimmed(1)
      BY Zenon
    <2>3. /\ \A k \in 1 .. Len(d) : In(data[1], k, d[k])
          /\ \A k \in 1 .. commit[1] : In(d, k, data[1][k])
      BY <2>1, <2>2, PrefixIn, Zenon DEF Trimmed
    <2>4. /\ st' = [st EXCEPT ![1] = "closed"] /\ data' = [data EXCEPT ![1] = d] /\ relinq' = d
      BY <1>2, <2>2, Zenon DEF SetFailed
    <2>5. "closed" # "open"
      OBVIOUS
    <2>. QED  BY <2>3, <2>4, <2>5, PosFacts, CutEffect, Zenon
  <1>3. ASSUME st[i] = "open", SetFailed(i), i # 1 PROVE DataEffect
    <2>1. st' = [st EXCEPT ![i] = "failed"] /\ UNCHANGED <<data, relinq>>
      BY <1>3, Zenon DEF SetFailed
    <2>2. data' = [data EXCEPT ![i] = data[i]]
      BY <2>1, Zenon DEF TypeInv, ChainType
    <2>3. \A k \in 1 .. Len(data[i]) : In(data[i], k, data[i][k])
      BY Zenon DEF In
    <2>4. "failed" # "open"
      OBVIOUS
    <2>. QED  BY <1>3, <2>1, <2>2, <2>3, <2>4, CutEffect, Zenon
  <1>. QED  BY <1>1, <1>2, <1>3, Zenon

\* The master has not committed past the decision.
LEMMA DecidedBound ==
    ASSUME TypeInv, ChainInv, Decided, decision # NoData
    PROVE  /\ commit[1] <= Len(decision) /\ commit[1] \in Nat /\ decision \in Seq(Record)
           /\ commit[1] <= Len(data[1]) /\ data[1] \in Seq(Record)
  <1>1. PICK j \in Pos : commit[j] <= Len(decision)
    BY Zenon DEF Decided
  <1>2. commit[1] <= commit[j]
    BY PosFacts, Neighbours, Zenon DEF ChainInv, Commits
  <1>3. commit[1] \in Nat /\ commit[j] \in Nat /\ data[1] \in Seq(Record)
    BY PosFacts, PositionTypes, Zenon
  <1>4. decision \in Seq(Record)
    BY DEF TypeInv, MetaType
  <1>5. commit[1] <= Len(data[1])
    BY PosFacts, Zenon DEF ChainInv, Commits
  <1>. QED  BY <1>1, <1>2, <1>3, <1>4, <1>5

\* A replica is lost or answers begin make stable or becomes stable.
LEMMA MakeStableEffect ==
    ASSUME TypeInv, ChainInv, Decided, NEW i \in Pos,
           Lose(i) \/ BeginMakeStable(i) \/ MakeChunkStable(i)
    PROVE  DataEffect /\ DecisionEffect
  <1>0. /\ data[i] \in Seq(Record) /\ Len(data[i]) \in Nat /\ commit[i] \in Nat
        /\ st[i] # "stable" => commit[i] <= Len(data[i])
        /\ \A k \in 1 .. Len(data[i]) : In(data[i], k, data[i][k])
    BY PositionTypes, Zenon DEF ChainInv, Commits, In
  <1>1. CASE Lose(i)
    <2>1. st[i] # "stable" /\ st' = [st EXCEPT ![i] = "lost"] /\ UNCHANGED <<data, relinq, decision>>
      BY <1>1 DEF Lose, metasrv
    <2>2. data' = [data EXCEPT ![i] = data[i]]
      BY <2>1, Zenon DEF TypeInv, ChainType
    <2>3. \A k \in 1 .. commit[i] : k \in 1 .. Len(data[i])
      BY <1>0, <2>1
    <2>4. i = 1 => \A k \in 1 .. commit[1] : In(data[1], k, data[1][k])
      BY <1>0, <2>3, Zenon
    <2>5. "lost" # "open"
      OBVIOUS
    <2>6. DataEffect
      BY <1>0, <2>1, <2>2, <2>4, <2>5, CutEffect, Zenon
    <2>. QED  BY <2>1, <2>6, Zenon DEF DecisionEffect
  <1>2. CASE BeginMakeStable(i)
    <2>. DEFINE mine == IF commit[i] < Len(data[i]) THEN Trimmed(i) ELSE data[i]
    <2>1. CASE st[i] \in {"open", "failed", "closed"}
      <3>1. /\ st' = [st EXCEPT ![i] = "closed"] /\ data' = [data EXCEPT ![i] = mine]
            /\ decision' = decision \/ decision' = mine
            /\ relinq' = relinq
        BY <1>2, <2>1, Zenon DEF BeginMakeStable
      <3>2. commit[i] <= Len(data[i])
        BY <1>0, <2>1
      <3>3. /\ \A k \in 1 .. Len(mine) : In(data[i], k, mine[k])
            /\ \A k \in 1 .. commit[i] : In(mine, k, data[i][k])
        <4>1. CASE commit[i] < Len(data[i])
          <5>1. commit[i] \in 0 .. Len(data[i]) /\ commit[i] \in 0 .. commit[i]
            BY <1>0, <3>2
          <5>. QED  BY <1>0, <4>1, <5>1, PrefixIn, Zenon DEF Trimmed
        <4>2. CASE ~(commit[i] < Len(data[i]))
          <5>1. \A k \in 1 .. commit[i] : k \in 1 .. Len(data[i])
            BY <1>0, <3>2
          <5>. QED  BY <1>0, <4>2, <5>1, Zenon
        <4>. QED  BY <4>1, <4>2
      <3>4. "closed" # "open"
        OBVIOUS
      <3>. HIDE DEF mine
      <3>5. DataEffect
        BY <3>1, <3>3, <3>4, CutEffect, Zenon
      <3>6. st'[i] = "closed" /\ data'[i] = mine
        BY <3>1, Zenon DEF TypeInv, ChainType
      <3>. QED  BY <3>1, <3>5, <3>6, Zenon DEF DecisionEffect
    <2>2. CASE ~(st[i] \in {"open", "failed", "closed"})
      <3>1. UNCHANGED <<st, data, relinq, decision>>
        BY <1>2, <2>2, Zenon DEF BeginMakeStable
      <3>. QED  BY <3>1, KeepEffect, Zenon DEF DecisionEffect
    <2>. QED  BY <2>1, <2>2
  <1>3. CASE MakeChunkStable(i)
    <2>. DEFINE cut  == SubSeq(data[i], 1, Len(decision))
                same == Len(decision) <= Len(data[i]) /\ cut = decision
    <2>0. UNCHANGED <<relinq, decision>>
      BY <1>3 DEF MakeChunkStable
    <2>1. CASE st[i] \in {"open", "failed", "closed"}
      <3>1. /\ st' = [st EXCEPT ![i] = IF same THEN "stable" ELSE "lost"]
            /\ data' = [data EXCEPT ![i] = IF same THEN cut ELSE data[i]]
        BY <1>3, <2>1, Zenon DEF MakeChunkStable
      <3>2. commit[i] <= Len(data[i])
        BY <1>0, <2>1
      <3>3. CASE same
        <4>1. decision \in Seq(Record) /\ decision # NoData
          BY <1>3 DEF MakeChunkStable, TypeInv, MetaType
        <4>2. commit[1] <= Len(decision) /\ commit[1] \in Nat
          BY <4>1, DecidedBound
        <4>3. Len(decision) \in 0 .. Len(data[i]) /\ commit[1] \in 0 .. Len(decision)
          BY <1>0, <3>3, <4>1, <4>2
        <4>4. /\ \A k \in 1 .. Len(cut) : In(data[i], k, cut[k])
              /\ \A k \in 1 .. commit[1] : In(cut, k, data[i][k])
          BY <1>0, <4>3, PrefixIn, Zenon
        <4>5. st' = [st EXCEPT ![i] = "stable"] /\ data' = [data EXCEPT ![i] = cut]
          BY <3>1, <3>3, Zenon
        <4>6. "stable" # "open"
          OBVIOUS
        <4>. HIDE DEF cut
        <4>7. DataEffect
          BY <2>0, <4>4, <4>5, <4>6, CutEffect, Zenon
        <4>. QED  BY <2>0, <4>7, Zenon DEF DecisionEffect
      <3>4. CASE ~same
        <4>1. st' = [st EXCEPT ![i] = "lost"] /\ data' = [data EXCEPT ![i] = data[i]]
          BY <3>1, <3>4, Zenon
        <4>2. \A k \in 1 .. commit[i] : k \in 1 .. Len(data[i])
          BY <1>0, <3>2
        <4>3. "lost" # "open"
          OBVIOUS
        <4>4. DataEffect
          BY <1>0, <2>0, <4>1, <4>2, <4>3, CutEffect, Zenon
        <4>. QED  BY <2>0, <4>4, Zenon DEF DecisionEffect
      <3>. QED  BY <3>3, <3>4
    <2>2. CASE ~(st[i] \in {"open", "failed", "closed"})
      <3>1. UNCHANGED <<st, data, relinq, decision>>
        BY <1>3, <2>0, <2>2, Zenon DEF MakeChunkStable
      <3>. QED  BY <3>1, KeepEffect, Zenon DEF DecisionEffect
    <2>. QED  BY <2>1, <2>2
  <1>. QED  BY <1>1, <1>2, <1>3

\* What is known of a sequence of ops is known of its parts.
LEMMA KnownParts ==
    ASSUME NEW s \in Seq(Ops), AllKnown(s)
    PROVE  /\ s # <<>> => Head(s) \in Ops /\ Known(Head(s)) /\ AllKnown(Tail(s))
           /\ \A k \in 1 .. Len(s) : AllKnown(Without(s, k))
           /\ \A n \in 0 .. Len(s) : AllKnown(SubSeq(s, 1, n))
           /\ \A o \in Ops : Known(o) => AllKnown(Append(s, o))
           /\ \A t \in Seq(Ops) : AllKnown(t) => AllKnown(s \o t)
  <1>1. ASSUME s # <<>> PROVE Head(s) \in Ops /\ Known(Head(s)) /\ AllKnown(Tail(s))
    <2>1. /\ Head(s) \in Ops /\ 1 \in 1 .. Len(s) /\ Head(s) = s[1]
          /\ \A k \in 1 .. Len(Tail(s)) : k + 1 \in 1 .. Len(s) /\ Tail(s)[k] = s[k + 1]
      BY <1>1, TailFacts
    <2>. QED  BY <2>1, Zenon DEF AllKnown
  <1>2. ASSUME NEW k \in 1 .. Len(s) PROVE AllKnown(Without(s, k))
    <2>1. \A j \in 1 .. Len(Without(s, k)) : \E l \in 1 .. Len(s) : Without(s, k)[j] = s[l]
      <3>1. /\ Len(Without(s, k)) = Len(s) - 1 /\ Len(s) \in Nat
            /\ \A j \in 1 .. Len(s) - 1 : Without(s, k)[j] = IF j < k THEN s[j] ELSE s[j + 1]
        <4>1. Len(s) \in Nat
          OBVIOUS
        <4>. QED  BY <4>1, WithoutFacts, Zenon
      <3>2. \A j \in 1 .. Len(s) - 1 : j \in 1 .. Len(s) /\ j + 1 \in 1 .. Len(s)
        BY <3>1
      <3>. QED  BY <3>1, <3>2, Zenon
    <2>. QED  BY <2>1, Zenon DEF AllKnown
  <1>3. ASSUME NEW n \in 0 .. Len(s) PROVE AllKnown(SubSeq(s, 1, n))
    <2>1. /\ Len(SubSeq(s, 1, n)) = n
          /\ \A k \in 1 .. n : SubSeq(s, 1, n)[k] = s[k] /\ k \in 1 .. Len(s)
      BY PrefixFacts
    <2>. QED  BY <2>1, Zenon DEF AllKnown
  <1>4. ASSUME NEW o \in Ops, Known(o) PROVE AllKnown(Append(s, o))
    <2>1. \A k \in 1 .. Len(Append(s, o)) :
             \/ k \in 1 .. Len(s) /\ Append(s, o)[k] = s[k]
             \/ Append(s, o)[k] = o
      BY AppendFacts
    <2>. QED  BY <1>4, <2>1, Zenon DEF AllKnown
  <1>5. ASSUME NEW t \in Seq(Ops), AllKnown(t) PROVE AllKnown(s \o t)
    <2>1. \A k \in 1 .. Len(s \o t) :
             \/ k \in 1 .. Len(s) /\ (s \o t)[k] = s[k]
             \/ k - Len(s) \in 1 .. Len(t) /\ (s \o t)[k] = t[k - Len(s)]
      BY ConcatFacts
    <2>. QED  BY <1>5, <2>1, Zenon DEF AllKnown
  <1>. QED  BY <1>1, <1>2, <1>3, <1>4, <1>5, Zenon

\* The same of a queue of statuses.
LEMMA PendParts ==
    /\ \A q \in Seq(Statuses), a \in Statuses : PendKnown(q) /\ Known(a.op) => PendKnown(Append(q, a))
    /\ PendKnown(<<>>) /\ AllKnown(<<>>)
  <1>1. ASSUME NEW q \in Seq(Statuses), NEW a \in Statuses, PendKnown(q), Known(a.op)
        PROVE  PendKnown(Append(q, a))
    <2>1. \A k \in 1 .. Len(Append(q, a)) :
             \/ k \in 1 .. Len(q) /\ Append(q, a)[k] = q[k]
             \/ Append(q, a)[k] = a
      BY AppendFacts
    <2>. QED  BY <1>1, <2>1, Zenon DEF PendKnown
  <1>2. \A k : ~(k \in 1 .. Len(<<>>))
    OBVIOUS
  <1>. QED  BY <1>1, <1>2, Zenon DEF PendKnown, AllKnown

\* The wires are left alone, or a close is put on one.
LEMMA CloseEffect ==
    ASSUME TypeInv, (\E w \in Wids : CloseChunk(w)) \/ (\E i \in Pos : CloseForwarded(i))
    PROVE  WireEffect
  <1>1. \A o : ~App(o) => Known(o)
    BY Zenon DEF Known
  <1>2. \A j \in Pos : link[j] \in Seq(Ops) /\ AllKnown(link[j])
    BY PositionTypes, StateKnown, Zenon
  <1>3. UNCHANGED <<pend, flight>> /\ \A j \in Pos : AllKnown(link'[j])
    <2>1. ASSUME NEW w \in Wids, CloseChunk(w)
          PROVE  UNCHANGED <<pend, flight>> /\ \A j \in Pos : AllKnown(link'[j])
      <3>1. CloseOp(w) \in Ops /\ ~App(CloseOp(w))
        BY NewOpType DEF App, CloseOp
      <3>2. link' = link \/ link' = [link EXCEPT ![1] = Append(link[1], CloseOp(w))]
        BY <2>1, Zenon DEF CloseChunk
      <3>3. UNCHANGED <<pend, flight>>
        BY <2>1, Zenon DEF CloseChunk
      <3>4. AllKnown(Append(link[1], CloseOp(w)))
        BY <1>1, <1>2, <3>1, PosFacts, KnownParts, Zenon
      <3>5. \A j \in Pos : link'[j] = link[j] \/ link'[j] = Append(link[1], CloseOp(w))
        BY <3>2, Zenon DEF TypeInv, ChainType
      <3>. QED  BY <1>2, <3>3, <3>4, <3>5, Zenon
    <2>2. ASSUME NEW i \in Pos, CloseForwarded(i)
          PROVE  UNCHANGED <<pend, flight>> /\ \A j \in Pos : AllKnown(link'[j])
      <3>. DEFINE m == Head(link[i - 1])
      <3>1. /\ i - 1 \in Pos /\ link[i - 1] # <<>> /\ m \in Ops /\ ~App(m)
            /\ link'[i - 1] = Tail(link[i - 1])
            /\ \A j \in Pos : j # i - 1 => link'[j] = link[j] \/ link'[j] = Append(link[j], m)
            /\ UNCHANGED <<pend, flight>>
        BY <2>2, CloseForwardedFacts DEF App
      <3>. HIDE DEF m
      <3>2. AllKnown(Tail(link[i - 1]))
        BY <1>2, <3>1, KnownParts, Zenon
      <3>3. \A j \in Pos : AllKnown(Append(link[j], m))
        BY <1>1, <1>2, <3>1, KnownParts, Zenon
      <3>. QED  BY <1>2, <3>1, <3>2, <3>3, Zenon
    <2>. QED  BY <2>1, <2>2
  <1>. QED  BY <1>3, StateKnown, Zenon DEF WireEffect

\* A slave takes an op off the wire: the op and its record were on the wire.
LEMMA TakesEffect ==
    ASSUME TypeInv, ChainInv, NEW i \in Pos, AppendBegin(i)
    PROVE  DataEffect /\ WireEffect /\ UNCHANGED <<commit, acked, decision>>
  <1>. DEFINE b == i - 1
              m == Head(link[b])
  <1>1. /\ b \in Pos /\ i # 1 /\ link[b] # <<>> /\ m \in Ops
    <2>1. i > 1 /\ b \in Pos /\ link[b] # <<>> /\ m \in Ops
      BY AppendBeginFacts, Zenon
    <2>. QED  BY <2>1, Neighbours, Zenon
  <1>2. PICK ok \in BOOLEAN : Takes(i, m, ok)
    BY AppendBeginFacts, Zenon
  <1>. HIDE DEF b, m
  <1>3. /\ link[b] \in Seq(Ops) /\ AllKnown(link[b]) /\ data[i] \in Seq(Record)
        /\ pend[i] \in Seq(Statuses) /\ PendKnown(pend[i]) /\ AllIn(data[i])
    BY <1>1, PositionTypes, StateKnown, Zenon
  <1>4. Known(m) /\ AllKnown(Tail(link[b]))
    BY <1>1, <1>3, KnownParts, Zenon DEF m
  <1>5. PICK s \in Statuses : s = [op |-> m, ok |-> ok] /\ s.op = m
    <2>1. [op |-> m, ok |-> ok] \in Statuses /\ [op |-> m, ok |-> ok].op = m
      BY <1>1 DEF Statuses
    <2>. QED  BY <2>1, Zenon
  <1>6. /\ link' = [link EXCEPT ![b] = Tail(link[b])] /\ pend' = [pend EXCEPT ![i] = Append(pend[i], s)]
        /\ UNCHANGED <<commit, flight, acked, relinq, metasrv>>
    BY <1>2, <1>5, Zenon DEF Takes, b
  <1>7. WireEffect
    <2>1. PendKnown(Append(pend[i], s))
      BY <1>3, <1>4, <1>5, PendParts, Zenon
    <2>2. \A j \in Pos : /\ link'[j] = link[j] \/ link'[j] = Tail(link[b])
                         /\ pend'[j] = pend[j] \/ pend'[j] = Append(pend[i], s)
      BY <1>6, Zenon DEF TypeInv, ChainType
    <2>. QED  BY <1>4, <1>6, <2>1, <2>2, StateKnown, Zenon DEF WireEffect
  <1>8. AllIn(data'[i]) /\ \A j \in Pos : j # i => data'[j] = data[j]
    <2>1. CASE ok /\ m.kind = "append"
      <3>1. <<m.w, m.seq>> \in Record
        BY <1>1, <2>1 DEF Ops, Record
      <3>2. PICK e \in Record : e = <<m.w, m.seq>>
        BY <3>1, Zenon
      <3>3. data' = [data EXCEPT ![i] = Append(data[i], e)] /\ m.off = Len(data[i])
        BY <1>2, <2>1, <3>2, Zenon DEF Takes
      <3>4. \A k \in 1 .. Len(Append(data[i], e)) :
               \/ k \in 1 .. Len(data[i]) /\ Append(data[i], e)[k] = data[i][k]
               \/ k = Len(data[i]) + 1 /\ Append(data[i], e)[k] = e
        BY <1>3, AppendFacts
      <3>5. At(Len(data[i]) + 1, e)
        BY <1>4, <2>1, <3>2, <3>3, Zenon DEF Known, App
      <3>6. AllIn(Append(data[i], e))
        BY <1>3, <3>4, <3>5, Zenon DEF AllIn
      <3>. QED  BY <3>3, <3>6, Zenon DEF TypeInv, ChainType
    <2>2. CASE ~(ok /\ m.kind = "append")
      <3>1. data' = data
        BY <1>2, <2>2, Zenon DEF Takes
      <3>. QED  BY <1>3, <3>1, Zenon
    <2>. QED  BY <2>1, <2>2
  <1>9. /\ st'[1] = st[1] /\ \A j \in Pos : st[j] # "open" => st'[j] # "open"
    <2>1. CASE st' = st
      BY <2>1, Zenon
    <2>2. CASE st' = [st EXCEPT ![i] = "failed"]
      BY <1>1, <2>2, PosFacts DEF TypeInv, ChainType
    <2>. QED  BY <1>2, <2>1, <2>2, Zenon DEF Takes
  <1>10. \A k \in 1 .. commit[1] : In(data'[1], k, data[1][k])
    <2>1. commit[1] <= Len(data[1])
      BY PosFacts, Zenon DEF ChainInv, Commits
    <2>2. commit[1] \in Nat /\ Len(data[1]) \in Nat
      BY PosFacts, PositionTypes, Zenon
    <2>3. \A k \in 1 .. commit[1] : k \in 1 .. Len(data[1])
      BY <2>1, <2>2
    <2>. QED  BY <1>1, <1>8, <2>3, PosFacts, Zenon DEF In
  <1>11. DataEffect
    BY <1>1, <1>6, <1>8, <1>9, <1>10, PosFacts, StateKnown, Zenon DEF DataEffect
  <1>. QED  BY <1>6, <1>7, <1>11, Zenon DEF metasrv

\* An op of the master's queue or in flight there carries the record its
\* replica has at that offset.
LEMMA MasterRecord ==
    ASSUME TypeInv, OneHistory, NEW o \in Ops, Known(o), App(o), o.off < Len(data[1])
    PROVE  In(data[1], o.off + 1, <<o.w, o.seq>>)
  <1>1. o.off \in Nat /\ Len(data[1]) \in Nat
    <2>1. o.off \in Nat
      BY DEF Ops, OpT
    <2>. QED  BY <2>1, PosFacts, PositionTypes, Zenon
  <1>2. o.off + 1 \in 1 .. Len(data[1])
    BY <1>1
  <1>3. At(o.off + 1, data[1][o.off + 1])
    BY <1>2, PosFacts, StateKnown, Zenon DEF AllIn
  <1>4. At(o.off + 1, <<o.w, o.seq>>)
    BY Zenon DEF Known
  <1>5. data[1][o.off + 1] = <<o.w, o.seq>>
    BY <1>3, <1>4, Zenon DEF OneHistory
  <1>. QED  BY <1>2, <1>5, Zenon DEF In

\* A commit at an open position.
LEMMA CommitsEffect ==
    ASSUME TypeInv, NEW i \in Pos, Open(i), NEW ops \in Seq(Ops), CommitOps(i, ops)
    PROVE  CommitEffect
  <1>1. /\ commit'[i] = commit[i] + Cardinality(AppendsOf(ops))
        /\ \A j \in Pos : j # i => commit'[j] = commit[j]
    BY CommitFacts
  <1>2. Cardinality(AppendsOf(ops)) \in Nat /\ \A j \in Pos : commit[j] \in Nat
    BY PositionTypes, Zenon DEF TypeInv, Counting
  <1>3. commit[i] <= commit'[i] /\ \A j \in Pos : commit[j] <= commit[j]
    BY <1>1, <1>2
  <1>. QED  BY <1>1, <1>3, Zenon DEF CommitEffect, Open

\* No commit.
LEMMA NoCommitEffect ==
    ASSUME TypeInv, commit' = commit
    PROVE  CommitEffect
  <1>1. \A j \in Pos : commit[j] <= commit[j]
    BY PositionTypes
  <1>. QED  BY <1>1, Zenon DEF CommitEffect

\* Running the queue: what is forwarded was in the queue; the only position of
\* a chain of one commits, and reports, all of its replica.
LEMMA RunEffect ==
    ASSUME TypeInv, ChainInv, OneHistory, NEW i \in Pos, RunPendingSubmitQueue(i)
    PROVE  DataEffect /\ WireEffect /\ CommitEffect /\ AckEffect /\ decision' = decision
  <1>1. PICK good \in 0 .. Len(pend[i]), sent, refused \in Seq(Ops) :
             /\ Runs(i, good, sent, refused)
             /\ Len(sent) = good
             /\ \A k \in 1 .. good : Stamped(i, sent[k], pend[i][k])
    BY RunFacts
  <1>2. /\ pend[i] \in Seq(Statuses) /\ Len(pend[i]) \in Nat /\ flight[i] \in Seq(Ops)
        /\ link[i] \in Seq(Ops) /\ PendKnown(pend[i]) /\ AllKnown(flight[i]) /\ AllKnown(link[i])
    <2>1. pend[i] \in Seq(Statuses)
      BY PositionTypes
    <2>. QED  BY <2>1, PositionTypes, StateKnown
  <1>3. \A k \in 1 .. Len(sent) : k \in 1 .. Len(pend[i]) /\ Known(sent[k])
    <2>1. \A k \in 1 .. Len(sent) : k \in 1 .. Len(pend[i])
      BY <1>1, <1>2
    <2>. QED  BY <1>1, <1>2, <2>1, Zenon DEF PendKnown, Known, Stamped, App
  <1>4. AllKnown(sent)
    BY <1>3, Zenon DEF AllKnown
  <1>5. DataEffect
    <2>1. (st[i] = "open" /\ SetFailed(i)) \/ KeepState
      BY <1>1, Zenon DEF Runs
    <2>. QED  BY <2>1, OutcomeEffect, Zenon
  <1>6. decision' = decision
    BY <1>1, Zenon DEF Runs, metasrv
  <1>7. WireEffect
    <2>1. \A j \in Pos : pend'[j] = pend[j] \/ pend'[j] = <<>>
      BY <1>1, Zenon DEF Runs, TypeInv, ChainType
    <2>2. AllKnown(flight[i] \o sent) /\ AllKnown(link[i] \o sent)
      BY <1>2, <1>4, KnownParts, Zenon
    <2>3. \A j \in Pos : /\ flight'[j] = flight[j] \/ flight'[j] = flight[i] \o sent
                         /\ link'[j] = link[j] \/ link'[j] = link[i] \o sent
      <3>1. CASE i < N
        BY <1>1, <3>1, Zenon DEF Runs, TypeInv, ChainType
      <3>2. CASE ~(i < N)
        BY <1>1, <3>2, Zenon DEF Runs
      <3>. QED  BY <3>1, <3>2
    <2>. QED  BY <2>1, <2>2, <2>3, StateKnown, PendParts, Zenon DEF WireEffect
  <1>8. CASE i < N
    <2>1. UNCHANGED <<commit, acked>>
      BY <1>1, <1>8, Zenon DEF Runs
    <2>. QED  BY <1>5, <1>6, <1>7, <2>1, NoCommitEffect, Zenon DEF AckEffect
  <1>9. CASE ~(i < N)
    <2>1. i = N /\ CommitOps(i, sent)
      BY <1>1, <1>9, Neighbours, Zenon DEF Runs
    <2>2. /\ commit' \in [Pos -> Nat] /\ commit'[i] = commit[i] + Cardinality(AppendsOf(sent))
          /\ \A j \in Pos : j # i => commit'[j] = commit[j]
          /\ \A r \in acked' : r \in acked \/
                (i = 1 /\ \E k \in AppendsOf(sent) : r = <<sent[k].w, sent[k].seq>>)
      BY <2>1, CommitFacts
    <2>3. CASE st[i] # "open"
      <3>1. sent = <<>>
        BY <1>1, <2>3 DEF Runs
      <3>2. AppendsOf(sent) = {}
        BY <3>1 DEF AppendsOf
      <3>3. commit'[i] = commit[i]
        BY <2>2, <3>2, PositionTypes DEF TypeInv, Counting
      <3>4. commit' = commit
        BY <2>2, <3>3 DEF TypeInv, ChainType
      <3>5. AckEffect
        BY <2>2, <3>2, Zenon DEF AckEffect
      <3>. QED  BY <1>5, <1>6, <1>7, <3>4, <3>5, NoCommitEffect, Zenon
    <2>4. CASE st[i] = "open"
      <3>1. CommitEffect
        BY <2>1, <2>4, CommitsEffect, Zenon DEF Open
      <3>2. AckEffect
        <4>. SUFFICES ASSUME NEW r \in acked', i = 1, NEW k \in AppendsOf(sent),
                             r = <<sent[k].w, sent[k].seq>>
                      PROVE  \E j \in 1 .. commit'[1] : In(data'[1], j, r)
          BY <2>2, Zenon DEF AckEffect
        <4>. DEFINE c == commit[1]
                    d == Len(data[1])
        <4>1. /\ SentOf(sent, pend[1]) /\ (Len(sent) < Len(pend[1]) => ~pend[1][Len(sent) + 1].ok)
          <5>1. \A j \in 1 .. Len(sent) : pend[1][j].ok
            BY <1>1, <2>4 DEF Runs
          <5>2. Len(sent) < Len(pend[1]) => ~pend[1][Len(sent) + 1].ok
            BY <1>1, <2>4, Zenon DEF Runs
          <5>3. Len(sent) <= Len(pend[1])
            BY <1>1, <1>2
          <5>4. SentOf(sent, pend[1])
            BY <1>1, <5>1, <5>3, Zenon DEF SentOf, Stamped
          <5>. QED  BY <5>2, <5>4
        <4>2. /\ OrderedOk(pend[1], c, d) /\ OkFirst(pend[1]) /\ Covers(pend[1], c, d) /\ c <= d
          BY <2>1, <2>4, Zenon DEF ChainInv, Local, LastWaits, Commits, Open
        <4>3. c \in Nat /\ d \in Nat
          BY PositionTypes, Zenon
        <4>. HIDE DEF c, d
        <4>4. Cardinality(AppendsOf(sent)) = d - c
          BY <1>2, <4>1, <4>2, <4>3, LastCommits, Zenon DEF TypeInv
        <4>5. commit'[1] = d
          BY <2>2, <4>3, <4>4 DEF c
        <4>6. k \in 1 .. Len(sent) /\ App(sent[k]) /\ sent[k] \in Ops /\ sent[k].off \in Nat
          <5>1. k \in 1 .. Len(sent) /\ App(sent[k])
            BY DEF AppendsOf, App
          <5>. QED  BY <5>1, OpOffsets, Zenon
        <4>7. sent[k].off < d
          <5>1. Ordered(sent, c, d)
            BY <1>2, <4>1, <4>2, SentOrdered, Zenon
          <5>. QED  BY <4>6, <5>1, Zenon DEF Ordered
        <4>8. sent[k].off + 1 \in 1 .. commit'[1]
          BY <4>3, <4>5, <4>6, <4>7
        <4>9. In(data[1], sent[k].off + 1, r)
          BY <1>3, <4>6, <4>7, MasterRecord, Zenon DEF d
        <4>10. data' = data
          <5>1. CASE good < Len(pend[1])
            <6>1. good + 1 \in 1 .. Len(pend[1]) /\ ~pend[1][good + 1].ok
              BY <1>1, <1>2, <4>1, <5>1
            <6>. QED  BY <6>1, Zenon DEF ChainInv, Commits
          <5>2. CASE ~(good < Len(pend[1]))
            BY <1>1, <5>2, Zenon DEF Runs, KeepState
          <5>. QED  BY <5>1, <5>2
        <4>. QED  BY <4>8, <4>9, <4>10, Zenon
      <3>. QED  BY <1>5, <1>6, <1>7, <3>1, <3>2, Zenon
    <2>. QED  BY <2>3, <2>4
  <1>. QED  BY <1>8, <1>9

\* The reply to a forwarded op: the master reports the record it commits.
LEMMA OpDoneEffect ==
    ASSUME TypeInv, ChainInv, OneHistory, NEW i \in Pos, OpDone(i)
    PROVE  DataEffect /\ WireEffect /\ CommitEffect /\ AckEffect /\ decision' = decision
  <1>. DEFINE r == Head(reply[i])
  <1>1. i < N /\ reply[i] # <<>> /\ UNCHANGED <<pend, link, decision>>
    BY Zenon DEF OpDone, metasrv
  <1>2. reply[i] \in Seq(Statuses) /\ flight[i] \in Seq(Ops) /\ commit[i] \in Nat
    BY PositionTypes
  <1>3. r \in Statuses /\ r.op \in Ops
    BY <1>1, <1>2, TailFacts, StatusFacts, Zenon DEF Statuses
  <1>4. ASSUME UNCHANGED <<commit, acked, flight>>, KeepState
        PROVE  DataEffect /\ WireEffect /\ CommitEffect /\ AckEffect
    BY <1>1, <1>4, OutcomeEffect, StateKnown, NoCommitEffect, Zenon DEF WireEffect, AckEffect
  <1>5. ASSUME NEW k \in DOMAIN flight[i], flight[i][k] = r.op,
               flight' = [flight EXCEPT ![i] = Without(flight[i], k)],
               NEW good \in BOOLEAN, good <=> st[i] = "open" /\ r.ok,
               IF good THEN CommitOps(i, <<r.op>>) ELSE UNCHANGED <<commit, wid, acked>>,
               IF st[i] = "open" /\ ~r.ok THEN SetFailed(i) ELSE KeepState
        PROVE  DataEffect /\ WireEffect /\ CommitEffect /\ AckEffect
    <2>. HIDE DEF r
    <2>1. k \in 1 .. Len(flight[i]) /\ AllKnown(flight[i])
      BY <1>2, <1>5, SequenceDomain, StateKnown, Zenon
    <2>2. DataEffect
      <3>1. (st[i] = "open" /\ SetFailed(i)) \/ KeepState
        BY <1>5, Zenon
      <3>. QED  BY <3>1, OutcomeEffect, Zenon
    <2>3. WireEffect
      <3>1. AllKnown(Without(flight[i], k))
        BY <1>2, <2>1, KnownParts, Zenon
      <3>2. \A j \in Pos : flight'[j] = flight[j] \/ flight'[j] = Without(flight[i], k)
        BY <1>5, Zenon DEF TypeInv, ChainType
      <3>. QED  BY <1>1, <3>1, <3>2, StateKnown, Zenon DEF WireEffect
    <2>4. CASE ~good
      BY <1>5, <2>2, <2>3, <2>4, NoCommitEffect, Zenon DEF AckEffect
    <2>5. CASE good
      <3>1. PICK ops : ops = <<r.op>>
        BY Zenon
      <3>2. ops \in Seq(Ops) /\ Len(ops) = 1 /\ ops[1] = r.op
        BY <1>3, <3>1
      <3>3. Open(i) /\ r.ok /\ KeepState /\ CommitOps(i, ops)
        BY <1>5, <2>5, <3>1, Zenon DEF Open
      <3>4. CommitEffect
        BY <3>2, <3>3, CommitsEffect, Zenon
      <3>5. AckEffect
        <4>1. /\ commit'[i] = commit[i] + Cardinality(AppendsOf(ops))
              /\ \A x \in acked' : x \in acked \/
                    (i = 1 /\ \E j \in AppendsOf(ops) : x = <<ops[j].w, ops[j].seq>>)
          BY <3>2, <3>3, CommitFacts
        <4>. SUFFICES ASSUME NEW x \in acked', i = 1, NEW j \in AppendsOf(ops),
                             x = <<ops[j].w, ops[j].seq>>
                      PROVE  \E n \in 1 .. commit'[1] : In(data'[1], n, x)
          BY <4>1, Zenon DEF AckEffect
        <4>2. j = 1 /\ App(r.op) /\ x = <<r.op.w, r.op.seq>>
          <5>1. j \in 1 .. Len(ops) /\ App(ops[j])
            BY DEF AppendsOf, App
          <5>2. j = 1
            BY <3>2, <5>1
          <5>. QED  BY <3>2, <5>1, <5>2, Zenon
        <4>3. Cardinality(AppendsOf(ops)) = 1
          <5>1. AppendsOf(ops) = {1}
            BY <3>2, <4>2 DEF AppendsOf, App
          <5>. QED  BY <5>1 DEF TypeInv, Counting
        <4>4. r.op.off = commit[1]
          <5>1. OrderedOk(reply[i], commit[i], commit[i + 1]) /\ Covers(reply[i], commit[i], commit[i + 1])
            BY <1>1, <3>3, Zenon DEF ChainInv, Edge
          <5>2. commit[i + 1] \in Nat
            BY <1>1, Neighbours, PositionTypes, Zenon
          <5>3. OkApp(r)
            BY <3>3, <4>2, Zenon DEF OkApp, App
          <5>4. OkApp(Head(reply[i]))
            BY <5>3, Zenon DEF r
          <5>5. Head(reply[i]).op.off = commit[i]
            BY <1>1, <1>2, <5>1, <5>2, <5>4, OkTail, Zenon
          <5>. QED  BY <5>5, Zenon DEF r
        <4>5. r.op.off < Len(data[1])
          BY <1>5, <2>1, <3>3, <4>2, Zenon DEF ChainInv, Local, Ordered
        <4>6. Known(r.op)
          BY <1>5, <2>1, Zenon DEF AllKnown
        <4>7. In(data[1], r.op.off + 1, x)
          BY <1>3, <4>2, <4>5, <4>6, MasterRecord, Zenon
        <4>8. r.op.off + 1 \in 1 .. commit'[1]
          BY <1>2, <4>1, <4>3, <4>4
        <4>. QED  BY <3>3, <4>7, <4>8, Zenon DEF KeepState
      <3>. QED  BY <2>2, <2>3, <3>4, <3>5
    <2>. QED  BY <2>4, <2>5
  <1>6. \/ UNCHANGED <<commit, acked, flight>> /\ KeepState
        \/ \E k \in DOMAIN flight[i], good \in BOOLEAN :
           /\ flight[i][k] = r.op
           /\ flight' = [flight EXCEPT ![i] = Without(flight[i], k)]
           /\ good <=> st[i] = "open" /\ r.ok
           /\ IF good THEN CommitOps(i, <<r.op>>) ELSE UNCHANGED <<commit, wid, acked>>
           /\ IF st[i] = "open" /\ ~r.ok THEN SetFailed(i) ELSE KeepState
    BY Zenon DEF OpDone
  <1>. HIDE DEF r
  <1>. QED  BY <1>1, <1>4, <1>5, <1>6, Zenon

\* The connection to the successor breaks: what is on the wire is cut.
LEMMA PeerFailedEffect ==
    ASSUME TypeInv, ChainInv, NEW i \in Pos, PeerFailed(i)
    PROVE  DataEffect /\ WireEffect /\ UNCHANGED <<commit, acked, decision>>
  <1>1. /\ (st[i] = "open" /\ SetFailed(i)) \/ KeepState
        /\ UNCHANGED <<pend, commit, acked, decision>>
    BY Zenon DEF PeerFailed, metasrv
  <1>2. PICK k \in 0 .. Len(link[i]) : link' = [link EXCEPT ![i] = SubSeq(link[i], 1, k)]
    BY Zenon DEF PeerFailed
  <1>3. \A j \in Pos : /\ flight'[j] = flight[j] \/ flight'[j] = <<>>
                       /\ link'[j] = link[j] \/ link'[j] = SubSeq(link[i], 1, k)
    BY <1>2, Zenon DEF PeerFailed, TypeInv, ChainType
  <1>4. AllKnown(SubSeq(link[i], 1, k)) /\ AllKnown(<<>>)
    <2>1. link[i] \in Seq(Ops) /\ AllKnown(link[i])
      BY PositionTypes, StateKnown, Zenon
    <2>. QED  BY <2>1, KnownParts, PendParts, Zenon
  <1>5. WireEffect
    BY <1>1, <1>3, <1>4, StateKnown, Zenon DEF WireEffect
  <1>. QED  BY <1>1, <1>5, OutcomeEffect, Zenon

\* The offsets of the history are offsets.
LEMMA HistoryOffsets ==
    ASSUME TypeInv, NEW k, NEW r, At(k, r)
    PROVE  k \in Nat
  <1>1. \A s : In(s, k, r) => k \in Nat
    <2>1. ASSUME NEW s, In(s, k, r) PROVE k \in Nat
      <3>1. k \in 1 .. Len(s)
        BY <2>1, Zenon DEF In
      <3>. QED  BY <3>1
    <2>. QED  BY <2>1, Zenon
  <1>2. \A o \in Ops : Is(o, k, r) => k \in Nat
    BY DEF Is, Ops, OpT
  <1>3. \A i \in Pos : /\ pend[i] \in Seq(Statuses) /\ flight[i] \in Seq(Ops) /\ link[i] \in Seq(Ops)
    BY PositionTypes, Zenon
  <1>. QED  BY <1>1, <1>2, <1>3, OpOffsets, Zenon DEF At

\* A client's append adds one record, at the end of the master's replica.
LEMMA NewRecord ==
    ASSUME TypeInv, NEW w \in Wids, ClientAppend(w)
    PROVE  LET L == Len(data[1])
               x == <<w, wid[1][w].seq + 1>>
               o == AppendOp("append", w, wid[1][w].seq + 1)
           IN  /\ st[1] = "open" /\ UNCHANGED <<st, commit, flight, link, acked, relinq, metasrv>>
               /\ L \in Nat /\ x \in Record /\ o \in Ops
               /\ Len(data'[1]) = L + 1 /\ data'[1][L + 1] = x
               /\ \A k \in 1 .. L : data'[1][k] = data[1][k]
               /\ \A k \in 1 .. Len(pend'[1]) : \/ k \in 1 .. Len(pend[1]) /\ pend'[1][k] = pend[1][k]
                                               \/ pend'[1][k].op = o
               /\ \A j \in Pos : j # 1 => data'[j] = data[j] /\ pend'[j] = pend[j]
               /\ \A k, r : At(k, r)' => At(k, r) \/ (k = L + 1 /\ r = x)
  <1>. DEFINE n == wid[1][w].seq + 1
              x == <<w, n>>
              o == AppendOp("append", w, n)
              s == [op |-> o, ok |-> TRUE]
              L == Len(data[1])
  <1>1. /\ st[1] = "open" /\ data' = [data EXCEPT ![1] = Append(data[1], x)]
        /\ pend' = [pend EXCEPT ![1] = Append(pend[1], s)]
        /\ UNCHANGED <<st, commit, flight, link, acked, relinq, metasrv>>
    BY Zenon DEF ClientAppend
  <1>2. /\ x \in Record /\ s \in Statuses /\ s.op = o /\ o.off = L /\ x = <<o.w, o.seq>>
        /\ n \in 1 .. MaxOps
    <2>1. n \in 1 .. MaxOps
      <3>1. wid[1][w] \in WidInfo
        BY PosFacts DEF TypeInv, ClientType
      <3>2. wid[1][w].seq < MaxOps
        BY Zenon DEF ClientAppend
      <3>. QED  BY <3>1, <3>2, ChainAssumption DEF WidInfo
    <2>. QED  BY <2>1, NewOpType DEF Statuses, AppendOp, Record
  <1>3. data[1] \in Seq(Record) /\ pend[1] \in Seq(Statuses) /\ L \in Nat /\ commit[1] \in Nat
    BY PosFacts, PositionTypes, Zenon
  <1>. HIDE DEF n, x, o, s
  <1>4. /\ Len(data'[1]) = L + 1 /\ \A k \in 1 .. L : data'[1][k] = data[1][k]
        /\ data'[1][L + 1] = x
    <2>1. /\ Len(Append(data[1], x)) = L + 1 /\ \A k \in 1 .. L : Append(data[1], x)[k] = data[1][k]
          /\ Append(data[1], x)[L + 1] = x
      BY <1>2, <1>3, AppendFacts
    <2>2. data'[1] = Append(data[1], x)
      BY <1>1, PosFacts, Zenon DEF TypeInv, ChainType
    <2>. QED  BY <2>1, <2>2, Zenon
  <1>5. \A k \in 1 .. Len(pend'[1]) : \/ k \in 1 .. Len(pend[1]) /\ pend'[1][k] = pend[1][k]
                                      \/ pend'[1][k] = s
    <2>1. \A k \in 1 .. Len(Append(pend[1], s)) :
             \/ k \in 1 .. Len(pend[1]) /\ Append(pend[1], s)[k] = pend[1][k]
             \/ Append(pend[1], s)[k] = s
      BY <1>2, <1>3, AppendFacts
    <2>2. pend'[1] = Append(pend[1], s)
      BY <1>1, PosFacts, Zenon DEF TypeInv, ChainType
    <2>. QED  BY <2>1, <2>2, Zenon
  <1>6. \A j \in Pos : j # 1 => data'[j] = data[j] /\ pend'[j] = pend[j]
    BY <1>1, Zenon DEF TypeInv, ChainType
  <1>7. \A k \in 1 .. L + 1 : k \in 1 .. L \/ k = L + 1
    BY <1>3
  <1>8. ASSUME NEW k, NEW r, At(k, r)' PROVE At(k, r) \/ (k = L + 1 /\ r = x)
    <2>1. \A j \in Pos : In(data'[j], k, r) => In(data[j], k, r) \/ (k = L + 1 /\ r = x)
      BY <1>4, <1>6, <1>7, Zenon DEF In
    <2>2. Is(s.op, k, r) => k = L + 1 /\ r = x
      BY <1>2, Zenon DEF Is
    <2>3. ASSUME NEW j \in Pos, NEW m \in 1 .. Len(pend'[j]), Is(pend'[j][m].op, k, r)
          PROVE  At(k, r) \/ (k = L + 1 /\ r = x)
      <3>1. CASE j = 1
        BY <1>5, <2>2, <2>3, <3>1, PosFacts, Zenon DEF At
      <3>2. CASE j # 1
        BY <1>6, <2>3, <3>2, Zenon DEF At
      <3>. QED  BY <3>1, <3>2
    <2>. QED  BY <1>1, <1>8, <2>1, <2>3, Zenon DEF At, metasrv
  <1>9. o \in Ops
    BY <1>2 DEF Statuses
  <1>10. \A k \in 1 .. Len(pend'[1]) : \/ k \in 1 .. Len(pend[1]) /\ pend'[1][k] = pend[1][k]
                                       \/ pend'[1][k].op = o
    BY <1>2, <1>5, Zenon
  <1>. QED  BY <1>1, <1>2, <1>3, <1>4, <1>6, <1>8, <1>9, <1>10, Zenon DEF n, x, o

\* A client's append is the first record at the next offset.
LEMMA ClientAppendHistory ==
    ASSUME TypeInv, ChainInv, OneHistory, Decided, AckedHeld, NEW w \in Wids, ClientAppend(w)
    PROVE  OneHistory' /\ Decided' /\ AckedHeld'
  <1>. DEFINE x == <<w, wid[1][w].seq + 1>>
              L == Len(data[1])
  <1>1. /\ st[1] = "open" /\ UNCHANGED <<st, commit, acked, relinq, decision>>
    BY NewRecord, Zenon DEF metasrv
  <1>3. L \in Nat
    BY NewRecord, Zenon
  <1>4. /\ Len(data'[1]) = L + 1 /\ \A k \in 1 .. L : data'[1][k] = data[1][k]
    BY NewRecord, Zenon
  <1>8. \A k, r : At(k, r)' => At(k, r) \/ (k = L + 1 /\ r = x)
    BY NewRecord, Zenon
  <1>. HIDE DEF x
  <1>9. \A k, r : At(k, r) => k \in Nat /\ k <= L
    BY <1>1, HistoryOffsets, Zenon DEF OneHistory, Open
  <1>10. OneHistory'
    <2>. HIDE DEF L
    <2>1. \A k, r : At(k, r) => k # L + 1 /\ k <= L + 1
      <3>1. \A k \in Nat : k <= L => k # L + 1 /\ k <= L + 1
        BY <1>3
      <3>. QED  BY <1>9, <3>1, Zenon
    <2>2. L + 1 <= L + 1
      BY <1>3
    <2>3. ASSUME NEW k, NEW r, NEW q, At(k, r)', At(k, q)' PROVE r = q
      <3>1. (At(k, r) \/ (k = L + 1 /\ r = x)) /\ (At(k, q) \/ (k = L + 1 /\ q = x))
        BY <1>8, <2>3, Zenon
      <3>2. At(k, r) /\ At(k, q) => r = q
        BY Zenon DEF OneHistory
      <3>. QED  BY <2>1, <3>1, <3>2, Zenon
    <2>4. ASSUME NEW k, NEW r, At(k, r)' PROVE k <= Len(data'[1])
      BY <1>4, <1>8, <2>1, <2>2, <2>4, Zenon
    <2>. QED  BY <2>3, <2>4, Zenon DEF OneHistory
  <1>11. Decided'
    BY <1>1, Zenon DEF Decided, Open
  <1>12. AckedHeld'
    <2>1. \A k \in 1 .. L : k \in 1 .. L + 1
      BY <1>3
    <2>. QED  BY <1>1, <1>4, <2>1, Zenon DEF AckedHeld, In
  <1>. QED  BY <1>10, <1>11, <1>12

-----------------------------------------------------------------------------

\* A step has the effects above, or is a client's append.
LEMMA Effects ==
    ASSUME TypeInv, ChainInv, OneHistory, Decided, [Next]_vars
    PROVE  \/ DataEffect /\ WireEffect /\ CommitEffect /\ DecisionEffect /\ AckEffect
           \/ \E w \in Wids : ClientAppend(w)
  <1>. DEFINE All == DataEffect /\ WireEffect /\ CommitEffect /\ DecisionEffect /\ AckEffect
  <1>1. ASSUME DataEffect, WireEffect, UNCHANGED <<commit, acked>>, DecisionEffect PROVE All
    BY <1>1, NoCommitEffect, Zenon DEF AckEffect
  <1>2. ASSUME UNCHANGED <<pend, flight, link>> PROVE WireEffect
    BY <1>2, StateKnown, Zenon DEF WireEffect
  <1>3. decision' = decision => DecisionEffect
    BY Zenon DEF DecisionEffect
  <1>. HIDE DEF All
  <1>4. ASSUME NEW i \in Pos, st[i] = "open", SetFailed(i), UNCHANGED <<commit, wires, acked, metasrv>>
        PROVE  All
    <2>1. UNCHANGED <<commit, pend, flight, link, acked, decision>>
      BY <1>4, Zenon DEF wires, metasrv
    <2>. QED  BY <1>1, <1>2, <1>3, <1>4, <2>1, OutcomeEffect, Zenon
  <1>5. ASSUME UNCHANGED <<st, data, commit, wires, acked>>, relinq' \in {relinq, NoData}, DecisionEffect
        PROVE  All
    <2>1. UNCHANGED <<st, data, commit, pend, flight, link, acked>>
      BY <1>5, Zenon DEF wires
    <2>. QED  BY <1>1, <1>2, <1>5, <2>1, KeepEffect, Zenon
  <1>6. ASSUME UNCHANGED vars \/ LeaseClerkExpires \/ BeginMakeChunkStable \/ BeginMakeChunkStableDone
        PROVE  All
    <2>1. UNCHANGED <<st, data, commit, wires, acked, relinq, decision>>
      BY <1>6, Zenon DEF vars, LeaseClerkExpires, BeginMakeChunkStable, BeginMakeChunkStableDone,
                         appender, metasrv
    <2>2. relinq' \in {relinq, NoData}
      BY <2>1
    <2>. QED  BY <1>3, <1>5, <2>1, <2>2, Zenon
  <1>7. ASSUME LeaseRelinquish PROVE All
    <2>1. /\ UNCHANGED <<st, data, commit, wires, acked>> /\ relinq' = NoData /\ relinq # NoData
          /\ decision' = relinq \/ decision' = decision
      BY <1>7, Zenon DEF LeaseRelinquish, appender, metasrv
    <2>2. relinq' \in {relinq, NoData} /\ DecisionEffect
      BY <2>1 DEF DecisionEffect
    <2>. QED  BY <1>5, <2>1, <2>2, Zenon
  <1>8. ASSUME NEW i \in Pos, NEW w \in Wids, GetOpStatus(i, w) PROVE All
    <2>1. UNCHANGED <<st, data, commit, wires, acked, relinq, decision>>
      BY <1>8, Zenon DEF GetOpStatus, metasrv
    <2>2. relinq' \in {relinq, NoData}
      BY <2>1
    <2>. QED  BY <1>3, <1>5, <2>1, <2>2, Zenon
  <1>9. ASSUME (\E w \in Wids : CloseChunk(w)) \/ (\E i \in Pos : CloseForwarded(i)) PROVE All
    <2>1. UNCHANGED <<st, data, commit, acked, relinq, decision>>
      BY <1>9, Zenon DEF CloseChunk, CloseForwarded, metasrv
    <2>2. relinq' \in {relinq, NoData}
      BY <2>1
    <2>. QED  BY <1>1, <1>3, <1>9, <2>1, <2>2, CloseEffect, KeepEffect, Zenon
  <1>10. ASSUME SendCommitAck PROVE All
    <2>. DEFINE s == [op |-> AppendOp("ack", NoWid, 0), ok |-> TRUE]
    <2>1. s \in Statuses /\ ~App(s.op)
      BY NewOpType DEF Statuses, App, AppendOp
    <2>2. /\ pend' = [pend EXCEPT ![1] = Append(pend[1], s)]
          /\ UNCHANGED <<st, data, commit, flight, link, acked, relinq, decision>>
      BY <1>10, Zenon DEF SendCommitAck, appender, metasrv
    <2>. HIDE DEF s
    <2>3. PendKnown(Append(pend[1], s))
      BY <2>1, PosFacts, PositionTypes, StateKnown, PendParts, Zenon DEF Known
    <2>4. \A j \in Pos : pend'[j] = pend[j] \/ pend'[j] = Append(pend[1], s)
      BY <2>2, Zenon DEF TypeInv, ChainType
    <2>5. WireEffect
      BY <2>2, <2>3, <2>4, StateKnown, Zenon DEF WireEffect
    <2>6. relinq' \in {relinq, NoData}
      BY <2>2
    <2>. QED  BY <1>1, <1>3, <2>2, <2>5, <2>6, KeepEffect, Zenon
  <1>11. ASSUME LeaseExpired \/ TryToCloseChunk PROVE All
    <2>1. st[1] = "open" /\ SetFailed(1) /\ UNCHANGED <<commit, wires, acked, metasrv>>
      BY <1>11, Zenon DEF LeaseExpired, TryToCloseChunk
    <2>. QED  BY <1>4, <2>1, PosFacts, Zenon
  <1>12. ASSUME NEW i \in Pos, ReplicationTimeout(i) \/ \E w \in Wids : InvalidateWriteId(i, w)
         PROVE  All
    <2>1. st[i] = "open" /\ SetFailed(i) /\ UNCHANGED <<commit, wires, acked, metasrv>>
      BY <1>12, Zenon DEF ReplicationTimeout, InvalidateWriteId
    <2>. QED  BY <1>4, <2>1, Zenon
  <1>13. ASSUME NEW i \in Pos, Lose(i) \/ BeginMakeStable(i) \/ MakeChunkStable(i) PROVE All
    <2>1. UNCHANGED <<commit, wires, acked>>
      BY <1>13, Zenon DEF Lose, BeginMakeStable, MakeChunkStable
    <2>2. UNCHANGED <<commit, pend, flight, link, acked>>
      BY <2>1, Zenon DEF wires
    <2>. QED  BY <1>1, <1>2, <1>13, <2>2, MakeStableEffect, Zenon
  <1>14. ASSUME NEW i \in Pos, AppendBegin(i) \/ PeerFailed(i) PROVE All
    BY <1>1, <1>3, <1>14, TakesEffect, PeerFailedEffect, Zenon
  <1>15. ASSUME NEW i \in Pos, RunPendingSubmitQueue(i) \/ OpDone(i) PROVE All
    BY <1>3, <1>15, RunEffect, OpDoneEffect, Zenon DEF All
  <1>16. All \/ \E w \in Wids : ClientAppend(w)
    BY <1>6, <1>7, <1>8, <1>9, <1>10, <1>11, <1>12, <1>13, <1>14, <1>15, Zenon DEF Next
  <1>. QED  BY <1>16, Zenon DEF All

-----------------------------------------------------------------------------
(* The write ids.                                                          *)

Seqno(i, w) == wid[i][w].seq

\* The entry of a write id notes record r at offset k - 1.
Noted(k, r) == \E i \in Pos, w \in Wids :
                  Seqno(i, w) > 0 /\ k = wid[i][w].end /\ r = <<w, Seqno(i, w)>>
Hist(k, r) == At(k, r) \/ Noted(k, r)

\* An offset has one record, the sequence numbers of a write id increase with
\* the offset, and the master has seen all there is.
SeqOrder ==
    /\ \A k, r, s : Hist(k, r) /\ Hist(k, s) => r = s
    /\ \A w \in Wids : \A k, l, m, n :
          Hist(k, <<w, m>>) /\ Hist(l, <<w, n>>) /\ k < l => m < n
    /\ Open(1) => \A k, r : Hist(k, r) => k <= Len(data[1])
    /\ \A w \in Wids : \A k, n : Hist(k, <<w, n>>) => n <= Seqno(1, w)

\* An entry notes an offset of the replica.
NotedEnds ==
    \A i \in Pos, w \in Wids : /\ Seqno(i, w) > 0 => wid[i][w].end > 0
                               /\ Open(i) => wid[i][w].end <= Len(data[i])

\* What a position has, has queued or forwards it has accepted, and its
\* predecessors before it.
UpTo(i, r) == r[2] <= Seqno(i, r[1])
OpUpTo(i, o) == App(o) => o.seq <= Seqno(i, o.w)

Accepted ==
    /\ \A i \in Pos : /\ \A k \in 1 .. Len(data[i]) : UpTo(i, data[i][k])
                      /\ \A k \in 1 .. Len(pend[i]) : pend[i][k].ok => OpUpTo(i, pend[i][k].op)
                      /\ \A k \in 1 .. Len(link[i]) : OpUpTo(i, link[i][k])
    /\ \A i, j \in Pos, w \in Wids : i <= j => Seqno(j, w) <= Seqno(i, w)

\* A position has accepted what is below its commit offset, and an open master
\* has it.
CommittedSeq ==
    /\ \A i \in Pos : \A k, r : Hist(k, r) /\ k <= commit[i] => UpTo(i, r)
    /\ Open(1) => \A i \in Pos : commit[i] <= Len(data[1])

\* The records of a variant told to the meta server were accepted by all.
VariantSeq ==
    \A i \in Pos : /\ relinq # NoData => \A k \in 1 .. Len(relinq) : UpTo(i, relinq[k])
                   /\ decision # NoData => \A k \in 1 .. Len(decision) : UpTo(i, decision[k])

\* What a slave hears of the master's commit offset is out of date at worst.
MasterCommits ==
    \A i \in Pos : /\ mcommit[i] <= commit[1]
                   /\ \A k \in 1 .. Len(link[i]) : link[i][k].mc <= commit[1]
                   /\ \A k \in 1 .. Len(pend[i]) : pend[i][k].op.mc <= commit[1]

\* The master has one append at a time in progress with a write id.
OneAtATime ==
    \A w \in Wids : \A k, n : Hist(k, <<w, n>>) =>
        /\ n < Seqno(1, w) => k <= commit[1]
        /\ Open(1) /\ wid[1][w].status = "ok" => k <= commit[1]

\* r is part of the variant decided on, or will be of any.
Held(r) == \/ \E k \in 1 .. commit[1] : In(data[1], k, r)
           \/ phase = "decided" /\ Chosen(r)
Refused(r) == phase = "decided" /\ ~Chosen(r)

\* The status of a write id.
StatusHeld ==
    \A i \in Pos, w \in Wids :
        /\ wid[i][w].status = "ok" /\ Seqno(i, w) > 0 => Held(<<w, Seqno(i, w)>>)
        /\ wid[i][w].status = "bad" => Refused(<<w, Seqno(i, w)>>)

\* The answers given: somebody does not accept any more.
ToldHeld ==
    \A t \in told : /\ t.status = "ok" /\ t.seq > 0 => Held(<<t.w, t.seq>>)
                    /\ t.status = "bad" => Refused(<<t.w, t.seq>>)
                    /\ \E i \in Pos : wid[i][t.w].ro /\ Seqno(i, t.w) = t.seq

-----------------------------------------------------------------------------
(* The history.                                                            *)

\* A record is a write id and a positive number.
LEMMA RecordParts ==
    /\ \A w, n : <<w, n>> \in Record => w \in Wids /\ n \in Nat /\ n > 0
    /\ \A r \in Record : r = <<r[1], r[2]>> /\ r[1] \in Wids /\ r[2] \in Nat /\ r[2] > 0
  BY ChainAssumption DEF Record

\* The entry of a write id has its types.
LEMMA WidTypes ==
    ASSUME TypeInv, NEW i \in Pos, NEW w \in Wids
    PROVE  /\ wid[i][w] \in WidInfo /\ Seqno(i, w) \in Nat /\ Seqno(i, w) \in 0 .. MaxOps
           /\ wid[i][w].end \in Nat
  <1>1. wid[i][w] \in WidInfo
    BY DEF TypeInv, ClientType
  <1>. QED  BY <1>1, ChainAssumption DEF WidInfo, Seqno

\* The types after a step.
LEMMA NextTypes ==
    ASSUME TypeInv', NEW i \in Pos
    PROVE  /\ \A w \in Wids : Seqno(i, w)' \in Nat /\ wid'[i][w].end \in Nat
           /\ data'[i] \in Seq(Record) /\ Len(data'[i]) \in Nat /\ commit'[i] \in Nat
           /\ pend'[i] \in Seq(Statuses) /\ link'[i] \in Seq(Ops)
  <1>1. ASSUME NEW w \in Wids PROVE Seqno(i, w)' \in Nat /\ wid'[i][w].end \in Nat
    <2>1. wid'[i][w] \in WidInfo
      BY DEF TypeInv, ClientType
    <2>. QED  BY <2>1, ChainAssumption DEF WidInfo, Seqno
  <1>2. /\ data'[i] \in Seq(Record) /\ commit'[i] \in Nat
        /\ pend'[i] \in Seq(Statuses) /\ link'[i] \in Seq(Ops)
    BY Zenon DEF TypeInv, ChainType
  <1>3. Len(data'[i]) \in Nat
    BY <1>2
  <1>. QED  BY <1>1, <1>2, <1>3, Zenon

\* The offsets and the records of the history.
LEMMA HistTypes ==
    ASSUME TypeInv, NotedEnds, NEW k, NEW r, Hist(k, r)
    PROVE  k \in Nat /\ k > 0 /\ r \in Record
  <1>1. ASSUME NEW s \in Seq(Record), In(s, k, r) PROVE k \in Nat /\ k > 0 /\ r \in Record
    <2>1. k \in 1 .. Len(s) /\ s[k] = r
      BY <1>1, Zenon DEF In
    <2>. QED  BY <2>1
  <1>2. ASSUME NEW o \in Ops, Is(o, k, r) PROVE k \in Nat /\ k > 0 /\ r \in Record
    BY <1>2 DEF Is, Ops, OpT, Record, App
  <1>3. \A i \in Pos : /\ pend[i] \in Seq(Statuses) /\ flight[i] \in Seq(Ops) /\ link[i] \in Seq(Ops)
                       /\ data[i] \in Seq(Record)
    BY PositionTypes, Zenon
  <1>4. /\ relinq # NoData => relinq \in Seq(Record)
        /\ decision # NoData => decision \in Seq(Record)
    BY DEF TypeInv, MetaType
  <1>5. CASE At(k, r)
    BY <1>1, <1>2, <1>3, <1>4, <1>5, OpOffsets, Zenon DEF At
  <1>6. CASE Noted(k, r)
    <2>1. PICK i \in Pos, w \in Wids :
             Seqno(i, w) > 0 /\ k = wid[i][w].end /\ r = <<w, Seqno(i, w)>>
      BY <1>6, Zenon DEF Noted
    <2>2. Seqno(i, w) \in 0 .. MaxOps /\ k \in Nat /\ k > 0
      BY <2>1, WidTypes, Zenon DEF NotedEnds
    <2>3. Seqno(i, w) \in 1 .. MaxOps
      BY <2>1, <2>2
    <2>. QED  BY <2>1, <2>2, <2>3 DEF Record
  <1>. QED  BY <1>5, <1>6, Zenon DEF Hist

\* The order of the records of a write id.
LEMMA Increasing ==
    ASSUME SeqOrder, NEW w \in Wids, NEW k, NEW l, NEW m, NEW n,
           Hist(k, <<w, m>>), Hist(l, <<w, n>>), k < l
    PROVE  m < n
  BY Zenon DEF SeqOrder

\* A record is at one offset.
LEMMA OneOffset ==
    ASSUME TypeInv, NotedEnds, SeqOrder, NEW k, NEW l, NEW r, Hist(k, r), Hist(l, r)
    PROVE  k = l
  <1>1. k \in Nat /\ l \in Nat /\ r \in Record
    BY HistTypes, Zenon
  <1>2. PICK w \in Wids, n \in Nat : r = <<w, n>>
    BY <1>1, RecordParts, Zenon
  <1>3. ~(n < n)
    OBVIOUS
  <1>4. ~(k < l) /\ ~(l < k)
    BY <1>2, <1>3, Zenon DEF SeqOrder
  <1>. QED  BY <1>1, <1>4

-----------------------------------------------------------------------------
(* What a step other than a client's append does.                          *)

\* Slave i accepts the append m of write id w off the wire.
Accepts(i, w) ==
    \E m \in Ops : /\ App(m) /\ m.w = w /\ i > 1 /\ i - 1 \in Pos /\ Has(link[i - 1], m)
                   /\ Open(i) /\ m.off = Len(data[i]) /\ Len(data'[i]) = m.off + 1
                   /\ wid'[i][w].seq = m.seq /\ wid'[i][w].end = m.off + 1
                   /\ wid'[i][w].status = "busy" /\ ~wid[i][w].ro

\* The last append of write id w succeeded: the master is known to have
\* committed it, or reports it, or it is in the stable replica.
Succeeds(i, w) ==
    \/ i > 1 /\ wid[i][w].end <= commit[1]
    \/ st[i] = "stable" /\ wid[i][w].end <= Len(data[i])
    \/ i = 1 /\ \E k, n : At(k, <<w, n>>) /\ k > commit[1] /\ <<w, n>> \in acked'

\* What happens to the entry of a write id.
WidStep(i, w) ==
    \/ Accepts(i, w)
    \/ /\ Seqno(i, w)' = Seqno(i, w) /\ wid'[i][w].end = wid[i][w].end
       /\ wid[i][w].ro => wid'[i][w].ro
       /\ \/ wid'[i][w].status \in {wid[i][w].status, "erased"}
          \/ wid'[i][w].status = "ok" /\ Succeeds(i, w)
          \/ wid'[i][w].status = "bad" /\ st[i] = "stable" /\ wid[i][w].end > Len(data[i])
WidEffect == \A i \in Pos, w \in Wids : WidStep(i, w)

\* A replica is cut, or gets the record its position accepts.
ReplicaEffect ==
    \A j \in Pos : /\ \A k \in 1 .. Len(data'[j]) :
                         \/ In(data[j], k, data'[j][k])
                         \/ \E w \in Wids : data'[j][k] = <<w, wid'[j][w].seq>>
                   /\ st'[j] = "open" => Len(data[j]) <= Len(data'[j])
                   /\ st'[j] = "stable" => commit'[j] = commit[j]

\* What is queued was accepted, what is sent was queued, and nothing is
\* stamped with more than the master's commit offset.
QueueEffect ==
    \A j \in Pos :
        /\ mcommit'[j] <= commit[1]
        /\ \A k \in 1 .. Len(pend'[j]) :
              /\ pend'[j][k].op.mc <= commit[1]
              /\ pend'[j][k].ok /\ App(pend'[j][k].op) =>
                    \/ \E l \in 1 .. Len(pend[j]) : pend[j][l] = pend'[j][k]
                    \/ pend'[j][k].op.seq = wid'[j][pend'[j][k].op.w].seq
        /\ \A k \in 1 .. Len(link'[j]) :
              /\ link'[j][k].mc <= commit[1]
              /\ App(link'[j][k]) =>
                    \/ Has(link[j], link'[j][k])
                    \/ \E l \in 1 .. Len(pend[j]) :
                          pend[j][l].ok /\ Stamped(j, link'[j][k], pend[j][l])

\* A new variant is what some position has committed, and the decision is final.
Committed(s) == \E j \in Pos : /\ Len(s) <= commit[j]
                               /\ \A k \in 1 .. Len(s) : In(data[j], k, s[k])

VariantEffect ==
    /\ relinq' \in {relinq, NoData} \/ Committed(relinq')
    /\ decision' = decision \/ (relinq # NoData /\ decision' = relinq) \/ Committed(decision')
    /\ phase = "decided" => UNCHANGED <<phase, decision>>

\* A client is told the status of a write id, which is read only from then on.
ToldEffect ==
    \A t \in told' : \/ t \in told
                     \/ \E i \in Pos : /\ wid'[i][t.w].ro /\ wid'[i][t.w].seq = t.seq
                                       /\ wid'[i][t.w].status = t.status

\* The sequence numbers grow, and nothing is noted that was not in the history.
LEMMA SeqGrows ==
    ASSUME TypeInv, NotedEnds, SeqOrder, WidEffect
    PROVE  /\ \A i \in Pos, w \in Wids : Seqno(i, w) <= Seqno(i, w)'
           /\ \A w \in Wids : Seqno(1, w)' = Seqno(1, w)
           /\ \A k, r : Noted(k, r)' => Hist(k, r)
  <1>1. ASSUME NEW i \in Pos, NEW w \in Wids, NEW m \in Ops,
               App(m), m.w = w, i - 1 \in Pos, Has(link[i - 1], m), Open(i), m.off = Len(data[i])
        PROVE  Hist(m.off + 1, <<w, m.seq>>) /\ Seqno(i, w) <= m.seq
    <2>1. Hist(m.off + 1, <<w, m.seq>>)
      BY <1>1, StateKnown, Zenon DEF AllKnown, Known, Has, Hist
    <2>2. /\ Seqno(i, w) \in Nat /\ m.seq \in Nat /\ m.off \in Nat /\ wid[i][w].end \in Nat
      <3>1. m.seq \in Nat /\ m.off \in Nat
        BY ChainAssumption DEF Ops, OpT
      <3>. QED  BY <3>1, WidTypes, Zenon
    <2>3. CASE Seqno(i, w) = 0
      BY <2>1, <2>2, <2>3
    <2>4. CASE Seqno(i, w) # 0
      <3>1. Seqno(i, w) > 0
        BY <2>2, <2>4
      <3>2. Hist(wid[i][w].end, <<w, Seqno(i, w)>>)
        BY <3>1, Zenon DEF Noted, Hist
      <3>3. wid[i][w].end <= m.off
        BY <1>1, Zenon DEF NotedEnds
      <3>4. wid[i][w].end < m.off + 1
        BY <2>2, <3>3
      <3>5. Seqno(i, w) < m.seq
        <4>1. PICK e, a, f, b : e = wid[i][w].end /\ a = Seqno(i, w) /\ f = m.off + 1 /\ b = m.seq
          BY Zenon
        <4>2. Hist(e, <<w, a>>) /\ Hist(f, <<w, b>>) /\ e < f
          BY <2>1, <3>2, <3>4, <4>1
        <4>3. a < b
          BY <4>2, Increasing, Zenon
        <4>. QED  BY <4>1, <4>3
      <3>. QED  BY <2>1, <2>2, <3>5
    <2>. QED  BY <2>3, <2>4
  <1>2. ASSUME NEW i \in Pos, NEW w \in Wids PROVE Seqno(i, w) <= Seqno(i, w)'
    <2>1. CASE Accepts(i, w)
      <3>1. PICK m \in Ops : /\ App(m) /\ m.w = w /\ i - 1 \in Pos /\ Has(link[i - 1], m)
                             /\ Open(i) /\ m.off = Len(data[i]) /\ Seqno(i, w)' = m.seq
        BY <2>1, Zenon DEF Accepts, Seqno
      <3>. QED  BY <1>1, <3>1, Zenon
    <2>2. CASE Seqno(i, w)' = Seqno(i, w)
      BY <2>2, WidTypes
    <2>. QED  BY <2>1, <2>2, Zenon DEF WidEffect, WidStep
  <1>3. ASSUME NEW w \in Wids PROVE Seqno(1, w)' = Seqno(1, w)
    <2>1. ~(1 > 1)
      OBVIOUS
    <2>. QED  BY <2>1, PosFacts, Zenon DEF WidEffect, WidStep, Accepts
  <1>4. ASSUME NEW k, NEW r, Noted(k, r)' PROVE Hist(k, r)
    <2>1. PICK i \in Pos, w \in Wids :
             Seqno(i, w)' > 0 /\ k = wid'[i][w].end /\ r = <<w, Seqno(i, w)'>>
      BY <1>4, Zenon DEF Noted
    <2>2. CASE Accepts(i, w)
      <3>1. PICK m \in Ops : /\ App(m) /\ m.w = w /\ i - 1 \in Pos /\ Has(link[i - 1], m)
                             /\ Open(i) /\ m.off = Len(data[i]) /\ Seqno(i, w)' = m.seq
                             /\ wid'[i][w].end = m.off + 1
        BY <2>2, Zenon DEF Accepts, Seqno
      <3>. QED  BY <1>1, <2>1, <3>1, Zenon
    <2>3. CASE Seqno(i, w)' = Seqno(i, w) /\ wid'[i][w].end = wid[i][w].end
      BY <2>1, <2>3, Zenon DEF Hist, Noted
    <2>. QED  BY <2>2, <2>3, Zenon DEF WidEffect, WidStep
  <1>. QED  BY <1>2, <1>3, <1>4, Zenon

\* A record accepted stays accepted.
LEMMA UpToGrows ==
    ASSUME TypeInv, TypeInv', NotedEnds, SeqOrder, WidEffect, NEW i \in Pos, NEW r \in Record, UpTo(i, r)
    PROVE  UpTo(i, r)'
  <1>1. r[1] \in Wids /\ r[2] \in Nat
    BY RecordParts, Zenon
  <1>2. Seqno(i, r[1]) \in Nat /\ Seqno(i, r[1])' \in Nat /\ Seqno(i, r[1]) <= Seqno(i, r[1])'
    BY <1>1, WidTypes, NextTypes, SeqGrows, Zenon
  <1>. QED  BY <1>1, <1>2 DEF UpTo

\* The history does not grow, and keeps its order.
LEMMA SeqOrderKept ==
    ASSUME TypeInv, NotedEnds, SeqOrder, DataEffect, WireEffect, DecisionEffect, WidEffect
    PROVE  SeqOrder' /\ \A k, r : Hist(k, r)' => Hist(k, r)
  <1>1. \A k, r : Hist(k, r)' => Hist(k, r)
    BY NoNewRecord, SeqGrows, Zenon DEF Hist
  <1>2. Open(1)' => Open(1) /\ data'[1] = data[1]
    BY PosFacts, Zenon DEF DataEffect, Open
  <1>3. \A w \in Wids : Seqno(1, w)' = Seqno(1, w)
    BY SeqGrows, Zenon
  <1>4. ASSUME NEW w \in Wids, NEW k, NEW l, NEW m, NEW n,
               Hist(k, <<w, m>>)', Hist(l, <<w, n>>)', k < l
        PROVE  m < n
    BY <1>1, <1>4, Increasing, Zenon
  <1>5. ASSUME NEW k, NEW r, NEW s, Hist(k, r)', Hist(k, s)' PROVE r = s
    BY <1>1, <1>5, Zenon DEF SeqOrder
  <1>6. ASSUME Open(1)', NEW k, NEW r, Hist(k, r)' PROVE k <= Len(data'[1])
    BY <1>1, <1>2, <1>6, Zenon DEF SeqOrder
  <1>7. ASSUME NEW w \in Wids, NEW k, NEW n, Hist(k, <<w, n>>)' PROVE n <= Seqno(1, w)'
    BY <1>1, <1>3, <1>7, Zenon DEF SeqOrder
  <1>8. SeqOrder'
    BY <1>4, <1>5, <1>6, <1>7, Zenon DEF SeqOrder
  <1>. QED  BY <1>1, <1>8, Zenon

\* The offsets noted stay in the replica of an open position.
LEMMA NotedEndsKept ==
    ASSUME TypeInv, TypeInv', NotedEnds, DataEffect, WidEffect, ReplicaEffect
    PROVE  NotedEnds'
  <1>. SUFFICES ASSUME NEW i \in Pos, NEW w \in Wids
                PROVE  /\ Seqno(i, w)' > 0 => wid'[i][w].end > 0
                       /\ Open(i)' => wid'[i][w].end <= Len(data'[i])
    BY Zenon DEF NotedEnds
  <1>1. CASE Accepts(i, w)
    <2>1. PICK m \in Ops : Len(data'[i]) = m.off + 1 /\ wid'[i][w].end = m.off + 1
      BY <1>1, Zenon DEF Accepts
    <2>2. m.off \in Nat
      BY DEF Ops, OpT
    <2>. QED  BY <2>1, <2>2
  <1>2. CASE Seqno(i, w)' = Seqno(i, w) /\ wid'[i][w].end = wid[i][w].end
    <2>1. Seqno(i, w)' > 0 => wid'[i][w].end > 0
      BY <1>2, Zenon DEF NotedEnds
    <2>2. ASSUME Open(i)' PROVE wid'[i][w].end <= Len(data'[i])
      <3>1. wid[i][w].end <= Len(data[i]) /\ Len(data[i]) <= Len(data'[i])
        BY <2>2, Zenon DEF NotedEnds, DataEffect, ReplicaEffect, Open
      <3>2. wid[i][w].end \in Nat /\ Len(data[i]) \in Nat /\ Len(data'[i]) \in Nat
        BY WidTypes, NextTypes, PositionTypes, Zenon
      <3>. QED  BY <1>2, <3>1, <3>2
    <2>. QED  BY <2>1, <2>2
  <1>. QED  BY <1>1, <1>2, Zenon DEF WidEffect, WidStep

\* What a position has, queues and sends it has accepted.
LEMMA AcceptedKept ==
    ASSUME TypeInv, TypeInv', NotedEnds, SeqOrder, Accepted, WidEffect, ReplicaEffect, QueueEffect
    PROVE  Accepted'
  <1>0. \A i \in Pos, w \in Wids :
           Seqno(i, w) \in Nat /\ Seqno(i, w)' \in Nat /\ Seqno(i, w) <= Seqno(i, w)'
    BY WidTypes, NextTypes, SeqGrows, Zenon
  <1>1. ASSUME NEW i \in Pos, NEW k \in 1 .. Len(data'[i]) PROVE UpTo(i, data[i][k])'
    <2>1. PICK r : r = data'[i][k]
      BY Zenon
    <2>2. CASE In(data[i], k, r)
      <3>1. r \in Record /\ UpTo(i, r)
        <4>1. k \in 1 .. Len(data[i]) /\ data[i][k] = r /\ data[i] \in Seq(Record)
          BY <2>2, PositionTypes, Zenon DEF In
        <4>2. UpTo(i, r)
          BY <4>1, Zenon DEF Accepted
        <4>. QED  BY <4>1, <4>2
      <3>2. UpTo(i, r)'
        BY <3>1, UpToGrows, Zenon
      <3>. QED  BY <2>1, <3>2 DEF UpTo
    <2>3. ASSUME NEW w \in Wids, r = <<w, wid'[i][w].seq>> PROVE UpTo(i, data[i][k])'
      BY <1>0, <2>1, <2>3 DEF UpTo, Seqno
    <2>. QED  BY <2>1, <2>2, <2>3, Zenon DEF ReplicaEffect
  <1>2. ASSUME NEW i \in Pos, NEW o \in Ops, NEW a \in Ops, OpUpTo(i, a),
               App(o) => App(a) /\ o.w = a.w /\ o.seq = a.seq
        PROVE  OpUpTo(i, o)'
    <2>1. CASE ~App(o)
      BY <2>1 DEF OpUpTo
    <2>2. CASE App(o)
      <3>1. a.w \in Wids /\ a.seq \in Nat
        BY <1>2, <2>2, ChainAssumption DEF Ops, OpT, App
      <3>2. a.seq <= Seqno(i, a.w)
        BY <1>2, <2>2, Zenon DEF OpUpTo
      <3>3. o.seq <= Seqno(i, a.w)'
        BY <1>0, <1>2, <2>2, <3>1, <3>2
      <3>. QED  BY <1>2, <2>2, <3>3 DEF OpUpTo
    <2>. QED  BY <2>1, <2>2
  <1>3. ASSUME NEW i \in Pos, NEW k \in 1 .. Len(pend'[i]), pend'[i][k].ok
        PROVE  OpUpTo(i, pend[i][k].op)'
    <2>1. PICK o : o = pend'[i][k].op
      BY Zenon
    <2>2. o \in Ops
      <3>1. pend'[i] \in Seq(Statuses)
        BY PositionTypes, NextTypes, Zenon
      <3>. QED  BY <2>1, <3>1, OpOffsets, Zenon
    <2>3. CASE ~App(o)
      BY <2>1, <2>3 DEF OpUpTo
    <2>4. ASSUME NEW l \in 1 .. Len(pend[i]), pend[i][l] = pend'[i][k] PROVE OpUpTo(i, o)'
      <3>1. OpUpTo(i, o)
        BY <1>3, <2>1, <2>4, Zenon DEF Accepted
      <3>. QED  BY <1>2, <2>2, <3>1, Zenon
    <2>5. CASE App(o) /\ o.seq = wid'[i][o.w].seq
      <3>1. o.w \in Wids
        BY <2>2, <2>5 DEF Ops, App
      <3>. QED  BY <1>0, <2>1, <2>5, <3>1 DEF OpUpTo, Seqno
    <2>6. OpUpTo(i, o)' => OpUpTo(i, pend[i][k].op)'
      BY <2>1 DEF OpUpTo
    <2>. QED  BY <1>3, <2>1, <2>3, <2>4, <2>5, <2>6, Zenon DEF QueueEffect
  <1>4. ASSUME NEW i \in Pos, NEW k \in 1 .. Len(link'[i])
        PROVE  OpUpTo(i, link[i][k])'
    <2>1. PICK o : o = link'[i][k]
      BY Zenon
    <2>2. o \in Ops /\ link[i] \in Seq(Ops) /\ pend[i] \in Seq(Statuses)
      <3>1. link'[i] \in Seq(Ops) /\ link[i] \in Seq(Ops) /\ pend[i] \in Seq(Statuses)
        BY PositionTypes, NextTypes, Zenon
      <3>. QED  BY <2>1, <3>1, OpOffsets, Zenon
    <2>3. OpUpTo(i, o)' => OpUpTo(i, link[i][k])'
      BY <2>1 DEF OpUpTo
    <2>4. CASE ~App(o)
      BY <2>3, <2>4 DEF OpUpTo
    <2>5. CASE Has(link[i], o)
      <3>1. OpUpTo(i, o)
        BY <2>5, Zenon DEF Accepted, Has
      <3>. QED  BY <1>2, <2>2, <2>3, <3>1, Zenon
    <2>6. ASSUME NEW l \in 1 .. Len(pend[i]), pend[i][l].ok, Stamped(i, o, pend[i][l])
          PROVE  OpUpTo(i, o)'
      <3>1. pend[i][l].op \in Ops
        BY <2>2, OpOffsets, Zenon
      <3>2. OpUpTo(i, pend[i][l].op)
        BY <2>6, Zenon DEF Accepted
      <3>3. App(o) => App(pend[i][l].op) /\ o.w = pend[i][l].op.w /\ o.seq = pend[i][l].op.seq
        BY <2>6, Zenon DEF Stamped, App
      <3>. QED  BY <1>2, <2>2, <3>1, <3>2, <3>3, Zenon
    <2>. QED  BY <2>1, <2>3, <2>4, <2>5, <2>6, Zenon DEF QueueEffect
  <1>5. ASSUME NEW i \in Pos, NEW j \in Pos, NEW w \in Wids, i <= j
        PROVE  Seqno(j, w)' <= Seqno(i, w)'
    <2>1. CASE i = j
      BY <1>0, <2>1
    <2>2. ASSUME i # j, Accepts(j, w) PROVE Seqno(j, w)' <= Seqno(i, w)'
      <3>1. PICK m \in Ops : /\ App(m) /\ m.w = w /\ j - 1 \in Pos /\ Has(link[j - 1], m)
                             /\ Seqno(j, w)' = m.seq
        BY <2>2, Zenon DEF Accepts, Seqno
      <3>2. m.seq <= Seqno(j - 1, w)
        BY <3>1, Zenon DEF Accepted, Has, OpUpTo
      <3>3. i <= j - 1
        BY <1>5, <2>2 DEF Pos
      <3>4. Seqno(j - 1, w) <= Seqno(i, w)
        BY <3>1, <3>3, Zenon DEF Accepted
      <3>5. m.seq \in Nat
        BY ChainAssumption DEF Ops, OpT
      <3>. QED  BY <1>0, <3>1, <3>2, <3>4, <3>5
    <2>3. CASE Seqno(j, w)' = Seqno(j, w)
      <3>1. Seqno(j, w) <= Seqno(i, w)
        BY <1>5, Zenon DEF Accepted
      <3>. QED  BY <1>0, <2>3, <3>1
    <2>. QED  BY <2>1, <2>2, <2>3, Zenon DEF WidEffect, WidStep
  <1>. QED  BY <1>1, <1>3, <1>4, <1>5, Zenon DEF Accepted

\* A position has accepted what it commits.
LEMMA CommittedKept ==
    ASSUME TypeInv, TypeInv', NotedEnds, SeqOrder, SeqOrder', ChainInv', CommittedSeq, Accepted',
           DataEffect, WidEffect, ReplicaEffect, \A k, r : Hist(k, r)' => Hist(k, r)
    PROVE  CommittedSeq'
  <1>1. ASSUME NEW i \in Pos, NEW k, NEW r, Hist(k, r)', k <= commit'[i]
        PROVE  UpTo(i, r)'
    <2>1. Hist(k, r)
      BY <1>1, Zenon
    <2>2. k \in Nat /\ k > 0 /\ r \in Record
      BY <2>1, HistTypes, Zenon
    <2>3. CASE commit'[i] = commit[i]
      <3>1. UpTo(i, r)
        BY <1>1, <2>1, <2>3, Zenon DEF CommittedSeq
      <3>. QED  BY <2>2, <3>1, UpToGrows, Zenon
    <2>4. CASE commit'[i] # commit[i]
      <3>1. commit'[i] <= Len(data'[i])
        BY <2>4, Zenon DEF ReplicaEffect, ChainInv, Commits
      <3>2. k \in 1 .. Len(data'[i])
        BY <1>1, <2>2, <3>1, NextTypes
      <3>3. At(k, data[i][k])'
        BY <3>2, Zenon DEF At, In
      <3>4. data'[i][k] = r
        BY <1>1, <3>3, Zenon DEF SeqOrder, Hist
      <3>5. UpTo(i, data[i][k])'
        BY <3>2, Zenon DEF Accepted
      <3>. QED  BY <3>4, <3>5 DEF UpTo
    <2>. QED  BY <2>3, <2>4
  <1>2. ASSUME Open(1)', NEW i \in Pos PROVE commit'[i] <= Len(data'[1])
    <2>1. Open(1) /\ data'[1] = data[1]
      BY <1>2, PosFacts, Zenon DEF DataEffect, Open
    <2>2. CASE commit'[i] = commit[i]
      BY <2>1, <2>2, Zenon DEF CommittedSeq
    <2>3. CASE commit'[i] # commit[i]
      <3>1. /\ commit'[i] <= Len(data'[i]) /\ commit'[i] \in Nat
            /\ Len(data'[i]) \in Nat /\ Len(data'[1]) \in Nat
        BY <2>3, PosFacts, NextTypes, Zenon DEF ReplicaEffect, ChainInv, Commits
      <3>2. CASE Len(data'[i]) = 0
        BY <3>1, <3>2
      <3>3. CASE Len(data'[i]) # 0
        <4>1. PICK k : k = Len(data'[i]) /\ k \in 1 .. Len(data'[i])
          BY <3>1, <3>3
        <4>2. At(k, data[i][k])'
          BY <4>1, Zenon DEF At, In
        <4>3. k <= Len(data'[1])
          BY <1>2, <4>2, Zenon DEF SeqOrder, Hist
        <4>. QED  BY <3>1, <4>1, <4>3
      <3>. QED  BY <3>2, <3>3
    <2>. QED  BY <2>2, <2>3
  <1>. QED  BY <1>1, <1>2, Zenon DEF CommittedSeq

\* Everybody has accepted what somebody has committed.
LEMMA CommittedByOne ==
    ASSUME TypeInv, ChainInv, Accepted, CommittedSeq, NEW s, Committed(s),
           NEW i \in Pos, NEW k \in 1 .. Len(s)
    PROVE  s[k] \in Record /\ UpTo(i, s[k])
  <1>1. PICK j \in Pos : Len(s) <= commit[j] /\ In(data[j], k, s[k])
    BY Zenon DEF Committed
  <1>2. PICK r : r = s[k]
    BY Zenon
  <1>3. k \in 1 .. Len(data[j]) /\ data[j][k] = r /\ data[j] \in Seq(Record)
    BY <1>1, <1>2, PositionTypes, Zenon DEF In
  <1>4. r \in Record /\ k \in Nat /\ r[1] \in Wids /\ r[2] \in Nat
    <2>1. r \in Record /\ k \in Nat
      BY <1>3
    <2>. QED  BY <2>1, RecordParts, Zenon
  <1>5. CASE j <= i
    <2>1. commit[j] <= commit[i] /\ commit[j] \in Nat /\ commit[i] \in Nat
      BY <1>5, PositionTypes, Zenon DEF ChainInv, Commits
    <2>2. k <= commit[i]
      <3>1. k \in 1 .. Len(s) /\ Len(s) <= commit[j] => k <= commit[i]
        BY <2>1
      <3>. QED  BY <1>1, <3>1, Zenon
    <2>3. Hist(k, r)
      BY <1>3, Zenon DEF Hist, At, In
    <2>. QED  BY <1>2, <1>4, <2>2, <2>3, Zenon DEF CommittedSeq
  <1>6. CASE ~(j <= i)
    <2>1. i <= j
      BY <1>6 DEF Pos
    <2>2. UpTo(j, r) /\ Seqno(j, r[1]) <= Seqno(i, r[1])
      BY <1>3, <1>4, <2>1, Zenon DEF Accepted
    <2>3. Seqno(j, r[1]) \in Nat /\ Seqno(i, r[1]) \in Nat
      BY <1>4, WidTypes, Zenon
    <2>4. UpTo(i, r)
      BY <1>4, <2>2, <2>3 DEF UpTo
    <2>. QED  BY <1>2, <1>4, <2>4, Zenon
  <1>. QED  BY <1>5, <1>6

\* So a variant has no record that somebody has not accepted.
LEMMA VariantKept ==
    ASSUME TypeInv, TypeInv', ChainInv, NotedEnds, SeqOrder, Accepted, CommittedSeq, VariantSeq,
           WidEffect, VariantEffect
    PROVE  VariantSeq'
  <1>1. ASSUME NEW s \in Seq(Record), NEW i \in Pos, NEW k \in 1 .. Len(s), UpTo(i, s[k])
        PROVE  UpTo(i, s[k])'
    <2>1. s[k] \in Record
      OBVIOUS
    <2>. QED  BY <1>1, <2>1, UpToGrows, Zenon
  <1>2. /\ relinq # NoData => relinq \in Seq(Record)
        /\ decision # NoData => decision \in Seq(Record)
    BY DEF TypeInv, MetaType
  <1>3. ASSUME NEW s, NEW i \in Pos, NEW k \in 1 .. Len(s),
               \/ s = relinq /\ relinq # NoData
               \/ s = decision /\ decision # NoData
               \/ Committed(s)
        PROVE  UpTo(i, s[k])'
    <2>1. CASE s = relinq /\ relinq # NoData
      BY <1>1, <1>2, <2>1, Zenon DEF VariantSeq
    <2>2. CASE s = decision /\ decision # NoData
      BY <1>1, <1>2, <2>2, Zenon DEF VariantSeq
    <2>3. CASE Committed(s)
      <3>1. PICK r : r = s[k]
        BY Zenon
      <3>2. r \in Record /\ UpTo(i, r)
        BY <2>3, <3>1, CommittedByOne, Zenon
      <3>3. UpTo(i, r)'
        BY <3>2, UpToGrows, Zenon
      <3>. QED  BY <3>1, <3>3 DEF UpTo
    <2>. QED  BY <1>3, <2>1, <2>2, <2>3
  <1>4. ASSUME NEW i \in Pos, relinq' # NoData, NEW k \in 1 .. Len(relinq')
        PROVE  UpTo(i, relinq[k])'
    <2>1. PICK s : s = relinq'
      BY Zenon
    <2>2. \/ s = relinq /\ relinq # NoData
          \/ Committed(s)
      <3>1. relinq' = relinq \/ Committed(relinq')
        BY <1>4 DEF VariantEffect
      <3>2. CASE relinq' = relinq
        BY <1>4, <2>1, <3>2
      <3>3. CASE Committed(relinq')
        BY <2>1, <3>3, Zenon
      <3>. QED  BY <3>1, <3>2, <3>3
    <2>3. k \in 1 .. Len(s)
      BY <1>4, <2>1, Zenon
    <2>4. UpTo(i, s[k])'
      BY <1>3, <2>2, <2>3, Zenon
    <2>. QED  BY <2>1, <2>4 DEF UpTo
  <1>5. ASSUME NEW i \in Pos, decision' # NoData, NEW k \in 1 .. Len(decision')
        PROVE  UpTo(i, decision[k])'
    <2>1. PICK s : s = decision'
      BY Zenon
    <2>2. \/ s = relinq /\ relinq # NoData
          \/ s = decision /\ decision # NoData
          \/ Committed(s)
      <3>1. CASE decision' = decision
        BY <1>5, <2>1, <3>1
      <3>2. CASE relinq # NoData /\ decision' = relinq
        BY <2>1, <3>2
      <3>3. CASE Committed(decision')
        BY <2>1, <3>3, Zenon
      <3>. QED  BY <3>1, <3>2, <3>3, Zenon DEF VariantEffect
    <2>3. k \in 1 .. Len(s)
      BY <1>5, <2>1, Zenon
    <2>4. UpTo(i, s[k])'
      BY <1>3, <2>2, <2>3, Zenon
    <2>. QED  BY <2>1, <2>4 DEF UpTo
  <1>. QED  BY <1>4, <1>5, Zenon DEF VariantSeq

\* What a slave hears is what the master has committed.
LEMMA MasterCommitsKept ==
    ASSUME TypeInv, TypeInv', CommitEffect, QueueEffect
    PROVE  MasterCommits'
  <1>1. commit[1] \in Nat /\ commit'[1] \in Nat /\ commit[1] <= commit'[1]
    BY PosFacts, PositionTypes, NextTypes, Zenon DEF CommitEffect
  <1>2. \A x \in Int : x <= commit[1] => x <= commit'[1]
    BY <1>1
  <1>3. \A i \in Pos : mcommit'[i] \in Int
    BY DEF TypeInv, ClientType
  <1>4. \A o \in Ops : o.mc \in Int
    BY DEF Ops, OpT
  <1>5. \A i \in Pos : /\ \A k \in 1 .. Len(pend'[i]) : pend'[i][k].op \in Ops
                       /\ \A k \in 1 .. Len(link'[i]) : link'[i][k] \in Ops
    BY NextTypes, OpOffsets, Zenon
  <1>6. \A i \in Pos : /\ mcommit'[i] <= commit'[1]
                       /\ \A k \in 1 .. Len(pend'[i]) : pend'[i][k].op.mc <= commit'[1]
                       /\ \A k \in 1 .. Len(link'[i]) : link'[i][k].mc <= commit'[1]
    BY <1>2, <1>3, <1>4, <1>5, Zenon DEF QueueEffect
  <1>. QED  BY <1>6, Zenon DEF MasterCommits

\* What the master reports is the last append of its write id.
LEMMA ReportsLast ==
    ASSUME TypeInv, NotedEnds, SeqOrder, OneAtATime, AckedHeld', DataEffect,
           NEW w \in Wids, NEW k, NEW n, At(k, <<w, n>>), k > commit[1], <<w, n>> \in acked'
    PROVE  n = Seqno(1, w) /\ k <= commit'[1]
  <1>1. Hist(k, <<w, n>>)
    BY Zenon DEF Hist
  <1>2. k \in Nat /\ n \in Nat /\ Seqno(1, w) \in Nat /\ commit[1] \in Nat
    <2>1. k \in Nat /\ n \in Nat
      BY <1>1, HistTypes, RecordParts, Zenon
    <2>. QED  BY <2>1, PosFacts, WidTypes, PositionTypes, Zenon
  <1>3. n <= Seqno(1, w) /\ ~(n < Seqno(1, w))
    <2>1. ~(k <= commit[1])
      BY <1>2
    <2>. QED  BY <1>1, <2>1, Zenon DEF SeqOrder, OneAtATime
  <1>4. PICK l \in 1 .. commit'[1] : In(data'[1], l, <<w, n>>)
    BY Zenon DEF AckedHeld
  <1>5. At(l, <<w, n>>)
    BY <1>4, PosFacts, Zenon DEF DataEffect, AllIn, In
  <1>6. l = k
    BY <1>1, <1>5, OneOffset, Zenon DEF Hist
  <1>7. l <= commit'[1]
    BY <1>4
  <1>. QED  BY <1>2, <1>3, <1>6, <1>7

\* The master has one append at a time in progress with a write id.
LEMMA OneAtATimeKept ==
    ASSUME TypeInv, TypeInv', NotedEnds, SeqOrder, OneAtATime, AckedHeld', DataEffect, CommitEffect,
           WidEffect, \A k, r : Hist(k, r)' => Hist(k, r)
    PROVE  OneAtATime'
  <1>. SUFFICES ASSUME NEW w \in Wids, NEW k, NEW n, Hist(k, <<w, n>>)'
                PROVE  /\ n < Seqno(1, w)' => k <= commit'[1]
                       /\ Open(1)' /\ wid'[1][w].status = "ok" => k <= commit'[1]
    BY Zenon DEF OneAtATime
  <1>1. Hist(k, <<w, n>>)
    OBVIOUS
  <1>2. /\ k \in Nat /\ n \in Nat /\ Seqno(1, w) \in Nat /\ commit[1] \in Nat /\ commit'[1] \in Nat
        /\ commit[1] <= commit'[1] /\ Seqno(1, w)' = Seqno(1, w)
    <2>1. k \in Nat /\ n \in Nat
      BY <1>1, HistTypes, RecordParts, Zenon
    <2>. QED  BY <2>1, PosFacts, WidTypes, PositionTypes, NextTypes, SeqGrows, Zenon DEF CommitEffect
  <1>3. k <= commit[1] => k <= commit'[1]
    BY <1>2
  <1>4. ASSUME n < Seqno(1, w) PROVE k <= commit'[1]
    BY <1>1, <1>3, <1>4, Zenon DEF OneAtATime
  <1>5. ASSUME Open(1)', wid'[1][w].status = "ok" PROVE k <= commit'[1]
    <2>1. Open(1) /\ st[1] # "stable"
      <3>1. Open(1)
        BY <1>5, PosFacts, Zenon DEF DataEffect, Open
      <3>. QED  BY <3>1 DEF Open
    <2>2. ~(1 > 1) /\ wid'[1][w].status # "erased" /\ wid'[1][w].status # "bad"
      BY <1>5
    <2>3. \/ wid[1][w].status = "ok"
          \/ \E l, m : At(l, <<w, m>>) /\ l > commit[1] /\ <<w, m>> \in acked'
      <3>1. \/ wid'[1][w].status \in {wid[1][w].status, "erased"}
            \/ Succeeds(1, w)
        BY <2>2, PosFacts, Zenon DEF WidEffect, WidStep, Accepts
      <3>. QED  BY <1>5, <2>1, <2>2, <3>1, Zenon DEF Succeeds
    <2>4. CASE wid[1][w].status = "ok"
      BY <1>1, <1>3, <2>1, <2>4, Zenon DEF OneAtATime
    <2>5. ASSUME NEW l, NEW m, At(l, <<w, m>>), l > commit[1], <<w, m>> \in acked'
          PROVE  k <= commit'[1]
      <3>1. m = Seqno(1, w) /\ l <= commit'[1]
        BY <2>5, ReportsLast, Zenon
      <3>2. n <= Seqno(1, w)
        BY <1>1, Zenon DEF SeqOrder
      <3>3. n < Seqno(1, w) \/ n = m
        BY <1>2, <3>1, <3>2
      <3>4. CASE n = m
        <4>1. k = l
          BY <1>1, <2>5, <3>4, OneOffset, Zenon DEF Hist
        <4>. QED  BY <3>1, <4>1
      <3>. QED  BY <1>4, <3>3, <3>4
    <2>. QED  BY <2>3, <2>4, <2>5, Zenon
  <1>. QED  BY <1>2, <1>4, <1>5

\* What will be decided stays so.
LEMMA HeldKept ==
    ASSUME TypeInv, TypeInv', DataEffect, CommitEffect, VariantEffect, NEW r
    PROVE  /\ Held(r) => Held(r)'
           /\ Refused(r) => Refused(r)'
  <1>1. \A k \in 1 .. commit[1] : k \in 1 .. commit'[1]
    <2>1. commit[1] \in Nat /\ commit'[1] \in Nat /\ commit[1] <= commit'[1]
      BY PosFacts, PositionTypes, NextTypes, Zenon DEF CommitEffect
    <2>. QED  BY <2>1
  <1>2. ASSUME NEW k \in 1 .. commit[1], In(data[1], k, r) PROVE Held(r)'
    <2>1. In(data'[1], k, r)
      BY <1>2, Zenon DEF DataEffect, In
    <2>. QED  BY <1>1, <2>1, Zenon DEF Held
  <1>3. ASSUME phase = "decided" PROVE phase' = "decided" /\ decision' = decision
    BY <1>3, Zenon DEF VariantEffect
  <1>4. ASSUME phase = "decided" PROVE Chosen(r)' <=> Chosen(r)
    BY <1>3, <1>4, Zenon DEF Chosen
  <1>. QED  BY <1>2, <1>3, <1>4, Zenon DEF Held, Refused

\* An append noted at an offset that a replica reaches is there.
LEMMA NotedIsThere ==
    ASSUME TypeInv, NotedEnds, SeqOrder, NEW i \in Pos, NEW w \in Wids, Seqno(i, w) > 0,
           NEW j \in Pos, wid[i][w].end <= Len(data[j])
    PROVE  wid[i][w].end \in 1 .. Len(data[j]) /\ In(data[j], wid[i][w].end, <<w, Seqno(i, w)>>)
  <1>1. wid[i][w].end \in Nat /\ wid[i][w].end > 0 /\ Len(data[j]) \in Nat
    BY WidTypes, PositionTypes, Zenon DEF NotedEnds
  <1>2. PICK e : e = wid[i][w].end
    BY Zenon
  <1>3. e \in 1 .. Len(data[j])
    BY <1>1, <1>2
  <1>4. Hist(e, <<w, Seqno(i, w)>>) /\ Hist(e, data[j][e])
    BY <1>2, <1>3, Zenon DEF Hist, Noted, At, In
  <1>5. data[j][e] = <<w, Seqno(i, w)>>
    BY <1>4, Zenon DEF SeqOrder
  <1>. QED  BY <1>2, <1>3, <1>5, Zenon DEF In

\* The status of a write id stays right.
LEMMA StatusKept ==
    ASSUME TypeInv, TypeInv', ChainInv, StableIsChosen, NotedEnds, SeqOrder, OneAtATime, StatusHeld,
           AckedHeld', DataEffect, CommitEffect, VariantEffect, WidEffect
    PROVE  StatusHeld'
  <1>. SUFFICES ASSUME NEW i \in Pos, NEW w \in Wids
                PROVE  /\ wid'[i][w].status = "ok" /\ Seqno(i, w)' > 0 => Held(<<w, Seqno(i, w)>>)'
                       /\ wid'[i][w].status = "bad" => Refused(<<w, Seqno(i, w)>>)'
    BY Zenon DEF StatusHeld
  <1>1. CASE Accepts(i, w)
    <2>1. wid'[i][w].status = "busy"
      BY <1>1, Zenon DEF Accepts
    <2>. QED  BY <2>1
  <1>2. CASE ~Accepts(i, w)
    <2>. DEFINE r == <<w, Seqno(i, w)>>
    <2>1. /\ Seqno(i, w)' = Seqno(i, w)
          /\ \/ wid'[i][w].status \in {wid[i][w].status, "erased"}
             \/ wid'[i][w].status = "ok" /\ Succeeds(i, w)
             \/ wid'[i][w].status = "bad" /\ st[i] = "stable" /\ wid[i][w].end > Len(data[i])
      BY <1>2, Zenon DEF WidEffect, WidStep
    <2>2. PICK n \in Nat : n = Seqno(i, w) /\ n = Seqno(i, w)'
      BY <2>1, WidTypes, Zenon
    <2>3. /\ Held(<<w, n>>)' => Held(<<w, Seqno(i, w)>>)'
          /\ Refused(<<w, n>>)' => Refused(<<w, Seqno(i, w)>>)'
      BY <2>2
    <2>4. ASSUME wid'[i][w].status = "ok", n > 0 PROVE Held(<<w, n>>)'
      <3>0. wid'[i][w].status # "erased" /\ wid'[i][w].status # "bad"
        BY <2>4
      <3>1. CASE wid[i][w].status = "ok"
        BY <2>2, <2>4, <3>1, HeldKept, Zenon DEF StatusHeld
      <3>2. ASSUME wid[i][w].end <= commit[1] PROVE Held(<<w, n>>)'
        <4>1. commit[1] <= Len(data[1]) /\ commit[1] \in Nat /\ Len(data[1]) \in Nat
          BY PosFacts, PositionTypes, Zenon DEF ChainInv, Commits
        <4>2. wid[i][w].end <= Len(data[1]) /\ wid[i][w].end \in Nat
          <5>1. wid[i][w].end \in Nat
            BY WidTypes, Zenon
          <5>. QED  BY <3>2, <4>1, <5>1
        <4>3. /\ wid[i][w].end \in 1 .. Len(data[1])
              /\ In(data[1], wid[i][w].end, <<w, n>>)
          BY <2>2, <2>4, <4>2, PosFacts, NotedIsThere, Zenon
        <4>4. wid[i][w].end \in 1 .. commit[1]
          BY <3>2, <4>1, <4>3
        <4>. QED  BY <4>3, <4>4, HeldKept, Zenon DEF Held
      <3>3. ASSUME st[i] = "stable", wid[i][w].end <= Len(data[i]) PROVE Held(<<w, n>>)'
        <4>1. In(data[i], wid[i][w].end, <<w, n>>)
          BY <2>2, <2>4, <3>3, NotedIsThere, Zenon
        <4>2. phase = "decided" /\ data[i] = decision /\ data[i] \in Seq(Record)
          BY <3>3, PositionTypes, Zenon DEF StableIsChosen
        <4>3. DOMAIN decision = 1 .. Len(decision)
          BY <4>2
        <4>4. Chosen(<<w, n>>)
          BY <4>1, <4>2, <4>3, Zenon DEF Chosen, In
        <4>. QED  BY <4>2, <4>4, HeldKept, Zenon DEF Held
      <3>4. ASSUME i = 1, NEW k, NEW m, At(k, <<w, m>>), k > commit[1], <<w, m>> \in acked'
            PROVE  Held(<<w, n>>)'
        <4>1. m = n
          BY <2>2, <3>4, ReportsLast, Zenon
        <4>2. \E l \in 1 .. commit'[1] : In(data'[1], l, <<w, n>>)
          BY <3>4, <4>1, Zenon DEF AckedHeld
        <4>. QED  BY <4>2, Zenon DEF Held
      <3>5. wid[i][w].status = "ok" \/ Succeeds(i, w)
        BY <2>1, <2>4, <3>0
      <3>. QED  BY <3>1, <3>2, <3>3, <3>4, <3>5, Zenon DEF Succeeds
    <2>5. ASSUME wid'[i][w].status = "bad" PROVE Refused(<<w, n>>)'
      <3>1. CASE wid[i][w].status = "bad"
        BY <2>2, <3>1, HeldKept, Zenon DEF StatusHeld
      <3>2. ASSUME st[i] = "stable", wid[i][w].end > Len(data[i]) PROVE Refused(<<w, n>>)'
        <4>1. phase = "decided" /\ data[i] = decision /\ data[i] \in Seq(Record)
          BY <3>2, PositionTypes, Zenon DEF StableIsChosen
        <4>2. DOMAIN decision = 1 .. Len(decision) /\ Len(data[i]) \in Nat
          BY <4>1
        <4>3. ASSUME Chosen(<<w, n>>) PROVE FALSE
          <5>1. PICK k \in 1 .. Len(data[i]) : data[i][k] = <<w, n>>
            BY <4>1, <4>2, <4>3, Zenon DEF Chosen
          <5>2. Hist(k, <<w, n>>)
            BY <5>1, Zenon DEF Hist, At, In
          <5>3. n > 0
            BY <5>2, HistTypes, RecordParts, Zenon
          <5>4. Hist(wid[i][w].end, <<w, n>>)
            BY <2>2, <5>3, Zenon DEF Hist, Noted
          <5>5. k = wid[i][w].end
            BY <5>2, <5>4, OneOffset, Zenon
          <5>6. wid[i][w].end \in Nat
            BY WidTypes, Zenon
          <5>. QED  BY <3>2, <4>2, <5>1, <5>5, <5>6
        <4>. QED  BY <4>1, <4>3, HeldKept, Zenon DEF Refused
      <3>3. wid'[i][w].status # "erased" /\ wid'[i][w].status # "ok"
        BY <2>5
      <3>. QED  BY <2>1, <2>5, <3>1, <3>2, <3>3
    <2>. QED  BY <2>2, <2>3, <2>4, <2>5, Zenon
  <1>. QED  BY <1>1, <1>2

\* So do the answers given.
LEMMA ToldKept ==
    ASSUME TypeInv, TypeInv', StatusHeld', ToldHeld, DataEffect, CommitEffect, VariantEffect,
           WidEffect, ToldEffect
    PROVE  ToldHeld'
  <1>. SUFFICES ASSUME NEW t \in told'
                PROVE  /\ t.status = "ok" /\ t.seq > 0 => Held(<<t.w, t.seq>>)'
                       /\ t.status = "bad" => Refused(<<t.w, t.seq>>)'
                       /\ \E i \in Pos : wid'[i][t.w].ro /\ Seqno(i, t.w)' = t.seq
    BY Zenon DEF ToldHeld
  <1>1. t.w \in Wids
    BY DEF TypeInv, ClientType
  <1>2. CASE t \in told
    <2>1. PICK i \in Pos : wid[i][t.w].ro /\ Seqno(i, t.w) = t.seq
      BY <1>2, Zenon DEF ToldHeld
    <2>2. wid'[i][t.w].ro /\ Seqno(i, t.w)' = t.seq
      BY <1>1, <2>1, Zenon DEF WidEffect, WidStep, Accepts
    <2>. QED  BY <1>2, <2>2, HeldKept, Zenon DEF ToldHeld
  <1>3. ASSUME NEW i \in Pos, wid'[i][t.w].ro, wid'[i][t.w].seq = t.seq, wid'[i][t.w].status = t.status
        PROVE  /\ t.status = "ok" /\ t.seq > 0 => Held(<<t.w, t.seq>>)'
               /\ t.status = "bad" => Refused(<<t.w, t.seq>>)'
               /\ \E j \in Pos : wid'[j][t.w].ro /\ Seqno(j, t.w)' = t.seq
    <2>1. Seqno(i, t.w)' = t.seq
      BY <1>3 DEF Seqno
    <2>2. /\ wid'[i][t.w].status = "ok" /\ Seqno(i, t.w)' > 0 => Held(<<t.w, Seqno(i, t.w)>>)'
          /\ wid'[i][t.w].status = "bad" => Refused(<<t.w, Seqno(i, t.w)>>)'
      BY <1>1, Zenon DEF StatusHeld
    <2>3. /\ Held(<<t.w, Seqno(i, t.w)>>)' => Held(<<t.w, t.seq>>)'
          /\ Refused(<<t.w, Seqno(i, t.w)>>)' => Refused(<<t.w, t.seq>>)'
      BY <2>1
    <2>. QED  BY <1>3, <2>1, <2>2, <2>3
  <1>. QED  BY <1>2, <1>3, Zenon DEF ToldEffect

-----------------------------------------------------------------------------
(* A client's append.                                                      *)

\* What it adds to the history.
LEMMA NewHist ==
    ASSUME TypeInv, NEW a \in Wids, ClientAppend(a), NEW k, NEW r, Hist(k, r)'
    PROVE  Hist(k, r) \/ (k = Len(data[1]) + 1 /\ r = <<a, Seqno(1, a) + 1>>)
  <1>0. PICK L, n, x : L = Len(data[1]) /\ n = wid[1][a].seq + 1 /\ x = <<a, n>>
    BY Zenon
  <1>1. x = <<a, Seqno(1, a) + 1>>
    BY <1>0, Zenon DEF Seqno
  <1>2. \A l, s : At(l, s)' => At(l, s) \/ (l = L + 1 /\ s = x)
    BY <1>0, NewRecord, Zenon
  <1>3. /\ wid'[1][a].seq = n /\ wid'[1][a].end = L + 1
        /\ \A i \in Pos, w \in Wids : i # 1 \/ w # a => wid'[i][w] = wid[i][w]
    <2>1. wid' = [wid EXCEPT ![1][a] = [wid[1][a] EXCEPT !.status = "busy", !.seq = n, !.end = L + 1]]
      BY <1>0, Zenon DEF ClientAppend
    <2>2. wid \in [Pos -> [Wids -> WidInfo]] /\ 1 \in Pos /\ wid[1][a] \in WidInfo
      BY PosFacts DEF TypeInv, ClientType
    <2>3. \A i \in Pos, w \in Wids : i # 1 \/ w # a => wid'[i][w] = wid[i][w]
      BY <2>1, <2>2
    <2>4. wid'[1][a] = [wid[1][a] EXCEPT !.status = "busy", !.seq = n, !.end = L + 1]
      BY <2>1, <2>2
    <2>5. wid'[1][a].seq = n /\ wid'[1][a].end = L + 1
      BY <2>2, <2>4 DEF WidInfo
    <2>. QED  BY <2>3, <2>5, Zenon
  <1>4. CASE At(k, r)'
    BY <1>0, <1>1, <1>2, <1>4, Zenon DEF Hist
  <1>5. CASE Noted(k, r)'
    <2>1. PICK i \in Pos, w \in Wids :
             Seqno(i, w)' > 0 /\ k = wid'[i][w].end /\ r = <<w, Seqno(i, w)'>>
      BY <1>5, Zenon DEF Noted
    <2>2. CASE i = 1 /\ w = a
      BY <1>0, <1>1, <1>3, <2>1, <2>2, Zenon DEF Seqno
    <2>3. CASE i # 1 \/ w # a
      BY <1>3, <2>1, <2>3, Zenon DEF Hist, Noted, Seqno
    <2>. QED  BY <2>2, <2>3
  <1>. QED  BY <1>4, <1>5, Zenon DEF Hist

\* It keeps everything: its record is the last one of its write id.
LEMMA ClientAppendInquiry ==
    ASSUME TypeInv, TypeInv', ChainInv, NotedEnds, SeqOrder, Accepted, CommittedSeq, VariantSeq,
           MasterCommits, OneAtATime, StatusHeld, ToldHeld, NEW a \in Wids, ClientAppend(a)
    PROVE  /\ NotedEnds' /\ SeqOrder' /\ Accepted' /\ CommittedSeq' /\ VariantSeq'
           /\ MasterCommits' /\ OneAtATime' /\ StatusHeld' /\ ToldHeld'
  <1>0. PICK L, n, x, o : /\ L = Len(data[1]) /\ n = wid[1][a].seq + 1 /\ x = <<a, n>>
                         /\ o = AppendOp("append", a, n)
    BY Zenon
  <1>1. /\ Open(1) /\ L \in Nat /\ x \in Record /\ o \in Ops
        /\ UNCHANGED <<st, commit, flight, link, acked, relinq, phase, decision>>
        /\ Len(data'[1]) = L + 1 /\ data'[1][L + 1] = x
        /\ \A k \in 1 .. L : data'[1][k] = data[1][k]
        /\ \A k \in 1 .. Len(pend'[1]) : \/ k \in 1 .. Len(pend[1]) /\ pend'[1][k] = pend[1][k]
                                         \/ pend'[1][k].op = o
        /\ \A j \in Pos : j # 1 => data'[j] = data[j] /\ pend'[j] = pend[j]
        /\ \A k, r : At(k, r)' => At(k, r) \/ (k = L + 1 /\ r = x)
    BY <1>0, NewRecord, Zenon DEF metasrv, Open
  <1>2. /\ wid[1][a].status = "ok" /\ ~wid[1][a].ro /\ UNCHANGED <<mcommit, told>>
        /\ wid'[1][a].status = "busy" /\ wid'[1][a].seq = n /\ wid'[1][a].end = L + 1
        /\ \A i \in Pos, w \in Wids : i # 1 \/ w # a => wid'[i][w] = wid[i][w]
    <2>1. /\ wid[1][a].status = "ok" /\ ~wid[1][a].ro /\ UNCHANGED <<mcommit, told>>
          /\ wid' = [wid EXCEPT ![1][a] =
                        [wid[1][a] EXCEPT !.status = "busy", !.seq = n, !.end = L + 1]]
      BY <1>0, Zenon DEF ClientAppend
    <2>2. wid \in [Pos -> [Wids -> WidInfo]] /\ 1 \in Pos /\ wid[1][a] \in WidInfo
      BY PosFacts DEF TypeInv, ClientType
    <2>3. \A i \in Pos, w \in Wids : i # 1 \/ w # a => wid'[i][w] = wid[i][w]
      BY <2>1, <2>2
    <2>4. wid'[1][a] = [wid[1][a] EXCEPT !.status = "busy", !.seq = n, !.end = L + 1]
      BY <2>1, <2>2
    <2>5. wid'[1][a].status = "busy" /\ wid'[1][a].seq = n /\ wid'[1][a].end = L + 1
      BY <2>2, <2>4 DEF WidInfo
    <2>. QED  BY <2>1, <2>3, <2>5, Zenon
  <1>3. /\ o.kind = "append" /\ o.w = a /\ o.seq = n /\ o.mc = -1
        /\ Seqno(1, a)' = n /\ n = Seqno(1, a) + 1 /\ Seqno(1, a) \in Nat
        /\ \A i \in Pos, w \in Wids : i # 1 \/ w # a => Seqno(i, w)' = Seqno(i, w)
    <2>1. Seqno(1, a) \in Nat
      BY PosFacts, WidTypes, Zenon
    <2>2. o.kind = "append" /\ o.w = a /\ o.seq = n /\ o.mc = -1
      BY <1>0 DEF AppendOp
    <2>. QED  BY <1>0, <1>2, <2>1, <2>2 DEF Seqno
  <1>4. \A i \in Pos, w \in Wids :
           Seqno(i, w) \in Nat /\ Seqno(i, w)' \in Nat /\ Seqno(i, w) <= Seqno(i, w)'
    BY <1>3, WidTypes, NextTypes
  <1>5. ASSUME NEW i \in Pos, NEW r \in Record, UpTo(i, r) PROVE UpTo(i, r)'
    <2>1. r[1] \in Wids /\ r[2] \in Nat
      BY RecordParts, Zenon
    <2>. QED  BY <1>4, <1>5, <2>1 DEF UpTo
  <1>6. UpTo(1, x)' /\ x = <<a, n>>
    <2>1. x[1] = a /\ x[2] = n /\ n <= n /\ x = <<a, n>>
      BY <1>0, <1>3
    <2>. QED  BY <1>3, <2>1, Zenon DEF UpTo
  <1>7. ASSUME NEW k, NEW r, Hist(k, r)' PROVE Hist(k, r) \/ (k = L + 1 /\ r = x)
    BY <1>0, <1>7, NewHist, Zenon DEF Seqno
  <1>8. ASSUME NEW k, NEW r, Hist(k, r)
        PROVE  k \in Nat /\ k > 0 /\ k <= L /\ ~(L + 1 <= k) /\ k # L + 1 /\ r \in Record
    <2>1. k \in Nat /\ k > 0 /\ r \in Record /\ k <= L
      BY <1>0, <1>1, <1>8, HistTypes, Zenon DEF SeqOrder
    <2>. QED  BY <1>1, <2>1
  <1>9. SeqOrder'
    <2>1. ASSUME NEW k, NEW r, NEW s, Hist(k, r)', Hist(k, s)' PROVE r = s
      <3>1. (Hist(k, r) \/ (k = L + 1 /\ r = x)) /\ (Hist(k, s) \/ (k = L + 1 /\ s = x))
        BY <1>7, <2>1, Zenon
      <3>2. Hist(k, r) /\ Hist(k, s) => r = s
        BY Zenon DEF SeqOrder
      <3>. QED  BY <1>8, <3>1, <3>2, Zenon
    <2>2. ASSUME NEW w \in Wids, NEW k, NEW l, NEW m, NEW p,
                 Hist(k, <<w, m>>)', Hist(l, <<w, p>>)', k < l
          PROVE  m < p
      <3>1. /\ Hist(k, <<w, m>>) \/ (k = L + 1 /\ <<w, m>> = x)
            /\ Hist(l, <<w, p>>) \/ (l = L + 1 /\ <<w, p>> = x)
        BY <1>7, <2>2, Zenon
      <3>2. CASE Hist(k, <<w, m>>) /\ Hist(l, <<w, p>>)
        BY <2>2, <3>2, Increasing, Zenon
      <3>3. CASE Hist(k, <<w, m>>) /\ l = L + 1 /\ <<w, p>> = x
        <4>1. w = a /\ p = n
          BY <1>0, <3>3
        <4>2. m <= Seqno(1, a) /\ m \in Nat
          BY <3>3, <4>1, <1>8, RecordParts, Zenon DEF SeqOrder
        <4>. QED  BY <1>3, <4>1, <4>2
      <3>4. CASE k = L + 1
        <4>1. l = L + 1 \/ (l \in Nat /\ l <= L)
          BY <1>8, <3>1, Zenon
        <4>. QED  BY <1>1, <2>2, <3>4, <4>1
      <3>. QED  BY <3>1, <3>2, <3>3, <3>4, Zenon
    <2>3. ASSUME NEW k, NEW r, Hist(k, r)' PROVE k <= Len(data'[1])
      <3>1. L + 1 <= L + 1 /\ \A y \in Nat : y <= L => y <= L + 1
        BY <1>1
      <3>. QED  BY <1>1, <1>7, <1>8, <2>3, <3>1, Zenon
    <2>4. ASSUME NEW w \in Wids, NEW k, NEW m, Hist(k, <<w, m>>)' PROVE m <= Seqno(1, w)'
      <3>1. CASE Hist(k, <<w, m>>)
        <4>1. m <= Seqno(1, w) /\ m \in Nat
          BY <3>1, <1>8, RecordParts, Zenon DEF SeqOrder
        <4>. QED  BY <1>4, <4>1, PosFacts
      <3>2. CASE <<w, m>> = x
        BY <1>0, <1>3, <3>2
      <3>. QED  BY <1>7, <2>4, <3>1, <3>2, Zenon
    <2>. QED  BY <2>1, <2>2, <2>3, <2>4, Zenon DEF SeqOrder
  <1>10. NotedEnds'
    <2>1. ASSUME NEW i \in Pos, NEW w \in Wids
          PROVE  /\ Seqno(i, w)' > 0 => wid'[i][w].end > 0
                 /\ Open(i)' => wid'[i][w].end <= Len(data'[i])
      <3>1. CASE i = 1 /\ w = a
        BY <1>1, <1>2, <3>1
      <3>2. CASE i # 1 \/ w # a
        <4>1. /\ Seqno(i, w) > 0 => wid[i][w].end > 0
              /\ Open(i) => wid[i][w].end <= Len(data[i])
          BY Zenon DEF NotedEnds
        <4>2. wid'[i][w] = wid[i][w] /\ Seqno(i, w)' = Seqno(i, w) /\ st' = st
          BY <1>1, <1>2, <1>3, <3>2, Zenon
        <4>3. Open(i)' => Open(i)
          BY <4>2, Zenon DEF Open
        <4>4. Len(data[i]) \in Nat /\ wid[i][w].end \in Nat
          BY PositionTypes, WidTypes, Zenon
        <4>5. Len(data'[i]) = Len(data[i]) \/ Len(data'[i]) = Len(data[i]) + 1
          BY <1>0, <1>1, Zenon
        <4>6. wid[i][w].end <= Len(data[i]) => wid[i][w].end <= Len(data'[i])
          BY <4>4, <4>5
        <4>. QED  BY <4>1, <4>2, <4>3, <4>6, Zenon
      <3>. QED  BY <3>1, <3>2
    <2>. QED  BY <2>1, Zenon DEF NotedEnds
  <1>11. Accepted'
    <2>1. ASSUME NEW i \in Pos, NEW k \in 1 .. Len(data'[i]) PROVE UpTo(i, data[i][k])'
      <3>1. CASE k \in 1 .. Len(data[i]) /\ data'[i][k] = data[i][k]
        <4>1. data[i][k] \in Record
          BY <3>1, PositionTypes
        <4>2. UpTo(i, data[i][k])
          BY <3>1, Zenon DEF Accepted
        <4>3. PICK r : r = data[i][k] /\ r = data'[i][k]
          BY <3>1, Zenon
        <4>4. UpTo(i, r)'
          BY <1>5, <4>1, <4>2, <4>3, Zenon
        <4>. QED  BY <4>3, <4>4 DEF UpTo
      <3>2. CASE i = 1 /\ k = L + 1
        BY <1>0, <1>1, <1>6, <3>2 DEF UpTo
      <3>3. i = 1 => k \in 1 .. L \/ k = L + 1
        BY <1>1
      <3>. QED  BY <1>0, <1>1, <3>1, <3>2, <3>3, Zenon
    <2>2. ASSUME NEW i \in Pos, NEW y, OpUpTo(i, y), App(y) => y.w \in Wids /\ y.seq \in Nat
          PROVE  OpUpTo(i, y)'
      BY <1>4, <2>2 DEF OpUpTo, App
    <2>3. \A y \in Ops : App(y) => y.w \in Wids /\ y.seq \in Nat
      BY ChainAssumption DEF Ops, OpT, App
    <2>4. ASSUME NEW i \in Pos, NEW k \in 1 .. Len(pend'[i]), pend'[i][k].ok
          PROVE  OpUpTo(i, pend[i][k].op)'
      <3>1. CASE k \in 1 .. Len(pend[i]) /\ pend'[i][k] = pend[i][k]
        <4>1. pend[i][k].op \in Ops
          BY <3>1, PositionTypes, OpOffsets, Zenon
        <4>2. PICK y : y = pend[i][k].op /\ y = pend'[i][k].op
          BY <3>1, Zenon
        <4>3. OpUpTo(i, y)
          BY <2>4, <3>1, <4>2, Zenon DEF Accepted
        <4>4. OpUpTo(i, y)'
          BY <2>2, <2>3, <4>1, <4>2, <4>3, Zenon
        <4>. QED  BY <4>2, <4>4 DEF OpUpTo
      <3>2. CASE i = 1 /\ pend'[i][k].op = o
        <4>1. n <= n
          BY <1>3
        <4>. QED  BY <1>3, <3>2, <4>1, Zenon DEF OpUpTo
      <3>. QED  BY <1>1, <3>1, <3>2, Zenon
    <2>5. ASSUME NEW i \in Pos, NEW k \in 1 .. Len(link'[i]) PROVE OpUpTo(i, link[i][k])'
      <3>1. link' = link
        BY <1>1, Zenon
      <3>2. link[i][k] \in Ops
        BY <2>5, <3>1, PositionTypes
      <3>3. PICK y : y = link[i][k] /\ y = link'[i][k]
        BY <3>1, Zenon
      <3>4. OpUpTo(i, y)
        BY <2>5, <3>1, <3>3, Zenon DEF Accepted
      <3>5. OpUpTo(i, y)'
        BY <2>2, <2>3, <3>2, <3>3, <3>4, Zenon
      <3>. QED  BY <3>3, <3>5 DEF OpUpTo
    <2>6. ASSUME NEW i \in Pos, NEW j \in Pos, NEW w \in Wids, i <= j
          PROVE  Seqno(j, w)' <= Seqno(i, w)'
      <3>1. Seqno(j, w) <= Seqno(i, w)
        BY <2>6, Zenon DEF Accepted
      <3>2. CASE j = 1 /\ w = a
        <4>1. i = 1
          BY <2>6, <3>2 DEF Pos
        <4>. QED  BY <1>4, <3>2, <4>1
      <3>3. CASE j # 1 \/ w # a
        <4>1. Seqno(j, w)' = Seqno(j, w)
          BY <1>3, <3>3, Zenon
        <4>. QED  BY <1>4, <3>1, <4>1
      <3>. QED  BY <3>2, <3>3
    <2>. QED  BY <2>1, <2>4, <2>5, <2>6, Zenon DEF Accepted
  <1>12. CommittedSeq'
    <2>1. ASSUME NEW i \in Pos PROVE commit[i] <= L /\ commit[i] \in Nat
      BY <1>0, <1>1, PositionTypes, Zenon DEF CommittedSeq
    <2>2. ASSUME NEW i \in Pos, NEW k, NEW r, Hist(k, r)', k <= commit'[i] PROVE UpTo(i, r)'
      <3>1. k <= commit[i]
        BY <1>1, <2>2, Zenon
      <3>2. k # L + 1
        BY <1>1, <2>1, <3>1
      <3>3. Hist(k, r)
        BY <1>7, <2>2, <3>2, Zenon
      <3>4. UpTo(i, r) /\ r \in Record
        BY <1>8, <3>1, <3>3, Zenon DEF CommittedSeq
      <3>. QED  BY <1>5, <3>4, Zenon
    <2>3. ASSUME NEW i \in Pos PROVE commit'[i] <= Len(data'[1])
      <3>1. commit'[i] = commit[i] /\ Len(data'[1]) = L + 1
        BY <1>1, Zenon
      <3>. QED  BY <1>1, <2>1, <3>1
    <2>. QED  BY <2>2, <2>3, Zenon DEF CommittedSeq
  <1>13. VariantSeq'
    <2>1. /\ relinq # NoData => relinq \in Seq(Record)
          /\ decision # NoData => decision \in Seq(Record)
      BY DEF TypeInv, MetaType
    <2>2. ASSUME NEW s \in Seq(Record), NEW i \in Pos, NEW k \in 1 .. Len(s), UpTo(i, s[k])
          PROVE  UpTo(i, s[k])'
      <3>1. s[k] \in Record
        OBVIOUS
      <3>. QED  BY <1>5, <2>2, <3>1, Zenon
    <2>3. ASSUME NEW i \in Pos, relinq' # NoData, NEW k \in 1 .. Len(relinq')
          PROVE  UpTo(i, relinq[k])'
      <3>1. PICK s \in Seq(Record) : s = relinq /\ s = relinq'
        BY <1>1, <2>1, <2>3, Zenon
      <3>2. k \in 1 .. Len(s) /\ UpTo(i, s[k])
        BY <1>1, <2>3, <3>1, Zenon DEF VariantSeq
      <3>3. UpTo(i, s[k])'
        BY <2>2, <3>2, Zenon
      <3>. QED  BY <3>1, <3>3 DEF UpTo
    <2>4. ASSUME NEW i \in Pos, decision' # NoData, NEW k \in 1 .. Len(decision')
          PROVE  UpTo(i, decision[k])'
      <3>1. PICK s \in Seq(Record) : s = decision /\ s = decision'
        BY <1>1, <2>1, <2>4, Zenon
      <3>2. k \in 1 .. Len(s) /\ UpTo(i, s[k])
        BY <1>1, <2>4, <3>1, Zenon DEF VariantSeq
      <3>3. UpTo(i, s[k])'
        BY <2>2, <3>2, Zenon
      <3>. QED  BY <3>1, <3>3 DEF UpTo
    <2>. QED  BY <2>3, <2>4, Zenon DEF VariantSeq
  <1>14. MasterCommits'
    <2>1. -1 <= commit[1]
      BY PosFacts, PositionTypes
    <2>2. ASSUME NEW i \in Pos, NEW k \in 1 .. Len(pend'[i]) PROVE pend'[i][k].op.mc <= commit'[1]
      <3>1. CASE k \in 1 .. Len(pend[i]) /\ pend'[i][k] = pend[i][k]
        BY <1>1, <3>1, Zenon DEF MasterCommits
      <3>2. CASE pend'[i][k].op = o
        BY <1>1, <1>3, <2>1, <3>2, Zenon
      <3>. QED  BY <1>1, <3>1, <3>2, Zenon
    <2>. QED  BY <1>1, <1>2, <2>2, Zenon DEF MasterCommits
  <1>15. OneAtATime'
    <2>1. ASSUME NEW w \in Wids, NEW k, NEW m, Hist(k, <<w, m>>)'
          PROVE  /\ m < Seqno(1, w)' => k <= commit'[1]
                 /\ Open(1)' /\ wid'[1][w].status = "ok" => k <= commit'[1]
      <3>1. CASE k = L + 1 /\ <<w, m>> = x
        <4>1. w = a /\ m = n
          BY <1>0, <3>1
        <4>2. ~(n < n) /\ "busy" # "ok"
          BY <1>3
        <4>. QED  BY <1>2, <1>3, <4>1, <4>2, Zenon
      <3>2. CASE Hist(k, <<w, m>>) /\ w = a
        <4>1. k <= commit[1]
          BY <1>1, <1>2, <3>2, Zenon DEF OneAtATime
        <4>. QED  BY <1>1, <4>1, Zenon
      <3>3. CASE Hist(k, <<w, m>>) /\ w # a
        <4>1. Seqno(1, w)' = Seqno(1, w) /\ wid'[1][w] = wid[1][w]
          BY <1>2, <1>3, <3>3, PosFacts, Zenon
        <4>. QED  BY <1>1, <3>3, <4>1, Zenon DEF OneAtATime
      <3>. QED  BY <1>7, <2>1, <3>1, <3>2, <3>3, Zenon
    <2>. QED  BY <2>1, Zenon DEF OneAtATime
  <1>16. ASSUME NEW r PROVE (Held(r) => Held(r)') /\ (Refused(r) => Refused(r)')
    <2>1. commit[1] <= Len(data[1]) /\ commit[1] \in Nat
      BY PosFacts, PositionTypes, <1>1, Zenon DEF CommittedSeq
    <2>2. \A k \in 1 .. commit[1] : k \in 1 .. L /\ k \in 1 .. L + 1
      BY <1>0, <1>1, <2>1
    <2>3. ASSUME NEW k \in 1 .. commit[1], In(data[1], k, r) PROVE In(data'[1], k, r)
      BY <1>1, <2>2, <2>3, Zenon DEF In
    <2>. QED  BY <1>1, <2>3, Zenon DEF Held, Refused, Chosen
  <1>17. StatusHeld'
    <2>1. ASSUME NEW i \in Pos, NEW w \in Wids
          PROVE  /\ wid'[i][w].status = "ok" /\ Seqno(i, w)' > 0 => Held(<<w, Seqno(i, w)>>)'
                 /\ wid'[i][w].status = "bad" => Refused(<<w, Seqno(i, w)>>)'
      <3>1. CASE i = 1 /\ w = a
        <4>1. "busy" # "ok" /\ "busy" # "bad"
          OBVIOUS
        <4>. QED  BY <1>2, <3>1, <4>1, Zenon
      <3>2. CASE i # 1 \/ w # a
        <4>1. wid'[i][w] = wid[i][w]
          BY <1>2, <3>2, Zenon
        <4>2. PICK p : p = Seqno(i, w) /\ p = Seqno(i, w)'
          BY <1>3, <3>2, Zenon
        <4>3. /\ wid[i][w].status = "ok" /\ p > 0 => Held(<<w, p>>)'
              /\ wid[i][w].status = "bad" => Refused(<<w, p>>)'
          BY <1>16, <4>2, Zenon DEF StatusHeld
        <4>4. /\ Held(<<w, p>>)' => Held(<<w, Seqno(i, w)>>)'
              /\ Refused(<<w, p>>)' => Refused(<<w, Seqno(i, w)>>)'
          BY <4>2
        <4>. QED  BY <4>1, <4>2, <4>3, <4>4, Zenon
      <3>. QED  BY <3>1, <3>2
    <2>. QED  BY <2>1, Zenon DEF StatusHeld
  <1>18. ToldHeld'
    <2>1. ASSUME NEW t \in told'
          PROVE  /\ t.status = "ok" /\ t.seq > 0 => Held(<<t.w, t.seq>>)'
                 /\ t.status = "bad" => Refused(<<t.w, t.seq>>)'
                 /\ \E i \in Pos : wid'[i][t.w].ro /\ Seqno(i, t.w)' = t.seq
      <3>1. t.w \in Wids
        BY DEF TypeInv, ClientType
      <3>2. t \in told
        BY <1>2, Zenon
      <3>3. PICK i \in Pos : wid[i][t.w].ro /\ Seqno(i, t.w) = t.seq
        BY <3>2, Zenon DEF ToldHeld
      <3>4. i # 1 \/ t.w # a
        BY <1>2, <3>3, Zenon
      <3>5. wid'[i][t.w].ro /\ Seqno(i, t.w)' = t.seq
        BY <1>2, <1>3, <3>1, <3>3, <3>4, Zenon
      <3>. QED  BY <1>16, <3>2, <3>5, Zenon DEF ToldHeld
    <2>. QED  BY <2>1, Zenon DEF ToldHeld
  <1>. QED  BY <1>9, <1>10, <1>11, <1>12, <1>13, <1>14, <1>15, <1>17, <1>18

-----------------------------------------------------------------------------
(* The effects of the other steps.                                         *)

\* No entry changes.
LEMMA KeptWids ==
    ASSUME wid' = wid
    PROVE  WidEffect
  <1>1. ASSUME NEW i \in Pos, NEW w \in Wids PROVE WidStep(i, w)
    <2>1. Seqno(i, w)' = Seqno(i, w) /\ wid'[i][w] = wid[i][w]
      BY Zenon DEF Seqno
    <2>2. wid'[i][w].status \in {wid[i][w].status, "erased"}
      BY <2>1
    <2>. QED  BY <2>1, <2>2, Zenon DEF WidStep
  <1>. QED  BY <1>1, Zenon DEF WidEffect

\* One entry changes its status.
LEMMA OneWid ==
    ASSUME TypeInv, NEW i \in Pos, NEW w \in Wids, NEW e, wid' = [wid EXCEPT ![i][w] = e],
           e.seq = wid[i][w].seq, e.end = wid[i][w].end, wid[i][w].ro => e.ro,
           \/ e.status \in {wid[i][w].status, "erased"}
           \/ e.status = "ok" /\ Succeeds(i, w)
           \/ e.status = "bad" /\ st[i] = "stable" /\ wid[i][w].end > Len(data[i])
    PROVE  WidEffect /\ wid'[i][w] = e
  <1>0. wid \in [Pos -> [Wids -> WidInfo]]
    BY Zenon DEF TypeInv, ClientType
  <1>1. wid'[i][w] = e /\ \A j \in Pos, v \in Wids : j # i \/ v # w => wid'[j][v] = wid[j][v]
    BY <1>0
  <1>2. ASSUME NEW j \in Pos, NEW v \in Wids PROVE WidStep(j, v)
    <2>1. CASE j = i /\ v = w
      <3>1. Seqno(i, w)' = Seqno(i, w)
        BY <1>1, Zenon DEF Seqno
      <3>. QED  BY <1>1, <2>1, <3>1, Zenon DEF WidStep
    <2>2. CASE j # i \/ v # w
      <3>1. wid'[j][v] = wid[j][v]
        BY <1>1, <2>2, Zenon
      <3>2. Seqno(j, v)' = Seqno(j, v)
        BY <3>1, Zenon DEF Seqno
      <3>3. wid'[j][v].status \in {wid[j][v].status, "erased"}
        BY <3>1
      <3>. QED  BY <3>1, <3>2, <3>3, Zenon DEF WidStep
    <2>. QED  BY <2>1, <2>2
  <1>. QED  BY <1>1, <1>2, Zenon DEF WidEffect

\* The appends that the master commits were past its commit offset.
LEMMA CommitWids ==
    ASSUME TypeInv, NEW i \in Pos, NEW ops \in Seq(Ops), CommitOps(i, ops),
           i = 1 => \A k \in AppendsOf(ops) : Known(ops[k]) /\ commit[1] <= ops[k].off
    PROVE  WidEffect
  <1>1. CASE i # 1
    <2>1. wid' = wid
      BY <1>1, Zenon DEF CommitOps
    <2>. QED  BY <2>1, KeptWids, Zenon
  <1>2. CASE i = 1
    <2>0. wid \in [Pos -> [Wids -> WidInfo]]
      BY Zenon DEF TypeInv, ClientType
    <2>1. /\ wid' = [wid EXCEPT ![1] = [w \in Wids |->
                         IF \E k \in AppendsOf(ops) : ops[k].w = w
                         THEN [wid[1][w] EXCEPT !.status = "ok"] ELSE wid[1][w]]]
          /\ acked' = acked \cup {<<ops[k].w, ops[k].seq>> : k \in AppendsOf(ops)}
      BY <1>2, Zenon DEF CommitOps, AppendsOf
    <2>2. \A j \in Pos : j # 1 => wid'[j] = wid[j]
      BY <2>0, <2>1
    <2>3. ASSUME NEW w \in Wids
          PROVE  wid'[1][w] = IF \E k \in AppendsOf(ops) : ops[k].w = w
                              THEN [wid[1][w] EXCEPT !.status = "ok"] ELSE wid[1][w]
      BY <2>0, <2>1, PosFacts
    <2>4. ASSUME NEW w \in Wids PROVE WidStep(1, w)
      <3>1. CASE \E k \in AppendsOf(ops) : ops[k].w = w
        <4>1. PICK k \in AppendsOf(ops) : ops[k].w = w
          BY <3>1, Zenon
        <4>2. App(ops[k]) /\ ops[k].off \in Nat
          <5>1. k \in 1 .. Len(ops) /\ App(ops[k])
            BY DEF AppendsOf, App
          <5>. QED  BY <5>1, OpOffsets, Zenon
        <4>3. PICK l, n : l = ops[k].off + 1 /\ n = ops[k].seq
          BY Zenon
        <4>4. At(l, <<w, n>>)
          BY <1>2, <4>1, <4>2, <4>3, Zenon DEF Known
        <4>5. l > commit[1]
          <5>1. commit[1] <= ops[k].off
            BY <1>2, Zenon
          <5>2. commit[1] \in Nat
            BY PosFacts, PositionTypes, Zenon
          <5>. QED  BY <4>2, <4>3, <5>1, <5>2
        <4>6. <<w, n>> \in acked'
          BY <2>1, <4>1, <4>3, Zenon
        <4>7. Succeeds(1, w)
          BY <4>4, <4>5, <4>6, Zenon DEF Succeeds
        <4>8. wid[1][w] \in WidInfo
          BY PosFacts, WidTypes, Zenon
        <4>9. wid'[1][w] = [wid[1][w] EXCEPT !.status = "ok"]
          BY <2>3, <3>1, Zenon
        <4>10. /\ wid'[1][w].status = "ok" /\ wid'[1][w].end = wid[1][w].end
               /\ wid'[1][w].seq = wid[1][w].seq /\ wid'[1][w].ro = wid[1][w].ro
          BY <4>8, <4>9 DEF WidInfo
        <4>. QED  BY <4>7, <4>10, Zenon DEF WidStep, Seqno
      <3>2. CASE ~\E k \in AppendsOf(ops) : ops[k].w = w
        <4>1. wid'[1][w] = wid[1][w]
          BY <2>3, <3>2, Zenon
        <4>2. wid'[1][w].status \in {wid[1][w].status, "erased"}
          BY <4>1
        <4>. QED  BY <4>1, <4>2, Zenon DEF WidStep, Seqno
      <3>. QED  BY <3>1, <3>2
    <2>5. ASSUME NEW j \in Pos, NEW w \in Wids, j # 1 PROVE WidStep(j, w)
      <3>1. wid'[j][w] = wid[j][w]
        BY <2>2, <2>5, Zenon
      <3>2. wid'[j][w].status \in {wid[j][w].status, "erased"}
        BY <3>1
      <3>. QED  BY <3>1, <3>2, Zenon DEF WidStep, Seqno
    <2>. QED  BY <2>4, <2>5, Zenon DEF WidEffect
  <1>. QED  BY <1>1, <1>2

\* Nothing is queued, sent or heard of.
LEMMA KeptQueues ==
    ASSUME MasterCommits, UNCHANGED <<mcommit, pend, link>>
    PROVE  QueueEffect
  <1>1. ASSUME NEW j \in Pos, NEW k \in 1 .. Len(link[j]) PROVE Has(link[j], link[j][k])
    BY Zenon DEF Has
  <1>. QED  BY <1>1, Zenon DEF QueueEffect, MasterCommits

\* Nothing happens to the replicas.
LEMMA KeptReplicas ==
    ASSUME TypeInv, UNCHANGED <<data, commit>>
    PROVE  ReplicaEffect
  <1>1. \A j \in Pos : Len(data[j]) <= Len(data[j])
    BY PositionTypes
  <1>. QED  BY <1>1, Zenon DEF ReplicaEffect, In

\* A position fails, or nothing happens to the replicas.
LEMMA OutcomeReplicas ==
    ASSUME TypeInv, ChainInv, CommitEffect, NEW i \in Pos, (st[i] = "open" /\ SetFailed(i)) \/ KeepState
    PROVE  ReplicaEffect /\ (relinq' \in {relinq, NoData} \/ Committed(relinq'))
  <1>0. \A j \in Pos : Len(data[j]) <= Len(data[j]) /\ data[j] \in Seq(Record)
    BY PositionTypes
  <1>1. CASE KeepState
    <2>1. UNCHANGED <<st, data>> /\ relinq' = relinq /\ "stable" # "open"
      BY <1>1 DEF KeepState
    <2>2. \A j \in Pos : st'[j] = "stable" => commit'[j] = commit[j]
      BY <2>1, Zenon DEF CommitEffect
    <2>3. ReplicaEffect
      BY <1>0, <2>1, <2>2, Zenon DEF ReplicaEffect, In
    <2>. QED  BY <2>1, <2>3
  <1>2. CASE st[i] = "open" /\ SetFailed(i)
    <2>1. /\ st'[i] # "open" /\ st'[i] # "stable" /\ "stable" # "open"
          /\ \A j \in Pos : j # i => st'[j] = st[j] /\ data'[j] = data[j]
          /\ i # 1 => data' = data
      BY <1>2, SetFailedFacts, Zenon
    <2>2. CASE i # 1
      <3>1. data' = data /\ relinq' = relinq
        BY <1>2, <2>2, Zenon DEF SetFailed
      <3>2. \A j \in Pos : st'[j] = "stable" => commit'[j] = commit[j]
        BY <2>1, Zenon DEF CommitEffect
      <3>3. ReplicaEffect
        BY <1>0, <3>1, <3>2, Zenon DEF ReplicaEffect, In
      <3>. QED  BY <3>1, <3>3
    <2>3. CASE i = 1
      <3>1. commit[1] \in 0 .. Len(data[1]) /\ commit[1] <= commit[1] /\ commit[1] \in 0 .. commit[1]
        <4>1. commit[1] <= Len(data[1])
          BY PosFacts, Zenon DEF ChainInv, Commits
        <4>2. commit[1] \in Nat /\ Len(data[1]) \in Nat
          BY PosFacts, PositionTypes, Zenon
        <4>. QED  BY <4>1, <4>2
      <3>2. PICK d : d = Trimmed(1)
        BY Zenon
      <3>3. Len(d) = commit[1] /\ \A k \in 1 .. Len(d) : In(data[1], k, d[k])
        BY <1>0, <3>1, <3>2, PosFacts, PrefixFacts, PrefixIn, Zenon DEF Trimmed
      <3>4. data'[1] = d /\ relinq' = d
        BY <1>2, <2>3, <3>2, PosFacts, Zenon DEF SetFailed, TypeInv, ChainType
      <3>5. Committed(relinq')
        BY <3>1, <3>3, <3>4, PosFacts, Zenon DEF Committed
      <3>6. ASSUME NEW j \in Pos
            PROVE  /\ \A k \in 1 .. Len(data'[j]) : In(data[j], k, data'[j][k])
                   /\ st'[j] = "open" => Len(data[j]) <= Len(data'[j])
                   /\ st'[j] = "stable" => commit'[j] = commit[j]
        <4>1. CASE j = 1
          BY <2>1, <2>3, <3>3, <3>4, <4>1, Zenon
        <4>2. CASE j # 1
          BY <1>0, <2>1, <2>3, <4>2, Zenon DEF In, CommitEffect
        <4>. QED  BY <4>1, <4>2
      <3>7. ReplicaEffect
        BY <3>6, Zenon DEF ReplicaEffect
      <3>. QED  BY <3>5, <3>7
    <2>. QED  BY <2>2, <2>3
  <1>. QED  BY <1>1, <1>2

\* What a step does to the write ids and to what clients and the meta server
\* are told.
StepEffect == WidEffect /\ ReplicaEffect /\ QueueEffect /\ VariantEffect /\ ToldEffect

\* The meta server's view does not change, and no client is told anything.
LEMMA KeptViews ==
    ASSUME UNCHANGED metasrv, told' = told, relinq' \in {relinq, NoData} \/ Committed(relinq')
    PROVE  VariantEffect /\ ToldEffect
  BY Zenon DEF VariantEffect, ToldEffect, metasrv

\* The steps of the meta server, and those that only drop the lease.
LEMMA MetaSteps ==
    ASSUME TypeInv, MasterCommits,
           \/ UNCHANGED vars \/ LeaseClerkExpires
           \/ BeginMakeChunkStable \/ BeginMakeChunkStableDone \/ LeaseRelinquish
    PROVE  StepEffect
  <1>1. UNCHANGED <<data, commit, mcommit, wid, pend, link, told>>
    BY Zenon DEF vars, LeaseClerkExpires, BeginMakeChunkStable, BeginMakeChunkStableDone,
                 LeaseRelinquish, appender, wires
  <1>2. VariantEffect
    <2>1. CASE UNCHANGED vars \/ LeaseClerkExpires
      BY <2>1 DEF VariantEffect, vars, LeaseClerkExpires, metasrv
    <2>2. CASE BeginMakeChunkStable \/ BeginMakeChunkStableDone
      BY <2>2 DEF VariantEffect, BeginMakeChunkStable, BeginMakeChunkStableDone
    <2>3. CASE LeaseRelinquish
      BY <2>3 DEF VariantEffect, LeaseRelinquish, metasrv
    <2>. QED  BY <2>1, <2>2, <2>3, Zenon
  <1>. QED  BY <1>1, <1>2, KeptWids, KeptReplicas, KeptQueues, Zenon DEF StepEffect, ToldEffect

\* A position fails.
LEMMA FailSteps ==
    ASSUME TypeInv, ChainInv, CommitEffect, MasterCommits,
           \/ LeaseExpired \/ TryToCloseChunk
           \/ \E i \in Pos : ReplicationTimeout(i) \/ \E w \in Wids : InvalidateWriteId(i, w)
    PROVE  StepEffect
  <1>1. ASSUME NEW i \in Pos, st[i] = "open", SetFailed(i),
               UNCHANGED <<mcommit, wires, told, metasrv>>, WidEffect
        PROVE  StepEffect
    <2>1. UNCHANGED <<mcommit, pend, link>>
      BY <1>1, Zenon DEF wires
    <2>2. ReplicaEffect /\ VariantEffect /\ ToldEffect
      BY <1>1, OutcomeReplicas, KeptViews, Zenon
    <2>. QED  BY <1>1, <2>1, <2>2, KeptQueues, Zenon DEF StepEffect
  <1>2. CASE LeaseExpired \/ TryToCloseChunk
    BY <1>1, <1>2, PosFacts, KeptWids, Zenon DEF LeaseExpired, TryToCloseChunk
  <1>3. ASSUME NEW i \in Pos, ReplicationTimeout(i) PROVE StepEffect
    BY <1>1, <1>3, KeptWids, Zenon DEF ReplicationTimeout
  <1>4. ASSUME NEW i \in Pos, NEW w \in Wids, InvalidateWriteId(i, w) PROVE StepEffect
    <2>1. PICK e : e = [wid[i][w] EXCEPT !.status = "erased"]
      BY Zenon
    <2>2. wid' = [wid EXCEPT ![i][w] = e]
      BY <1>4, <2>1, Zenon DEF InvalidateWriteId
    <2>3. wid[i][w] \in WidInfo
      BY WidTypes, Zenon
    <2>4. /\ e.seq = wid[i][w].seq /\ e.end = wid[i][w].end /\ e.ro = wid[i][w].ro
          /\ e.status \in {wid[i][w].status, "erased"}
      BY <2>1, <2>3 DEF WidInfo
    <2>5. WidEffect
      BY <2>2, <2>4, OneWid, Zenon
    <2>. QED  BY <1>1, <1>4, <2>5, Zenon DEF InvalidateWriteId
  <1>. QED  BY <1>2, <1>3, <1>4, Zenon

\* A replica is lost, answers begin make stable, or becomes stable.
LEMMA MakeStableSteps ==
    ASSUME TypeInv, ChainInv, Decided, MasterCommits, NEW i \in Pos,
           Lose(i) \/ BeginMakeStable(i) \/ MakeChunkStable(i)
    PROVE  StepEffect
  <1>0. /\ data[i] \in Seq(Record) /\ Len(data[i]) \in Nat /\ commit[i] \in Nat
        /\ st[i] # "stable" => commit[i] <= Len(data[i])
        /\ \A j \in Pos : \A k \in 1 .. Len(data[j]) : In(data[j], k, data[j][k])
        /\ \A j \in Pos : Len(data[j]) <= Len(data[j])
    <2>1. \A j \in Pos : Len(data[j]) <= Len(data[j])
      BY PositionTypes
    <2>. QED  BY <2>1, PositionTypes, Zenon DEF ChainInv, Commits, In
  <1>1. UNCHANGED <<commit, mcommit, wid, pend, link, told, relinq>>
    BY Zenon DEF Lose, BeginMakeStable, MakeChunkStable, wires
  <1>2. ASSUME NEW d, data' = [data EXCEPT ![i] = d],
               \A k \in 1 .. Len(d) : In(data[i], k, d[k]), st'[i] = "open" => d = data[i]
        PROVE  ReplicaEffect
    <2>1. data'[i] = d /\ \A j \in Pos : j # i => data'[j] = data[j]
      BY <1>2, Zenon DEF TypeInv, ChainType
    <2>2. ASSUME NEW j \in Pos
          PROVE  /\ \A k \in 1 .. Len(data'[j]) : In(data[j], k, data'[j][k])
                 /\ st'[j] = "open" => Len(data[j]) <= Len(data'[j])
      BY <1>0, <1>2, <2>1, Zenon
    <2>. QED  BY <1>1, <2>2, Zenon DEF ReplicaEffect
  <1>3. ReplicaEffect /\ VariantEffect
    <2>1. CASE Lose(i)
      <3>1. UNCHANGED <<data, metasrv>>
        BY <2>1, Zenon DEF Lose
      <3>. QED  BY <1>1, <3>1, KeptReplicas, Zenon DEF VariantEffect, metasrv
    <2>2. CASE BeginMakeStable(i)
      <3>. DEFINE mine == IF commit[i] < Len(data[i]) THEN Trimmed(i) ELSE data[i]
      <3>0. phase # "decided" /\ phase' = phase
        BY <2>2 DEF BeginMakeStable, TypeInv, MetaType
      <3>1. CASE st[i] \in {"open", "failed", "closed"}
        <4>1. /\ st' = [st EXCEPT ![i] = "closed"] /\ data' = [data EXCEPT ![i] = mine]
              /\ decision' = decision \/ decision' = mine
          BY <2>2, <3>1, Zenon DEF BeginMakeStable
        <4>2. commit[i] <= Len(data[i])
          BY <1>0, <3>1
        <4>3. Len(mine) <= commit[i] /\ \A k \in 1 .. Len(mine) : In(data[i], k, mine[k])
          <5>1. CASE commit[i] < Len(data[i])
            <6>1. commit[i] \in 0 .. Len(data[i]) /\ commit[i] \in 0 .. commit[i] /\ commit[i] <= commit[i]
              BY <1>0, <4>2
            <6>. QED  BY <1>0, <5>1, <6>1, PrefixIn, PrefixFacts, Zenon DEF Trimmed
          <5>2. CASE ~(commit[i] < Len(data[i]))
            <6>1. Len(data[i]) <= commit[i]
              BY <1>0, <5>2
            <6>. QED  BY <1>0, <5>2, <6>1, Zenon
          <5>. QED  BY <5>1, <5>2
        <4>. HIDE DEF mine
        <4>4. st'[i] # "open"
          <5>1. st'[i] = "closed"
            BY <4>1, Zenon DEF TypeInv, ChainType
          <5>. QED  BY <5>1
        <4>5. ReplicaEffect
          BY <1>2, <4>1, <4>3, <4>4, Zenon
        <4>6. Committed(mine)
          BY <4>3, Zenon DEF Committed
        <4>. QED  BY <1>1, <3>0, <4>1, <4>5, <4>6, Zenon DEF VariantEffect
      <3>2. CASE ~(st[i] \in {"open", "failed", "closed"})
        <4>1. UNCHANGED <<data, decision>>
          BY <2>2, <3>2, Zenon DEF BeginMakeStable
        <4>. QED  BY <1>1, <3>0, <4>1, KeptReplicas, Zenon DEF VariantEffect
      <3>. QED  BY <3>1, <3>2
    <2>3. CASE MakeChunkStable(i)
      <3>. DEFINE cut  == SubSeq(data[i], 1, Len(decision))
                  same == Len(decision) <= Len(data[i]) /\ cut = decision
      <3>0. UNCHANGED <<phase, decision>>
        BY <2>3, Zenon DEF MakeChunkStable
      <3>1. VariantEffect
        BY <1>1, <3>0, Zenon DEF VariantEffect
      <3>2. CASE st[i] \in {"open", "failed", "closed"} /\ same
        <4>1. /\ st' = [st EXCEPT ![i] = "stable"] /\ data' = [data EXCEPT ![i] = cut]
          BY <2>3, <3>2, Zenon DEF MakeChunkStable
        <4>2. decision \in Seq(Record)
          BY <2>3 DEF MakeChunkStable, TypeInv, MetaType
        <4>3. Len(decision) \in 0 .. Len(data[i]) /\ 0 \in 0 .. Len(decision)
          BY <1>0, <3>2, <4>2
        <4>4. \A k \in 1 .. Len(cut) : In(data[i], k, cut[k])
          BY <1>0, <4>3, PrefixIn, Zenon
        <4>5. st'[i] # "open"
          <5>1. st'[i] = "stable"
            BY <4>1, Zenon DEF TypeInv, ChainType
          <5>. QED  BY <5>1
        <4>. HIDE DEF cut
        <4>6. ReplicaEffect
          BY <1>2, <4>1, <4>4, <4>5, Zenon
        <4>. QED  BY <3>1, <4>6
      <3>3. CASE ~(st[i] \in {"open", "failed", "closed"} /\ same)
        <4>1. data' = [data EXCEPT ![i] = data[i]] \/ data' = data
          BY <2>3, <3>3, Zenon DEF MakeChunkStable
        <4>2. data' = data
          BY <4>1, Zenon DEF TypeInv, ChainType
        <4>. QED  BY <1>1, <3>1, <4>2, KeptReplicas, Zenon
      <3>. QED  BY <3>2, <3>3
    <2>. QED  BY <2>1, <2>2, <2>3
  <1>. QED  BY <1>1, <1>3, KeptWids, KeptQueues, Zenon DEF StepEffect, ToldEffect

\* One queue or wire changes; what it holds is old or as said.
LEMMA OneQueue ==
    ASSUME TypeInv, MasterCommits,
           \A j \in Pos : mcommit'[j] <= commit[1],
           \A j \in Pos : \A k \in 1 .. Len(pend'[j]) :
              \/ \E l \in 1 .. Len(pend[j]) : pend[j][l] = pend'[j][k]
              \/ /\ pend'[j][k].op.mc <= commit[1]
                 /\ pend'[j][k].ok /\ App(pend'[j][k].op) =>
                       pend'[j][k].op.seq = wid'[j][pend'[j][k].op.w].seq,
           \A j \in Pos : \A k \in 1 .. Len(link'[j]) :
              \/ Has(link[j], link'[j][k])
              \/ /\ link'[j][k].mc <= commit[1]
                 /\ App(link'[j][k]) => \E l \in 1 .. Len(pend[j]) :
                       pend[j][l].ok /\ Stamped(j, link'[j][k], pend[j][l])
    PROVE  QueueEffect
  <1>1. ASSUME NEW j \in Pos, NEW k \in 1 .. Len(pend'[j])
        PROVE  /\ pend'[j][k].op.mc <= commit[1]
               /\ pend'[j][k].ok /\ App(pend'[j][k].op) =>
                    \/ \E l \in 1 .. Len(pend[j]) : pend[j][l] = pend'[j][k]
                    \/ pend'[j][k].op.seq = wid'[j][pend'[j][k].op.w].seq
    <2>1. ASSUME NEW l \in 1 .. Len(pend[j]), pend[j][l] = pend'[j][k]
          PROVE  pend'[j][k].op.mc <= commit[1]
      <3>1. pend[j][l].op.mc <= commit[1]
        BY Zenon DEF MasterCommits
      <3>. QED  BY <2>1, <3>1, Zenon
    <2>. QED  BY <2>1, Zenon
  <1>2. ASSUME NEW j \in Pos, NEW k \in 1 .. Len(link'[j])
        PROVE  /\ link'[j][k].mc <= commit[1]
               /\ App(link'[j][k]) =>
                    \/ Has(link[j], link'[j][k])
                    \/ \E l \in 1 .. Len(pend[j]) :
                          pend[j][l].ok /\ Stamped(j, link'[j][k], pend[j][l])
    <2>1. ASSUME Has(link[j], link'[j][k]) PROVE link'[j][k].mc <= commit[1]
      <3>1. PICK l \in 1 .. Len(link[j]) : link[j][l] = link'[j][k]
        BY <2>1, Zenon DEF Has
      <3>2. link[j][l].mc <= commit[1]
        BY Zenon DEF MasterCommits
      <3>. QED  BY <3>1, <3>2, Zenon
    <2>. QED  BY <2>1, Zenon
  <1>. QED  BY <1>1, <1>2, Zenon DEF QueueEffect

\* The master tells the chain how far it has committed.
LEMMA CommitAckStep ==
    ASSUME TypeInv, MasterCommits, SendCommitAck
    PROVE  StepEffect
  <1>1. PICK s : s = [op |-> AppendOp("ack", NoWid, 0), ok |-> TRUE]
    BY Zenon
  <1>2. s \in Statuses /\ ~App(s.op) /\ s.op.mc = -1
    BY <1>1, NewOpType DEF Statuses, App, AppendOp
  <1>3. /\ pend' = [pend EXCEPT ![1] = Append(pend[1], s)]
        /\ UNCHANGED <<data, commit, mcommit, wid, link, told, relinq, metasrv>>
    BY <1>1, Zenon DEF SendCommitAck, appender
  <1>4. -1 <= commit[1] /\ pend[1] \in Seq(Statuses)
    BY PosFacts, PositionTypes
  <1>5. \A j \in Pos : \A k \in 1 .. Len(pend'[j]) :
           (\E l \in 1 .. Len(pend[j]) : pend[j][l] = pend'[j][k]) \/ pend'[j][k] = s
    <2>1. \A j \in Pos : pend'[j] = pend[j] \/ (j = 1 /\ pend'[j] = Append(pend[j], s))
      BY <1>3, Zenon DEF TypeInv, ChainType
    <2>2. \A k \in 1 .. Len(Append(pend[1], s)) :
             (\E l \in 1 .. Len(pend[1]) : pend[1][l] = Append(pend[1], s)[k])
             \/ Append(pend[1], s)[k] = s
      BY <1>2, <1>4, WireParts, Zenon
    <2>. QED  BY <2>1, <2>2, Zenon
  <1>6. \A j \in Pos : \A k \in 1 .. Len(link[j]) : Has(link[j], link[j][k])
    BY Zenon DEF Has
  <1>7. \A j \in Pos : mcommit'[j] <= commit[1]
    BY <1>3, Zenon DEF MasterCommits
  <1>8. QueueEffect
    BY <1>2, <1>3, <1>4, <1>5, <1>6, <1>7, OneQueue, Zenon
  <1>9. relinq' \in {relinq, NoData}
    BY <1>3
  <1>. QED  BY <1>3, <1>8, <1>9, KeptWids, KeptReplicas, KeptViews, Zenon DEF StepEffect

\* A status settled with an offset that the master has committed.
LEMMA SettledEntry ==
    ASSUME TypeInv, NEW i \in Pos, NEW w \in Wids, NEW x
    PROVE  LET e == Settled(wid[i][w], x)
           IN  /\ e \in WidInfo /\ e.seq = wid[i][w].seq /\ e.end = wid[i][w].end
               /\ e.ro = wid[i][w].ro
               /\ e.status = wid[i][w].status \/ (e.status = "ok" /\ wid[i][w].end <= x)
  <1>. DEFINE e == Settled(wid[i][w], x)
  <1>1. wid[i][w] \in WidInfo
    BY WidTypes, Zenon
  <1>2. CASE wid[i][w].status = "busy" /\ wid[i][w].end <= x
    <2>1. e = [wid[i][w] EXCEPT !.status = "ok"]
      BY <1>2, Zenon DEF Settled
    <2>. HIDE DEF e
    <2>2. /\ e \in WidInfo /\ e.seq = wid[i][w].seq /\ e.end = wid[i][w].end
          /\ e.ro = wid[i][w].ro /\ e.status = "ok"
      BY <1>1, <2>1 DEF WidInfo
    <2>. QED  BY <1>2, <2>2, Zenon DEF e
  <1>3. CASE ~(wid[i][w].status = "busy" /\ wid[i][w].end <= x)
    <2>1. e = wid[i][w]
      BY <1>3, Zenon DEF Settled
    <2>. QED  BY <1>1, <2>1, Zenon
  <1>. QED  BY <1>2, <1>3

\* A slave hears of no more than the master's commit.
LEMMA HeardCommit ==
    ASSUME TypeInv, MasterCommits, NEW i \in Pos, NEW m \in Ops, NEW b \in Pos, Has(link[b], m)
    PROVE  NewMasterCommit(i, m.mc) <= commit[1]
  <1>1. PICK k \in 1 .. Len(link[b]) : link[b][k] = m
    BY Zenon DEF Has
  <1>2. m.mc <= commit[1] /\ mcommit[i] <= commit[1]
    BY <1>1, Zenon DEF MasterCommits
  <1>. QED  BY <1>2, Zenon DEF NewMasterCommit

\* A write id is closed at the master.
LEMMA CloseStep ==
    ASSUME TypeInv, MasterCommits, NEW w \in Wids, CloseChunk(w)
    PROVE  StepEffect
  <1>1. PICK e, o : e = [wid[1][w] EXCEPT !.status = "erased"] /\ o = CloseOp(w)
    BY Zenon
  <1>2. /\ wid' = [wid EXCEPT ![1][w] = e]
        /\ link' = link \/ link' = [link EXCEPT ![1] = Append(link[1], o)]
        /\ UNCHANGED <<data, commit, mcommit, pend, told, relinq, metasrv>>
    BY <1>1, Zenon DEF CloseChunk
  <1>3. wid[1][w] \in WidInfo /\ 1 \in Pos /\ link[1] \in Seq(Ops)
    BY PosFacts, WidTypes, PositionTypes, Zenon
  <1>4. /\ e.seq = wid[1][w].seq /\ e.end = wid[1][w].end /\ e.ro = wid[1][w].ro
        /\ e.status \in {wid[1][w].status, "erased"}
    BY <1>1, <1>3 DEF WidInfo
  <1>5. WidEffect
    BY <1>2, <1>3, <1>4, OneWid, Zenon
  <1>6. o \in Ops /\ ~App(o) /\ o.mc = commit[1] /\ commit[1] <= commit[1]
    BY <1>1, <1>3, NewOpType, PositionTypes DEF App, CloseOp
  <1>7. \A j \in Pos : \A k \in 1 .. Len(link'[j]) : Has(link[j], link'[j][k]) \/ link'[j][k] = o
    <2>1. \A j \in Pos : link'[j] = link[j] \/ (j = 1 /\ link'[j] = Append(link[j], o))
      BY <1>2, Zenon DEF TypeInv, ChainType
    <2>2. \A k \in 1 .. Len(Append(link[1], o)) :
             Has(link[1], Append(link[1], o)[k]) \/ Append(link[1], o)[k] = o
      BY <1>3, <1>6, WireParts, Zenon
    <2>3. \A j \in Pos : \A k \in 1 .. Len(link[j]) : Has(link[j], link[j][k])
      BY Zenon DEF Has
    <2>. QED  BY <2>1, <2>2, <2>3, Zenon
  <1>8. /\ \A j \in Pos : mcommit'[j] <= commit[1]
        /\ \A j \in Pos : \A k \in 1 .. Len(pend'[j]) :
              \E l \in 1 .. Len(pend[j]) : pend[j][l] = pend'[j][k]
    BY <1>2, Zenon DEF MasterCommits
  <1>9. QueueEffect
    BY <1>6, <1>7, <1>8, OneQueue, Zenon
  <1>10. relinq' \in {relinq, NoData}
    BY <1>2
  <1>. QED  BY <1>2, <1>5, <1>9, <1>10, KeptReplicas, KeptViews, Zenon DEF StepEffect

\* The close reaches a slave.
LEMMA CloseForwardedStep ==
    ASSUME TypeInv, MasterCommits, NEW i \in Pos, CloseForwarded(i)
    PROVE  StepEffect
  <1>1. PICK b, m : b = i - 1 /\ m = Head(link[b])
    BY Zenon
  <1>2. /\ i > 1 /\ b \in Pos /\ link[b] # <<>> /\ m \in Ops /\ m.kind = "close"
        /\ link'[b] = Tail(link[b])
        /\ \A j \in Pos : j # b => link'[j] = link[j] \/ link'[j] = Append(link[j], m)
        /\ UNCHANGED <<data, commit, pend, relinq, metasrv>>
    BY <1>1, CloseForwardedFacts, Zenon
  <1>3. m.w \in Wids /\ ~App(m)
    BY <1>2 DEF Ops, App
  <1>4. \A j \in Pos : link[j] \in Seq(Ops)
    BY PositionTypes, Zenon
  <1>5. Has(link[b], m) /\ \A k \in 1 .. Len(Tail(link[b])) : Has(link[b], Tail(link[b])[k])
    BY <1>1, <1>2, <1>4, WireParts, Zenon
  <1>6. PICK mc, upto, ws :
           /\ mc = NewMasterCommit(i, m.mc)
           /\ upto = IF st[i] = "stable" THEN Len(data[i]) ELSE mc
           /\ ws = Settled(wid[i][m.w], upto)
    BY Zenon
  <1>7. mc <= commit[1]
    BY <1>2, <1>5, <1>6, HeardCommit, Zenon
  <1>8. /\ mcommit' = mcommit \/ mcommit' = [mcommit EXCEPT ![i] = mc]
        /\ \/ wid' = wid
           \/ wid' = [wid EXCEPT ![i][m.w] = ws]
           \/ wid' = [wid EXCEPT ![i][m.w] = [ws EXCEPT !.status = "erased"]]
        /\ told' = told
    BY <1>1, <1>6, Zenon DEF CloseForwarded
  <1>9. WidEffect
    <2>0. /\ ws \in WidInfo /\ ws.seq = wid[i][m.w].seq /\ ws.end = wid[i][m.w].end
          /\ ws.ro = wid[i][m.w].ro
          /\ ws.status = wid[i][m.w].status \/ (ws.status = "ok" /\ wid[i][m.w].end <= upto)
      <3>1. PICK w \in Wids : w = m.w
        BY <1>3, Zenon
      <3>2. LET s == Settled(wid[i][w], upto)
            IN  /\ s \in WidInfo /\ s.seq = wid[i][w].seq /\ s.end = wid[i][w].end
                /\ s.ro = wid[i][w].ro
                /\ s.status = wid[i][w].status \/ (s.status = "ok" /\ wid[i][w].end <= upto)
        BY SettledEntry, Zenon
      <3>3. ws = Settled(wid[i][w], upto)
        BY <1>6, <3>1, Zenon
      <3>. QED  BY <3>1, <3>2, <3>3, Zenon
    <2>1. CASE wid' = wid
      BY <2>1, KeptWids, Zenon
    <2>2. CASE wid' = [wid EXCEPT ![i][m.w] = ws]
      <3>1. CASE ws.status = wid[i][m.w].status
        <4>1. ws.status \in {wid[i][m.w].status, "erased"}
          BY <3>1
        <4>. QED  BY <1>3, <2>0, <2>2, <4>1, OneWid, Zenon
      <3>2. CASE ws.status = "ok" /\ wid[i][m.w].end <= upto
        <4>1. Succeeds(i, m.w)
          <5>1. CASE st[i] = "stable"
            BY <1>6, <3>2, <5>1, Zenon DEF Succeeds
          <5>2. CASE st[i] # "stable"
            <6>1. wid[i][m.w].end <= mc
              BY <1>6, <3>2, <5>2, Zenon
            <6>2. wid[i][m.w].end \in Nat /\ commit[1] \in Nat
              BY <1>3, PosFacts, WidTypes, PositionTypes, Zenon
            <6>3. mc \in Int
              BY <1>2, <1>6 DEF NewMasterCommit, TypeInv, ClientType, Ops, OpT
            <6>4. wid[i][m.w].end <= commit[1]
              BY <1>7, <6>1, <6>2, <6>3
            <6>. QED  BY <1>2, <6>4, Zenon DEF Succeeds
          <5>. QED  BY <5>1, <5>2
        <4>. QED  BY <1>3, <2>0, <2>2, <3>2, <4>1, OneWid, Zenon
      <3>. QED  BY <2>0, <3>1, <3>2
    <2>3. CASE wid' = [wid EXCEPT ![i][m.w] = [ws EXCEPT !.status = "erased"]]
      <3>1. PICK e : e = [ws EXCEPT !.status = "erased"]
        BY Zenon
      <3>2. /\ e.seq = ws.seq /\ e.end = ws.end /\ e.ro = ws.ro
            /\ e.status \in {wid[i][m.w].status, "erased"}
        BY <2>0, <3>1 DEF WidInfo
      <3>. QED  BY <1>3, <2>0, <2>3, <3>1, <3>2, OneWid, Zenon
    <2>. QED  BY <1>8, <2>1, <2>2, <2>3, Zenon
  <1>10. QueueEffect
    <2>1. \A j \in Pos : mcommit'[j] <= commit[1]
      <3>1. \A j \in Pos : mcommit'[j] = mcommit[j] \/ mcommit'[j] = mc
        BY <1>8, Zenon DEF TypeInv, ClientType
      <3>. QED  BY <1>7, <3>1, Zenon DEF MasterCommits
    <2>2. \A j \in Pos : \A k \in 1 .. Len(pend'[j]) :
             \E l \in 1 .. Len(pend[j]) : pend[j][l] = pend'[j][k]
      BY <1>2, Zenon
    <2>3. m.mc <= commit[1]
      BY <1>2, <1>5, Zenon DEF MasterCommits, Has
    <2>4. \A j \in Pos : \A k \in 1 .. Len(link'[j]) : Has(link[j], link'[j][k]) \/ link'[j][k] = m
      <3>1. \A j \in Pos : \A k \in 1 .. Len(link[j]) : Has(link[j], link[j][k])
        BY Zenon DEF Has
      <3>2. \A j \in Pos : \A k \in 1 .. Len(Append(link[j], m)) :
               Has(link[j], Append(link[j], m)[k]) \/ Append(link[j], m)[k] = m
        BY <1>2, <1>4, WireParts, Zenon
      <3>. QED  BY <1>2, <1>5, <3>1, <3>2, Zenon
    <2>. QED  BY <1>3, <2>1, <2>2, <2>3, <2>4, OneQueue, Zenon
  <1>11. relinq' \in {relinq, NoData}
    BY <1>2
  <1>. QED  BY <1>2, <1>8, <1>9, <1>10, <1>11, KeptReplicas, KeptViews, Zenon DEF StepEffect

\* A client inquires: the entry is read only from now on.
LEMMA InquiryStep ==
    ASSUME TypeInv, MasterCommits, NEW i \in Pos, NEW w \in Wids, GetOpStatus(i, w)
    PROVE  StepEffect
  <1>1. PICK ws, now, e, t :
           /\ ws = wid[i][w]
           /\ now = IF ws.status # "busy" THEN ws
                    ELSE IF st[i] = "stable"
                    THEN [ws EXCEPT !.status = IF ws.end <= Len(data[i]) THEN "ok" ELSE "bad"]
                    ELSE IF i > 1 THEN Settled(ws, mcommit[i]) ELSE ws
           /\ e = [now EXCEPT !.ro = TRUE]
           /\ t = [w |-> w, seq |-> ws.seq, status |-> now.status]
    BY Zenon
  <1>2. /\ wid' = [wid EXCEPT ![i][w] = e] /\ told' = told \cup {t}
        /\ UNCHANGED <<data, commit, mcommit, pend, link, relinq, metasrv>>
    BY <1>1, Zenon DEF GetOpStatus, wires
  <1>3. ws \in WidInfo /\ ws.end \in Nat /\ Len(data[i]) \in Nat
    BY <1>1, WidTypes, PositionTypes, Zenon
  <1>4. /\ now \in WidInfo /\ now.seq = ws.seq /\ now.end = ws.end
        /\ \/ now.status \in {ws.status, "erased"}
           \/ now.status = "ok" /\ Succeeds(i, w)
           \/ now.status = "bad" /\ st[i] = "stable" /\ ws.end > Len(data[i])
    <2>1. CASE now = ws
      BY <1>3, <2>1
    <2>2. CASE st[i] = "stable" /\ ws.end <= Len(data[i]) /\ now = [ws EXCEPT !.status = "ok"]
      <3>1. Succeeds(i, w)
        BY <1>1, <2>2, Zenon DEF Succeeds
      <3>. QED  BY <1>3, <2>2, <3>1 DEF WidInfo
    <2>3. CASE st[i] = "stable" /\ ~(ws.end <= Len(data[i])) /\ now = [ws EXCEPT !.status = "bad"]
      BY <1>3, <2>3 DEF WidInfo
    <2>4. CASE i > 1 /\ now = Settled(ws, mcommit[i])
      <3>1. /\ now \in WidInfo /\ now.seq = ws.seq /\ now.end = ws.end
            /\ now.status = ws.status \/ (now.status = "ok" /\ ws.end <= mcommit[i])
        <4>1. LET s == Settled(wid[i][w], mcommit[i])
              IN  /\ s \in WidInfo /\ s.seq = wid[i][w].seq /\ s.end = wid[i][w].end
                  /\ s.ro = wid[i][w].ro
                  /\ s.status = wid[i][w].status \/ (s.status = "ok" /\ wid[i][w].end <= mcommit[i])
          BY SettledEntry, Zenon
        <4>2. now = Settled(wid[i][w], mcommit[i])
          BY <1>1, <2>4, Zenon
        <4>. QED  BY <1>1, <4>1, <4>2, Zenon
      <3>2. mcommit[i] <= commit[1] /\ mcommit[i] \in Nat /\ commit[1] \in Nat
        BY PosFacts DEF MasterCommits, TypeInv, ClientType, ChainType
      <3>3. ws.end <= mcommit[i] => Succeeds(i, w)
        <4>1. ws.end <= mcommit[i] => ws.end <= commit[1]
          BY <1>3, <3>2
        <4>. QED  BY <1>1, <2>4, <4>1, Zenon DEF Succeeds
      <3>. QED  BY <3>1, <3>3
    <2>. QED  BY <1>1, <2>1, <2>2, <2>3, <2>4, Zenon
  <1>5. e.seq = ws.seq /\ e.end = ws.end /\ e.ro /\ e.status = now.status
    BY <1>1, <1>4 DEF WidInfo
  <1>6. WidEffect /\ wid'[i][w] = e
    <2>1. /\ e.seq = wid[i][w].seq /\ e.end = wid[i][w].end
          /\ \/ e.status \in {wid[i][w].status, "erased"}
             \/ e.status = "ok" /\ Succeeds(i, w)
             \/ e.status = "bad" /\ st[i] = "stable" /\ wid[i][w].end > Len(data[i])
      BY <1>1, <1>4, <1>5
    <2>. QED  BY <1>2, <1>5, <2>1, OneWid, Zenon
  <1>7. ToldEffect
    <2>1. t.w = w /\ t.seq = ws.seq /\ t.status = now.status
      BY <1>1
    <2>. QED  BY <1>2, <1>5, <1>6, <2>1 DEF ToldEffect
  <1>8. VariantEffect
    BY <1>2 DEF VariantEffect, metasrv
  <1>. QED  BY <1>2, <1>6, <1>7, <1>8, KeptReplicas, KeptQueues, Zenon DEF StepEffect

\* What AppendBegin does to the write ids: with mc, the master's commit offset,
\* and ws, the entry settled with it.
TakesWid(i, m, mc, ws, ok) ==
    /\ Takes(i, m, ok)
    /\ mcommit' = mcommit \/ mcommit' = [mcommit EXCEPT ![i] = mc]
    /\ ok /\ m.kind = "append" =>
          /\ ~ws.ro
          /\ wid' = [wid EXCEPT ![i][m.w] =
                        [ws EXCEPT !.status = "busy", !.seq = m.seq, !.end = m.off + 1]]
    /\ ~(ok /\ m.kind = "append") => wid' = wid \/
          (m.kind = "append" /\ wid' = [wid EXCEPT ![i][m.w] = ws])
    /\ told' = told

\* That is what it does.
LEMMA AppendBeginWids ==
    ASSUME TypeInv, NEW i \in Pos, AppendBegin(i)
    PROVE  \E b, m, mc, ws : \E ok \in BOOLEAN :
              /\ b = i - 1 /\ m = Head(link[i - 1]) /\ mc = NewMasterCommit(i, m.mc)
              /\ ws = Settled(wid[i][m.w], mc)
              /\ TakesWid(i, m, mc, ws, ok)
  <1>0. PICK b, m, mc, ws : /\ b = i - 1 /\ m = Head(link[i - 1]) /\ mc = NewMasterCommit(i, m.mc)
                            /\ ws = Settled(wid[i][m.w], mc)
    BY Zenon
  <1>. DEFINE may == st[i] = "open" /\ \A k \in DOMAIN pend[i] : pend[i][k].ok
              inOrder == m.off = Len(data[i])
              known == m.kind = "ack" \/ wid[i][m.w].status # "erased"
  <1>1. PICK corrupt \in BOOLEAN :
           LET ok == may /\ known /\ inOrder
                     /\ (m.kind = "append" => ws.status = "ok" /\ ~ws.ro /\ ~corrupt)
           IN  /\ link' = [link EXCEPT ![i - 1] = Tail(@)]
               /\ pend' = [pend EXCEPT ![i] = Append(@, [op |-> m, ok |-> ok])]
               /\ st' = [st EXCEPT ![i] = IF may /\ known /\ ~inOrder THEN "failed" ELSE @]
               /\ mcommit' = [mcommit EXCEPT ![i] = IF may /\ known /\ inOrder THEN mc ELSE @]
               /\ wid' = IF m.kind = "ack" \/ ~(may /\ known /\ inOrder) THEN wid
                         ELSE [wid EXCEPT ![i][m.w] =
                                 IF ok THEN [ws EXCEPT !.status = "busy", !.seq = m.seq,
                                                       !.end = m.off + 1]
                                 ELSE ws]
               /\ data' = IF ok /\ m.kind = "append"
                          THEN [data EXCEPT ![i] = Append(@, <<m.w, m.seq>>)] ELSE data
               /\ UNCHANGED <<commit, flight, reply, acked, told, relinq, metasrv>>
    BY <1>0, Zenon DEF AppendBegin
  <1>. DEFINE ok == may /\ known /\ inOrder
                    /\ (m.kind = "append" => ws.status = "ok" /\ ~ws.ro /\ ~corrupt)
  <1>2. ok \in BOOLEAN
    OBVIOUS
  <1>3. m.kind = "append" \/ m.kind = "ack"
    <2>1. m.kind \in {"append", "ack"}
      BY <1>0, Zenon DEF AppendBegin
    <2>. QED  BY <2>1
  <1>4. m.kind = "append" => m.kind # "ack"
    OBVIOUS
  <1>5. st' = st \/ (~ok /\ st[i] = "open" /\ st' = [st EXCEPT ![i] = "failed"])
    <2>1. CASE may /\ known /\ ~inOrder
      BY <1>1, <2>1, Zenon
    <2>2. CASE ~(may /\ known /\ ~inOrder)
      BY <1>1, <2>2, Zenon DEF TypeInv, ChainType
    <2>. QED  BY <2>1, <2>2
  <1>6. mcommit' = mcommit \/ mcommit' = [mcommit EXCEPT ![i] = mc]
    <2>1. CASE may /\ known /\ inOrder
      BY <1>1, <2>1, Zenon
    <2>2. CASE ~(may /\ known /\ inOrder)
      BY <1>1, <2>2, Zenon DEF TypeInv, ClientType
    <2>. QED  BY <2>1, <2>2
  <1>7. ok /\ m.kind = "append" =>
           /\ ~ws.ro
           /\ wid' = [wid EXCEPT ![i][m.w] =
                         [ws EXCEPT !.status = "busy", !.seq = m.seq, !.end = m.off + 1]]
    BY <1>1, <1>4, Zenon
  <1>8. ~(ok /\ m.kind = "append") => wid' = wid \/
           (m.kind = "append" /\ wid' = [wid EXCEPT ![i][m.w] = ws])
    BY <1>1, <1>3, Zenon
  <1>9. Takes(i, m, ok)
    BY <1>1, <1>5, Zenon DEF Takes
  <1>10. told' = told
    BY <1>1, Zenon
  <1>. HIDE DEF ok, may, known, inOrder
  <1>11. TakesWid(i, m, mc, ws, ok)
    BY <1>6, <1>7, <1>8, <1>9, <1>10, Zenon DEF TakesWid
  <1>. QED  BY <1>0, <1>2, <1>11, Zenon

\* A slave takes an append or a commit ack off the wire.
LEMMA TakesStep ==
    ASSUME TypeInv, TypeInv', MasterCommits, NEW i \in Pos, AppendBegin(i)
    PROVE  StepEffect
  <1>0. PICK b, m, mc, ws : \E ok \in BOOLEAN :
              /\ b = i - 1 /\ m = Head(link[i - 1]) /\ mc = NewMasterCommit(i, m.mc)
              /\ ws = Settled(wid[i][m.w], mc)
              /\ TakesWid(i, m, mc, ws, ok)
    BY AppendBeginWids, Zenon
  <1>1. /\ b = i - 1 /\ m = Head(link[i - 1]) /\ mc = NewMasterCommit(i, m.mc)
        /\ ws = Settled(wid[i][m.w], mc)
    BY <1>0, Zenon
  <1>2. b \in Pos /\ i > 1 /\ link[b] # <<>> /\ m = Head(link[b]) /\ m \in Ops
    BY <1>1, AppendBeginFacts, Zenon
  <1>3. PICK ok \in BOOLEAN :
              /\ Takes(i, m, ok)
              /\ mcommit' = mcommit \/ mcommit' = [mcommit EXCEPT ![i] = mc]
              /\ ok /\ m.kind = "append" =>
                    /\ ~ws.ro
                    /\ wid' = [wid EXCEPT ![i][m.w] =
                                  [ws EXCEPT !.status = "busy", !.seq = m.seq, !.end = m.off + 1]]
              /\ ~(ok /\ m.kind = "append") => wid' = wid \/
                    (m.kind = "append" /\ wid' = [wid EXCEPT ![i][m.w] = ws])
              /\ told' = told
    BY <1>0, Zenon DEF TakesWid
  <1>4. /\ link[b] \in Seq(Ops) /\ pend[i] \in Seq(Statuses) /\ data[i] \in Seq(Record)
        /\ Len(data[i]) \in Nat
    BY <1>2, PositionTypes, Zenon
  <1>5. Has(link[b], m) /\ \A k \in 1 .. Len(Tail(link[b])) : Has(link[b], Tail(link[b])[k])
    BY <1>2, <1>4, WireParts, Zenon
  <1>6. mc <= commit[1] /\ m.mc <= commit[1] /\ mc \in Int
    <2>1. mc <= commit[1]
      BY <1>1, <1>2, <1>5, HeardCommit, Zenon
    <2>2. m.mc <= commit[1]
      BY <1>2, <1>5, Zenon DEF MasterCommits, Has
    <2>3. mc \in Int
      BY <1>1, <1>2 DEF NewMasterCommit, TypeInv, ClientType, Ops, OpT
    <2>. QED  BY <2>1, <2>2, <2>3
  <1>7. App(m) => /\ m.w \in Wids /\ ws \in WidInfo /\ ws.seq = wid[i][m.w].seq
                  /\ ws.end = wid[i][m.w].end /\ ws.ro = wid[i][m.w].ro
                  /\ ws.status = wid[i][m.w].status \/ (ws.status = "ok" /\ wid[i][m.w].end <= mc)
    <2>. SUFFICES ASSUME App(m)
                  PROVE  /\ m.w \in Wids /\ ws \in WidInfo /\ ws.seq = wid[i][m.w].seq
                         /\ ws.end = wid[i][m.w].end /\ ws.ro = wid[i][m.w].ro
                         /\ \/ ws.status = wid[i][m.w].status
                            \/ ws.status = "ok" /\ wid[i][m.w].end <= mc
      OBVIOUS
    <2>1. m.w \in Wids
      BY <1>2 DEF Ops, App
    <2>2. PICK w \in Wids : w = m.w
      BY <2>1, Zenon
    <2>3. LET s == Settled(wid[i][w], mc)
          IN  /\ s \in WidInfo /\ s.seq = wid[i][w].seq /\ s.end = wid[i][w].end
              /\ s.ro = wid[i][w].ro
              /\ s.status = wid[i][w].status \/ (s.status = "ok" /\ wid[i][w].end <= mc)
      BY SettledEntry, Zenon
    <2>4. ws = Settled(wid[i][w], mc)
      BY <1>1, <2>2, Zenon
    <2>. QED  BY <2>2, <2>3, <2>4, Zenon
  <1>8. /\ pend' = [pend EXCEPT ![i] = Append(pend[i], [op |-> m, ok |-> ok])]
        /\ link' = [link EXCEPT ![b] = Tail(link[b])]
        /\ ok => st[i] = "open" /\ m.off = Len(data[i])
        /\ data' = IF ok /\ m.kind = "append"
                   THEN [data EXCEPT ![i] = Append(data[i], <<m.w, m.seq>>)] ELSE data
        /\ UNCHANGED <<commit, relinq, metasrv>>
    BY <1>1, <1>3, Zenon DEF Takes
  <1>9. ASSUME ok, App(m) PROVE WidEffect /\ ReplicaEffect /\ m.seq = wid'[i][m.w].seq
    <2>1. PICK e, r : e = [ws EXCEPT !.status = "busy", !.seq = m.seq, !.end = m.off + 1]
                      /\ r = <<m.w, m.seq>>
      BY Zenon
    <2>2. e.status = "busy" /\ e.seq = m.seq /\ e.end = m.off + 1
      BY <1>7, <1>9, <2>1 DEF WidInfo
    <2>3. wid' = [wid EXCEPT ![i][m.w] = e] /\ wid \in [Pos -> [Wids -> WidInfo]]
      BY <1>3, <1>9, <2>1, Zenon DEF App, TypeInv, ClientType
    <2>4. /\ wid'[i][m.w] = e
          /\ \A j \in Pos, v \in Wids : j # i \/ v # m.w => wid'[j][v] = wid[j][v]
      BY <1>7, <1>9, <2>3
    <2>5. r \in Record
      BY <1>2, <1>9, <2>1 DEF Ops, App, Record
    <2>6. data' = [data EXCEPT ![i] = Append(data[i], r)]
      BY <1>8, <1>9, <2>1, Zenon DEF App
    <2>7. data'[i] = Append(data[i], r) /\ \A j \in Pos : j # i => data'[j] = data[j]
      BY <2>6, Zenon DEF TypeInv, ChainType
    <2>8. Len(data'[i]) = Len(data[i]) + 1 /\ Len(data[i]) <= Len(data'[i])
      BY <1>4, <2>5, <2>7, AppendFacts
    <2>9. Accepts(i, m.w)
      <3>1. Len(data'[i]) = m.off + 1
        BY <1>8, <1>9, <2>8, Zenon
      <3>2. ~wid[i][m.w].ro
        BY <1>3, <1>7, <1>9, Zenon DEF App
      <3>. QED  BY <1>1, <1>2, <1>5, <1>8, <1>9, <2>2, <2>4, <3>1, <3>2, Zenon DEF Accepts, Open
    <2>10. WidEffect
      <3>1. ASSUME NEW j \in Pos, NEW v \in Wids, j # i \/ v # m.w PROVE WidStep(j, v)
        <4>1. wid'[j][v] = wid[j][v]
          BY <2>4, <3>1, Zenon
        <4>2. wid'[j][v].status \in {wid[j][v].status, "erased"}
          BY <4>1
        <4>. QED  BY <4>1, <4>2, Zenon DEF WidStep, Seqno
      <3>. QED  BY <2>9, <3>1, Zenon DEF WidEffect, WidStep
    <2>11. ReplicaEffect
      <3>1. ASSUME NEW k \in 1 .. Len(data'[i])
            PROVE  In(data[i], k, data'[i][k]) \/ \E w \in Wids : data'[i][k] = <<w, wid'[i][w].seq>>
        <4>1. (k \in 1 .. Len(data[i]) /\ data'[i][k] = data[i][k]) \/ data'[i][k] = r
          BY <1>4, <2>5, <2>7, AppendFacts
        <4>2. r = <<m.w, wid'[i][m.w].seq>> /\ m.w \in Wids
          BY <1>7, <1>9, <2>1, <2>2, <2>4, Zenon
        <4>. QED  BY <4>1, <4>2, Zenon DEF In
      <3>2. \A j \in Pos : Len(data[j]) <= Len(data[j])
        BY PositionTypes
      <3>3. ASSUME NEW j \in Pos, j # i
            PROVE  /\ \A k \in 1 .. Len(data'[j]) : In(data[j], k, data'[j][k])
                   /\ Len(data[j]) <= Len(data'[j])
        BY <2>7, <3>2, <3>3, Zenon DEF In
      <3>4. ASSUME NEW j \in Pos, NEW k \in 1 .. Len(data'[j])
            PROVE  In(data[j], k, data'[j][k]) \/ \E w \in Wids : data'[j][k] = <<w, wid'[j][w].seq>>
        <4>1. CASE j = i
          BY <3>1, <4>1, Zenon
        <4>2. CASE j # i
          BY <3>3, <4>2, Zenon
        <4>. QED  BY <4>1, <4>2
      <3>5. \A j \in Pos : Len(data[j]) <= Len(data'[j])
        BY <2>8, <3>3, Zenon
      <3>. QED  BY <1>8, <3>4, <3>5, Zenon DEF ReplicaEffect
    <2>12. m.seq = wid'[i][m.w].seq
      BY <2>2, <2>4, Zenon
    <2>. QED  BY <2>10, <2>11, <2>12
  <1>10. ASSUME ~(ok /\ App(m)) PROVE WidEffect /\ ReplicaEffect
    <2>1. data' = data
      BY <1>8, <1>10, Zenon DEF App
    <2>2. CASE wid' = wid
      BY <1>8, <1>10, <2>1, <2>2, KeptWids, KeptReplicas, Zenon
    <2>3. CASE App(m) /\ wid' = [wid EXCEPT ![i][m.w] = ws]
      <3>1. wid[i][m.w].end <= mc => Succeeds(i, m.w)
        <4>1. wid[i][m.w].end \in Nat /\ commit[1] \in Nat
          BY <1>7, <2>3, PosFacts, WidTypes, PositionTypes, Zenon
        <4>2. wid[i][m.w].end <= mc => wid[i][m.w].end <= commit[1]
          BY <1>6, <4>1
        <4>. QED  BY <1>2, <4>2, Zenon DEF Succeeds
      <3>2. ws.status \in {wid[i][m.w].status, "erased"} \/ (ws.status = "ok" /\ Succeeds(i, m.w))
        BY <1>7, <2>3, <3>1
      <3>3. WidEffect
        BY <1>7, <2>3, <3>2, OneWid, Zenon
      <3>. QED  BY <1>8, <1>10, <2>1, <3>3, KeptReplicas, Zenon
    <2>. QED  BY <1>3, <1>10, <2>2, <2>3, Zenon DEF App
  <1>11. QueueEffect
    <2>1. PICK s : s = [op |-> m, ok |-> ok]
      BY Zenon
    <2>2. s \in Statuses /\ s.op = m /\ s.ok = ok
      BY <1>2, <2>1 DEF Statuses
    <2>3. \A j \in Pos : mcommit'[j] <= commit[1]
      <3>1. \A j \in Pos : mcommit'[j] = mcommit[j] \/ mcommit'[j] = mc
        BY <1>3, Zenon DEF TypeInv, ClientType
      <3>. QED  BY <1>6, <3>1, Zenon DEF MasterCommits
    <2>4. \A j \in Pos : \A k \in 1 .. Len(pend'[j]) :
             (\E l \in 1 .. Len(pend[j]) : pend[j][l] = pend'[j][k]) \/ (j = i /\ pend'[j][k] = s)
      <3>1. \A j \in Pos : pend'[j] = pend[j] \/ (j = i /\ pend'[j] = Append(pend[j], s))
        BY <1>8, <2>1, Zenon DEF TypeInv, ChainType
      <3>2. \A k \in 1 .. Len(Append(pend[i], s)) :
               (\E l \in 1 .. Len(pend[i]) : pend[i][l] = Append(pend[i], s)[k])
               \/ Append(pend[i], s)[k] = s
        BY <1>4, <2>2, WireParts, Zenon
      <3>. QED  BY <3>1, <3>2, Zenon
    <2>5. \A j \in Pos : \A k \in 1 .. Len(link'[j]) : Has(link[j], link'[j][k])
      <3>1. \A j \in Pos : link'[j] = link[j] \/ (j = b /\ link'[j] = Tail(link[j]))
        BY <1>8, Zenon DEF TypeInv, ChainType
      <3>2. \A j \in Pos : \A k \in 1 .. Len(link[j]) : Has(link[j], link[j][k])
        BY Zenon DEF Has
      <3>. QED  BY <1>5, <3>1, <3>2, Zenon
    <2>6. ASSUME NEW j \in Pos, NEW k \in 1 .. Len(pend'[j]), j = i, pend'[j][k] = s
          PROVE  /\ pend'[j][k].op.mc <= commit[1]
                 /\ pend'[j][k].ok /\ App(pend'[j][k].op) =>
                       pend'[j][k].op.seq = wid'[j][pend'[j][k].op.w].seq
      <3>1. pend'[j][k].op = m /\ pend'[j][k].ok = ok
        BY <2>2, <2>6, Zenon
      <3>. QED  BY <1>6, <1>9, <1>10, <2>6, <3>1, Zenon
    <2>. QED  BY <2>3, <2>4, <2>5, <2>6, OneQueue, Zenon
  <1>12. relinq' \in {relinq, NoData}
    BY <1>8
  <1>13. VariantEffect /\ ToldEffect
    BY <1>3, <1>8, <1>12, KeptViews, Zenon
  <1>. QED  BY <1>9, <1>10, <1>11, <1>13, Zenon DEF StepEffect

\* A queue is run.
LEMMA RunStep ==
    ASSUME TypeInv, ChainInv, CommitEffect, MasterCommits, NEW i \in Pos, RunPendingSubmitQueue(i)
    PROVE  StepEffect
  <1>1. PICK good \in 0 .. Len(pend[i]), sent, refused \in Seq(Ops) :
             /\ Runs(i, good, sent, refused)
             /\ Len(sent) = good
             /\ \A k \in 1 .. good : Stamped(i, sent[k], pend[i][k])
    BY RunFacts
  <1>2. UNCHANGED <<mcommit, told, metasrv>>
    BY Zenon DEF RunPendingSubmitQueue
  <1>3. /\ pend[i] \in Seq(Statuses) /\ Len(pend[i]) \in Nat /\ link[i] \in Seq(Ops)
        /\ commit[1] <= commit[1] /\ PendKnown(pend[i])
    <2>1. pend[i] \in Seq(Statuses) /\ commit[1] \in Nat
      BY PosFacts, PositionTypes, Zenon
    <2>2. Len(pend[i]) \in Nat /\ commit[1] <= commit[1]
      BY <2>1
    <2>. QED  BY <2>1, <2>2, PositionTypes, StateKnown, Zenon
  <1>4. \A k \in 1 .. Len(sent) :
           /\ k \in 1 .. Len(pend[i]) /\ Stamped(i, sent[k], pend[i][k])
           /\ pend[i][k].ok /\ st[i] = "open"
    <2>1. \A k \in 1 .. Len(sent) : k \in 1 .. Len(pend[i]) /\ k \in 1 .. good
      BY <1>1, <1>3
    <2>2. CASE st[i] = "open"
      <3>1. \A k \in 1 .. good : pend[i][k].ok
        BY <1>1, <2>2, Zenon DEF Runs
      <3>. QED  BY <1>1, <2>1, <2>2, <3>1, Zenon
    <2>3. CASE st[i] # "open"
      <3>1. good = 0
        BY <1>1, <2>3, Zenon DEF Runs
      <3>2. \A k : ~(k \in 1 .. Len(sent))
        BY <1>1, <3>1
      <3>. QED  BY <3>2, Zenon
    <2>. QED  BY <2>2, <2>3
  <1>5. \A k \in 1 .. Len(sent) : sent[k].mc <= commit[1]
    <2>. TAKE k \in 1 .. Len(sent)
    <2>1. pend[i][k].op.mc <= commit[1]
      BY <1>4, Zenon DEF MasterCommits
    <2>. QED  BY <1>3, <1>4, <2>1, Zenon DEF Stamped
  <1>6. WidEffect
    <2>1. CASE i < N
      BY <1>1, <2>1, KeptWids, Zenon DEF Runs
    <2>2. CASE ~(i < N)
      <3>1. CommitOps(i, sent)
        BY <1>1, <2>2, Zenon DEF Runs
      <3>2. ASSUME i = 1, NEW k \in AppendsOf(sent)
            PROVE  Known(sent[k]) /\ commit[1] <= sent[k].off
        <4>1. k \in 1 .. Len(sent) /\ App(sent[k])
          BY DEF AppendsOf, App
        <4>2. /\ k \in 1 .. Len(pend[1]) /\ Stamped(1, sent[k], pend[1][k])
              /\ pend[1][k].ok /\ Open(1)
          BY <1>4, <3>2, <4>1, Zenon DEF Open
        <4>3. OkApp(pend[1][k]) /\ Known(pend[1][k].op)
          BY <1>3, <3>2, <4>1, <4>2, Zenon DEF OkApp, App, Stamped, PendKnown
        <4>4. commit[1] <= pend[1][k].op.off
          BY <4>2, <4>3, PosFacts, Zenon DEF ChainInv, Local, OrderedOk
        <4>. QED  BY <4>2, <4>3, <4>4, Zenon DEF Stamped, Known, App
      <3>. QED  BY <3>1, <3>2, CommitWids, Zenon
    <2>. QED  BY <2>1, <2>2
  <1>7. \A j \in Pos : mcommit'[j] <= commit[1]
    BY <1>2, Zenon DEF MasterCommits
  <1>8. \A j \in Pos : \A k \in 1 .. Len(pend'[j]) :
           \E l \in 1 .. Len(pend[j]) : pend[j][l] = pend'[j][k]
    <2>1. \A j \in Pos : pend'[j] = pend[j] \/ pend'[j] = <<>>
      BY <1>1, Zenon DEF Runs, TypeInv, ChainType
    <2>2. \A k : ~(k \in 1 .. Len(<<>>))
      OBVIOUS
    <2>. QED  BY <2>1, <2>2, Zenon
  <1>9. ASSUME NEW j \in Pos, NEW k \in 1 .. Len(link'[j])
        PROVE  \/ Has(link[j], link'[j][k])
               \/ /\ link'[j][k].mc <= commit[1]
                  /\ \E l \in 1 .. Len(pend[j]) :
                        pend[j][l].ok /\ Stamped(j, link'[j][k], pend[j][l])
    <2>1. link'[j] = link[j] \/ (j = i /\ link'[j] = link[i] \o sent)
      <3>1. CASE i < N
        BY <1>1, <3>1, Zenon DEF Runs, TypeInv, ChainType
      <3>2. CASE ~(i < N)
        BY <1>1, <3>2, Zenon DEF Runs
      <3>. QED  BY <3>1, <3>2
    <2>2. CASE link'[j] = link[j]
      BY <2>2, Zenon DEF Has
    <2>3. CASE j = i /\ link'[j] = link[i] \o sent
      <3>1. k \in 1 .. Len(link[i] \o sent)
        BY <2>3, Zenon
      <3>2. Has(link[i], (link[i] \o sent)[k]) \/ \E l \in 1 .. Len(sent) : (link[i] \o sent)[k] = sent[l]
        BY <1>3, <3>1, WireParts, Zenon
      <3>. QED  BY <1>4, <1>5, <2>3, <3>2, Zenon
    <2>. QED  BY <2>1, <2>2, <2>3
  <1>10. QueueEffect
    BY <1>7, <1>8, <1>9, OneQueue, Zenon
  <1>11. (st[i] = "open" /\ SetFailed(i)) \/ KeepState
    BY <1>1, Zenon DEF Runs
  <1>. QED  BY <1>2, <1>6, <1>10, <1>11, OutcomeReplicas, KeptViews, Zenon DEF StepEffect

\* A reply of the successor arrives.
LEMMA OpDoneStep ==
    ASSUME TypeInv, ChainInv, CommitEffect, MasterCommits, NEW i \in Pos, OpDone(i)
    PROVE  StepEffect
  <1>1. UNCHANGED <<mcommit, pend, link, told, metasrv>>
    BY Zenon DEF OpDone
  <1>2. (st[i] = "open" /\ SetFailed(i)) \/ KeepState
    BY Zenon DEF OpDone
  <1>3. \/ wid' = wid
        \/ st[i] = "open" /\ \E k \in DOMAIN flight[i] : CommitOps(i, <<flight[i][k]>>)
    BY Zenon DEF OpDone
  <1>4. ASSUME NEW k \in DOMAIN flight[i], st[i] = "open", CommitOps(i, <<flight[i][k]>>)
        PROVE  WidEffect
    <2>1. flight[i] \in Seq(Ops) /\ AllKnown(flight[i])
      BY PositionTypes, StateKnown, Zenon
    <2>2. k \in 1 .. Len(flight[i]) /\ flight[i][k] \in Ops
      BY <2>1, SequenceDomain, OpOffsets, Zenon
    <2>3. PICK ops : ops = <<flight[i][k]>>
      BY Zenon
    <2>4. ops \in Seq(Ops) /\ Len(ops) = 1 /\ ops[1] = flight[i][k]
      BY <2>2, <2>3
    <2>5. ASSUME i = 1, NEW n \in AppendsOf(ops) PROVE Known(ops[n]) /\ commit[1] <= ops[n].off
      <3>1. n \in 1 .. Len(ops) /\ App(ops[n])
        BY DEF AppendsOf, App
      <3>2. n = 1
        BY <2>4, <3>1
      <3>3. ops[n] = flight[1][k] /\ k \in 1 .. Len(flight[1]) /\ App(flight[1][k]) /\ Open(1)
        BY <1>4, <2>2, <2>4, <2>5, <3>1, <3>2, Zenon DEF Open
      <3>4. commit[1] <= flight[1][k].off
        BY <3>3, PosFacts, Zenon DEF ChainInv, Local, Ordered
      <3>5. Known(flight[1][k])
        BY <2>1, <2>5, <3>3, Zenon DEF AllKnown
      <3>. QED  BY <3>3, <3>4, <3>5, Zenon
    <2>. QED  BY <1>4, <2>3, <2>4, <2>5, CommitWids, Zenon
  <1>5. WidEffect
    BY <1>3, <1>4, KeptWids, Zenon
  <1>. QED  BY <1>1, <1>2, <1>5, KeptQueues, OutcomeReplicas, KeptViews, Zenon DEF StepEffect

\* A connection breaks.
LEMMA PeerFailedStep ==
    ASSUME TypeInv, ChainInv, CommitEffect, MasterCommits, NEW i \in Pos, PeerFailed(i)
    PROVE  StepEffect
  <1>1. /\ UNCHANGED <<mcommit, wid, pend, told, metasrv>>
        /\ (st[i] = "open" /\ SetFailed(i)) \/ KeepState
    BY Zenon DEF PeerFailed
  <1>2. PICK n \in 0 .. Len(link[i]) : link' = [link EXCEPT ![i] = SubSeq(link[i], 1, n)]
    BY Zenon DEF PeerFailed
  <1>3. link[i] \in Seq(Ops) /\ n \in Nat /\ n <= Len(link[i])
    <2>1. link[i] \in Seq(Ops)
      BY PositionTypes, Zenon
    <2>. QED  BY <2>1
  <1>4. ASSUME NEW j \in Pos, NEW k \in 1 .. Len(link'[j]) PROVE Has(link[j], link'[j][k])
    <2>1. link'[j] = link[j] \/ (j = i /\ link'[j] = SubSeq(link[i], 1, n))
      BY <1>2, Zenon DEF TypeInv, ChainType
    <2>2. \A l \in 1 .. Len(SubSeq(link[i], 1, n)) : Has(link[i], SubSeq(link[i], 1, n)[l])
      BY <1>3, WireParts, Zenon
    <2>3. CASE link'[j] = link[j]
      BY <2>3, Zenon DEF Has
    <2>. QED  BY <2>1, <2>2, <2>3, Zenon
  <1>5. /\ \A j \in Pos : mcommit'[j] <= commit[1]
        /\ \A j \in Pos : \A k \in 1 .. Len(pend'[j]) :
              \E l \in 1 .. Len(pend[j]) : pend[j][l] = pend'[j][k]
    BY <1>1, Zenon DEF MasterCommits
  <1>6. QueueEffect
    BY <1>4, <1>5, OneQueue, Zenon
  <1>. QED  BY <1>1, <1>6, KeptWids, OutcomeReplicas, KeptViews, Zenon DEF StepEffect

-----------------------------------------------------------------------------
(* The inductive invariant, and the theorem.                               *)

WidInv ==
    /\ NotedEnds /\ SeqOrder /\ Accepted /\ CommittedSeq /\ VariantSeq
    /\ MasterCommits /\ OneAtATime /\ StatusHeld /\ ToldHeld

\* A step other than a client's append, on the write ids and the answers.
LEMMA StepEffects ==
    ASSUME TypeInv, TypeInv', ChainInv, Decided, CommitEffect, MasterCommits, [Next]_vars,
           ~\E w \in Wids : ClientAppend(w)
    PROVE  StepEffect
  <1>1. ASSUME \/ UNCHANGED vars \/ LeaseClerkExpires
               \/ BeginMakeChunkStable \/ BeginMakeChunkStableDone \/ LeaseRelinquish
        PROVE  StepEffect
    BY <1>1, MetaSteps, Zenon
  <1>2. ASSUME \/ LeaseExpired \/ TryToCloseChunk
               \/ \E i \in Pos : ReplicationTimeout(i) \/ \E w \in Wids : InvalidateWriteId(i, w)
        PROVE  StepEffect
    BY <1>2, FailSteps, Zenon
  <1>3. ASSUME NEW i \in Pos, Lose(i) \/ BeginMakeStable(i) \/ MakeChunkStable(i)
        PROVE  StepEffect
    BY <1>3, MakeStableSteps, Zenon
  <1>4. ASSUME SendCommitAck \/ \E w \in Wids : CloseChunk(w)
        PROVE  StepEffect
    BY <1>4, CommitAckStep, CloseStep, Zenon
  <1>5. ASSUME NEW i \in Pos, CloseForwarded(i) \/ \E w \in Wids : GetOpStatus(i, w)
        PROVE  StepEffect
    BY <1>5, CloseForwardedStep, InquiryStep, Zenon
  <1>6. ASSUME NEW i \in Pos,
               AppendBegin(i) \/ RunPendingSubmitQueue(i) \/ OpDone(i) \/ PeerFailed(i)
        PROVE  StepEffect
    BY <1>6, TakesStep, RunStep, OpDoneStep, PeerFailedStep, Zenon
  <1>. QED  BY <1>1, <1>2, <1>3, <1>4, <1>5, <1>6, Zenon DEF Next

\* Such a step keeps the invariant of the write ids.
LEMMA EffectsKeep ==
    ASSUME TypeInv, TypeInv', ChainInv, ChainInv', StableIsChosen, AckedHeld', WidInv,
           DataEffect, WireEffect, CommitEffect, DecisionEffect, StepEffect
    PROVE  WidInv'
  <1>1. /\ NotedEnds /\ SeqOrder /\ Accepted /\ CommittedSeq /\ VariantSeq
        /\ MasterCommits /\ OneAtATime /\ StatusHeld /\ ToldHeld
    BY Zenon DEF WidInv
  <1>2. WidEffect /\ ReplicaEffect /\ QueueEffect /\ VariantEffect /\ ToldEffect
    BY Zenon DEF StepEffect
  <1>3. SeqOrder' /\ \A k, r : Hist(k, r)' => Hist(k, r)
    BY <1>1, <1>2, SeqOrderKept, Zenon
  <1>4. NotedEnds'
    BY <1>1, <1>2, NotedEndsKept, Zenon
  <1>5. Accepted'
    BY <1>1, <1>2, AcceptedKept, Zenon
  <1>6. CommittedSeq'
    BY <1>1, <1>2, <1>3, <1>5, CommittedKept, Zenon
  <1>7. VariantSeq'
    BY <1>1, <1>2, VariantKept, Zenon
  <1>8. MasterCommits'
    BY <1>2, MasterCommitsKept, Zenon
  <1>9. OneAtATime'
    BY <1>1, <1>2, <1>3, OneAtATimeKept, Zenon
  <1>10. StatusHeld'
    BY <1>1, <1>2, StatusKept, Zenon
  <1>11. ToldHeld'
    BY <1>1, <1>2, <1>10, ToldKept, Zenon
  <1>. QED  BY <1>3, <1>4, <1>5, <1>6, <1>7, <1>8, <1>9, <1>10, <1>11, Zenon DEF WidInv
=============================================================================
