--------------------- MODULE RecordAppendChainProofs ------------------------
(***************************************************************************)
(* The replication chain of RecordAppend, for every chain length: every    *)
(* step keeps ChainInv, so what a participant has committed, everyone      *)
(* further down has committed.                                             *)
(*                                                                         *)
(* Order adds the order in which ops travel.  What a position forwards     *)
(* reaches its successor one offset after the other (LinkOrder); what it   *)
(* has and the successor has not is on the wire or in its queue            *)
(* (PendOrder); commit acks and their replies never overtake an append     *)
(* (ReplyOrder, LastAcks), and say no more than what the master has        *)
(* committed (AckBound).                                                   *)
(***************************************************************************)
EXTENDS RecordAppendProofs

-----------------------------------------------------------------------------
(* What the operations on sequences do to these orders.                    *)

\* Appends put behind the ones in flight.
LEMMA OrderedConcat ==
    ASSUME NEW f \in Seq(Ops), NEW s \in Seq(Ops), NEW c \in Nat, NEW d \in Nat,
           Ordered(f, c, d), Ordered(s, c, d),
           \A j \in 1 .. Len(f), k \in 1 .. Len(s) : App(f[j]) /\ App(s[k]) => f[j].off < s[k].off
    PROVE  Ordered(f \o s, c, d)
  <1>. DEFINE t == f \o s
  <1>1. Len(f) \in Nat /\ Len(s) \in Nat /\ Len(t) = Len(f) + Len(s)
    BY ConcatFacts
  <1>2. \A k \in 1 .. Len(t) : k <= Len(f) => k \in 1 .. Len(f) /\ t[k] = f[k]
    BY <1>1, ConcatFacts
  <1>3. \A k \in 1 .. Len(t) : ~(k <= Len(f)) => k - Len(f) \in 1 .. Len(s) /\ t[k] = s[k - Len(f)]
    BY <1>1, ConcatFacts
  <1>. HIDE DEF t
  <1>. SUFFICES Ordered(t, c, d)
    BY DEF t
  <1>4. \A k \in 1 .. Len(t) : App(t[k]) => c <= t[k].off /\ t[k].off < d
    BY <1>2, <1>3, Zenon DEF Ordered
  <1>5. ASSUME NEW j \in 1 .. Len(t), NEW k \in 1 .. Len(t), j < k, App(t[j]), App(t[k])
        PROVE  t[j].off < t[k].off
    <2>1. CASE k <= Len(f)
      <3>1. j <= Len(f)
        BY <1>1, <1>5, <2>1
      <3>. QED  BY <1>2, <1>5, <2>1, <3>1, Zenon DEF Ordered
    <2>2. CASE j <= Len(f) /\ ~(k <= Len(f))
      BY <1>2, <1>3, <1>5, <2>2, Zenon
    <2>3. CASE ~(j <= Len(f))
      <3>1. ~(k <= Len(f)) /\ j - Len(f) < k - Len(f)
        BY <1>1, <1>5, <2>3
      <3>. QED  BY <1>3, <1>5, <2>3, <3>1, Zenon DEF Ordered
    <2>. QED  BY <2>1, <2>2, <2>3, Zenon
  <1>. QED  BY <1>4, <1>5, Zenon DEF Ordered

\* An op leaves; if it was the append at c, the rest starts at c + 1.
LEMMA OrderedWithout ==
    ASSUME NEW f \in Seq(Ops), NEW c \in Nat, NEW d \in Nat, Ordered(f, c, d),
           NEW k \in 1 .. Len(f)
    PROVE  /\ Ordered(Without(f, k), c, d)
           /\ App(f[k]) /\ f[k].off = c => Ordered(Without(f, k), c + 1, d)
           /\ \A o : Has(Without(f, k), o) => Has(f, o)
           /\ \A o : Has(f, o) /\ o # f[k] => Has(Without(f, k), o)
  <1>. DEFINE t == Without(f, k)
  <1>1. /\ t \in Seq(Ops) /\ Len(t) = Len(f) - 1
        /\ \A j \in 1 .. Len(f) - 1 : t[j] = IF j < k THEN f[j] ELSE f[j + 1]
    BY WithoutFacts
  <1>. HIDE DEF t
  <1>0. \A j \in 1 .. Len(f) : f[j].off \in Nat
    BY DEF Ops, OpT
  <1>. DEFINE at(j) == IF j < k THEN j ELSE j + 1
  <1>6. /\ \A j \in 1 .. Len(t) : at(j) \in 1 .. Len(f) /\ at(j) # k /\ t[j] = f[at(j)]
        /\ \A j, m \in 1 .. Len(t) : j < m => at(j) < at(m)
    BY <1>1
  <1>. HIDE DEF at
  <1>2. Ordered(t, c, d)
    BY <1>6, Zenon DEF Ordered
  <1>3. ASSUME App(f[k]), f[k].off = c PROVE Ordered(t, c + 1, d)
    <2>1. ASSUME NEW j \in 1 .. Len(f), App(f[j]), j # k PROVE c + 1 <= f[j].off /\ f[j].off < d
      <3>1. c <= f[j].off /\ f[j].off < d
        BY <2>1, Zenon DEF Ordered
      <3>2. f[j].off # c
        <4>1. CASE j < k
          BY <1>0, <1>3, <2>1, <4>1 DEF Ordered
        <4>2. CASE k < j
          BY <1>0, <1>3, <2>1, <4>2 DEF Ordered
        <4>. QED  BY <2>1, <4>1, <4>2
      <3>. QED  BY <1>0, <3>1, <3>2
    <2>2. \A j \in 1 .. Len(t) : App(t[j]) => c + 1 <= t[j].off /\ t[j].off < d
      BY <1>6, <2>1, Zenon
    <2>. QED  BY <1>2, <2>2, Zenon DEF Ordered
  <1>4. ASSUME NEW o, Has(t, o) PROVE Has(f, o)
    BY <1>1, <1>4 DEF Has
  <1>5. ASSUME NEW o, Has(f, o), o # f[k] PROVE Has(t, o)
    <2>1. PICK j \in 1 .. Len(f) : f[j] = o
      BY <1>5 DEF Has
    <2>2. CASE j < k
      BY <1>1, <2>1, <2>2 DEF Has
    <2>3. CASE j > k
      <3>1. j - 1 \in 1 .. Len(t) /\ t[j - 1] = o
        BY <1>1, <2>1, <2>3
      <3>. QED  BY <3>1 DEF Has
    <2>. QED  BY <1>5, <2>1, <2>2, <2>3
  <1>. QED  BY <1>2, <1>3, <1>4, <1>5 DEF t

\* Room at the end may grow, and at the start be unused.
LEMMA OrderedWider ==
    ASSUME NEW c \in Nat, NEW d \in Nat, NEW b \in Nat, NEW e \in Nat, b <= c, d <= e
    PROVE  /\ \A f \in Seq(Ops) : Ordered(f, c, d) => Ordered(f, b, e)
           /\ \A q \in Seq(Statuses) : OrderedOk(q, c, d) => OrderedOk(q, b, e)
  <1>1. ASSUME NEW f \in Seq(Ops), Ordered(f, c, d) PROVE Ordered(f, b, e)
    <2>1. \A k \in 1 .. Len(f) : f[k].off \in Nat
      BY DEF Ops, OpT
    <2>. QED  BY <1>1, <2>1 DEF Ordered
  <1>2. ASSUME NEW q \in Seq(Statuses), OrderedOk(q, c, d) PROVE OrderedOk(q, b, e)
    <2>1. \A k \in 1 .. Len(q) : q[k].op.off \in Nat
      BY StatusFacts DEF Ops, OpT
    <2>. QED  BY <1>2, <2>1 DEF OrderedOk
  <1>. QED  BY <1>1, <1>2

\* Tail is the removal of the first element.
LEMMA TailIsWithout ==
    ASSUME NEW S, NEW s \in Seq(S), s # <<>>
    PROVE  Tail(s) = Without(s, 1) /\ 1 \in 1 .. Len(s) /\ Head(s) = s[1]
  <1>1. /\ Tail(s) \in Seq(S) /\ Len(Tail(s)) = Len(s) - 1 /\ 1 \in 1 .. Len(s)
        /\ \A k \in 1 .. Len(s) - 1 : Tail(s)[k] = s[k + 1]
    BY TailFacts
  <1>2. /\ Without(s, 1) \in Seq(S) /\ Len(Without(s, 1)) = Len(s) - 1
        /\ \A k \in 1 .. Len(s) - 1 : Without(s, 1)[k] = s[k + 1]
    <2>1. /\ Without(s, 1) \in Seq(S) /\ Len(Without(s, 1)) = Len(s) - 1
          /\ \A k \in 1 .. Len(s) - 1 : Without(s, 1)[k] = IF k < 1 THEN s[k] ELSE s[k + 1]
      BY <1>1, WithoutFacts, Zenon
    <2>. QED  BY <2>1
  <1>. QED  BY <1>1, <1>2, TailFacts

\* Append is concatenation with one element.
LEMMA AppendIsConcat ==
    ASSUME NEW S, NEW s \in Seq(S), NEW e \in S
    PROVE  Append(s, e) = s \o <<e>> /\ <<e>> \in Seq(S) /\ Len(<<e>>) = 1 /\ <<e>>[1] = e
  OBVIOUS

\* Replies put behind the ones on the wire: their successful appends start
\* where the others end.
LEMMA OkConcat ==
    ASSUME NEW q \in Seq(Statuses), NEW r \in Seq(Statuses),
           NEW c \in Nat, NEW d \in Nat, NEW e \in Nat, c <= d, d <= e,
           OrderedOk(q, c, d), OrderedOk(r, d, e)
    PROVE  /\ OrderedOk(q \o r, c, e)
           /\ Covers(q, c, d) /\ Covers(r, d, e) => Covers(q \o r, c, e)
           /\ \A f : OkIn(q, f) /\ OkIn(r, f) => OkIn(q \o r, f)
  <1>. DEFINE t == q \o r
  <1>1. Len(q) \in Nat /\ Len(r) \in Nat /\ Len(t) = Len(q) + Len(r)
    BY ConcatFacts
  <1>2. \A k \in 1 .. Len(t) : k <= Len(q) => k \in 1 .. Len(q) /\ t[k] = q[k]
    BY <1>1, ConcatFacts
  <1>3. \A k \in 1 .. Len(t) : ~(k <= Len(q)) => k - Len(q) \in 1 .. Len(r) /\ t[k] = r[k - Len(q)]
    BY <1>1, ConcatFacts
  <1>4. \A k \in 1 .. Len(q) : k \in 1 .. Len(t) /\ t[k] = q[k]
    BY <1>1, ConcatFacts
  <1>5. \A k \in 1 .. Len(r) : Len(q) + k \in 1 .. Len(t) /\ t[Len(q) + k] = r[k]
    BY <1>1, ConcatFacts
  <1>6. /\ \A k \in 1 .. Len(q) : q[k].op.off \in Nat
        /\ \A k \in 1 .. Len(r) : r[k].op.off \in Nat
    BY StatusFacts DEF Ops, OpT
  <1>. HIDE DEF t
  <1>7. OrderedOk(t, c, e)
    <2>1. /\ \A k \in 1 .. Len(q) : OkApp(q[k]) => c <= q[k].op.off /\ q[k].op.off < e
          /\ \A k \in 1 .. Len(r) : OkApp(r[k]) => c <= r[k].op.off /\ r[k].op.off < e
      BY <1>6 DEF OrderedOk
    <2>2. \A k \in 1 .. Len(t) : OkApp(t[k]) => c <= t[k].op.off /\ t[k].op.off < e
      BY <1>2, <1>3, <2>1, Zenon
    <2>3. ASSUME NEW j \in 1 .. Len(t), NEW k \in 1 .. Len(t), j < k, OkApp(t[j]), OkApp(t[k])
          PROVE  t[j].op.off < t[k].op.off
      <3>1. CASE k <= Len(q)
        <4>1. j <= Len(q)
          BY <1>1, <2>3, <3>1
        <4>. QED  BY <1>2, <2>3, <3>1, <4>1, Zenon DEF OrderedOk
      <3>2. CASE j <= Len(q) /\ ~(k <= Len(q))
        <4>1. PICK a \in 1 .. Len(q), b \in 1 .. Len(r) : t[j] = q[a] /\ t[k] = r[b]
          BY <1>2, <1>3, <2>3, <3>2, Zenon
        <4>2. q[a].op.off < d /\ d <= r[b].op.off
          BY <2>3, <4>1, Zenon DEF OrderedOk
        <4>. QED  BY <1>6, <4>1, <4>2
      <3>3. CASE ~(j <= Len(q))
        <4>1. ~(k <= Len(q)) /\ j - Len(q) < k - Len(q)
          BY <1>1, <2>3, <3>3
        <4>. QED  BY <1>3, <2>3, <3>3, <4>1, Zenon DEF OrderedOk
      <3>. QED  BY <3>1, <3>2, <3>3, Zenon
    <2>. QED  BY <2>2, <2>3, Zenon DEF OrderedOk
  <1>8. ASSUME Covers(q, c, d), Covers(r, d, e) PROVE Covers(t, c, e)
    <2>. SUFFICES ASSUME NEW o \in c .. e - 1
                  PROVE  \E k \in 1 .. Len(t) : OkApp(t[k]) /\ t[k].op.off = o
      BY DEF Covers
    <2>1. CASE o < d
      <3>1. o \in c .. d - 1
        BY <2>1
      <3>. QED  BY <1>4, <1>8, <3>1, Zenon DEF Covers
    <2>2. CASE ~(o < d)
      <3>1. o \in d .. e - 1
        BY <2>2
      <3>2. PICK k \in 1 .. Len(r) : OkApp(r[k]) /\ r[k].op.off = o
        BY <1>8, <3>1, Zenon DEF Covers
      <3>. QED  BY <1>5, <3>2
    <2>. QED  BY <2>1, <2>2
  <1>9. \A f : OkIn(q, f) /\ OkIn(r, f) => OkIn(t, f)
    BY <1>2, <1>3, Zenon DEF OkIn
  <1>. QED  BY <1>7, <1>8, <1>9 DEF t

\* An op is begun: an accepted append is put at d, the end of the replica.
LEMMA PendAppend ==
    ASSUME NEW q \in Seq(Statuses), NEW a \in Statuses, NEW c \in Nat, NEW d \in Nat, c <= d,
           OrderedOk(q, c, d), OkFirst(q), a.ok => \A k \in 1 .. Len(q) : q[k].ok,
           OkApp(a) => a.op.off = d
    PROVE  LET t == Append(q, a)
               e == IF OkApp(a) THEN d + 1 ELSE d
           IN  /\ OrderedOk(t, c, e) /\ OkFirst(t)
               /\ Covers(q, c, d) => Covers(t, c, e)
               /\ \A f : OkIn(q, f) /\ (OkApp(a) => Has(f, a.op)) => OkIn(t, f)
               /\ \A f : /\ Before(f, q)
                         /\ OkApp(a) => \A j \in 1 .. Len(f) : App(f[j]) => f[j].off < d
                         => Before(f, t)
  <1>. DEFINE t == Append(q, a)
              e == IF OkApp(a) THEN d + 1 ELSE d
  <1>1. /\ t = q \o <<a>> /\ <<a>> \in Seq(Statuses) /\ Len(<<a>>) = 1 /\ <<a>>[1] = a
    BY AppendIsConcat
  <1>2. PICK r \in Seq(Statuses) : r = <<a>> /\ Len(r) = 1 /\ r[1] = a /\ t = q \o r
    BY <1>1, Zenon
  <1>3. a.op.off \in Nat /\ e \in Nat /\ d <= e
    BY DEF Statuses, Ops, OpT
  <1>4. \A k \in 1 .. Len(r) : r[k] = a /\ k = 1
    BY <1>2
  <1>5. OrderedOk(r, d, e)
    <2>1. \A j, k \in 1 .. Len(r) : ~(j < k)
      BY <1>4
    <2>2. OkApp(a) => d <= a.op.off /\ a.op.off < e
      BY <1>3
    <2>. QED  BY <1>4, <2>1, <2>2, Zenon DEF OrderedOk
  <1>6. Covers(r, d, e)
    <2>1. \A o \in d .. e - 1 : OkApp(a) /\ o = d
      BY <1>3
    <2>2. 1 \in 1 .. Len(r)
      BY <1>2
    <2>. QED  BY <1>2, <2>1, <2>2, Zenon DEF Covers
  <1>7. \A f : (OkApp(a) => Has(f, a.op)) => OkIn(r, f)
    BY <1>4, Zenon DEF OkIn
  <1>8. /\ Len(t) = Len(q) + 1 /\ Len(q) \in Nat
        /\ \A k \in 1 .. Len(t) : (k \in 1 .. Len(q) /\ t[k] = q[k]) \/ (k = Len(q) + 1 /\ t[k] = a)
    BY AppendFacts
  <1>. HIDE DEF t, e
  <1>9. OkFirst(t)
    <2>. SUFFICES ASSUME NEW j \in 1 .. Len(t), NEW k \in 1 .. Len(t), j < k, t[k].ok
                  PROVE  t[j].ok
      BY DEF OkFirst
    <2>1. j \in 1 .. Len(q) /\ t[j] = q[j]
      BY <1>8
    <2>. QED  BY <1>8, <2>1, Zenon DEF OkFirst
  <1>10. ASSUME NEW f, Before(f, q),
                OkApp(a) => \A j \in 1 .. Len(f) : App(f[j]) => f[j].off < d
         PROVE  Before(f, t)
    BY <1>8, <1>10, Zenon DEF Before
  <1>11. /\ OrderedOk(t, c, e)
         /\ Covers(q, c, d) => Covers(t, c, e)
         /\ \A f : OkIn(q, f) /\ (OkApp(a) => Has(f, a.op)) => OkIn(t, f)
    BY <1>2, <1>3, <1>5, <1>6, <1>7, OkConcat, Zenon
  <1>. QED  BY <1>9, <1>10, <1>11, Zenon DEF t, e

-----------------------------------------------------------------------------
(* The invariant of the chain.                                             *)

\* An offset past a bound is past the next one.
LEMMA Bounds == \A x, y \in Nat : x < y => x + 1 <= y
  OBVIOUS

\* Bounds on offsets are transitive.
LEMMA Transitive ==
    ASSUME NEW x \in Nat, NEW y \in Nat, NEW z \in Nat, x <= y, y <= z
    PROVE  x <= z
  OBVIOUS

\* A step of position a leaves the others alone, except for the wires to and
\* from its predecessor.
Elsewhere(a) ==
    /\ \A j \in Pos : j # a => /\ st'[j] = st[j] /\ data'[j] = data[j] /\ commit'[j] = commit[j]
                              /\ pend'[j] = pend[j] /\ flight'[j] = flight[j]
    /\ \A j \in Pos : j # a /\ j # a - 1 => link'[j] = link[j] /\ reply'[j] = reply[j]

\* So only the position and its two edges have to be looked at.
LEMMA ChainFrame ==
    ASSUME ChainInv, NEW a \in Pos, Elsewhere(a),
           Commits', Local(a)', a < N => Edge(a)', a > 1 => Edge(a - 1)', a = N => LastWaits'
    PROVE  ChainInv'
  <1>1. ASSUME NEW i \in Pos, i # a PROVE Local(i)'
    BY <1>1, Zenon DEF ChainInv, Local, Elsewhere, Open
  <1>2. ASSUME NEW i \in Pos, i < N, i # a, i # a - 1 PROVE Edge(i)'
    <2>1. i + 1 \in Pos /\ i + 1 # a
      BY <1>2, ChainAssumption DEF Pos
    <2>. QED  BY <1>2, <2>1, Zenon DEF ChainInv, Edge, Elsewhere, Open
  <1>3. ASSUME a # N PROVE LastWaits'
    BY <1>3, PosFacts, Zenon DEF ChainInv, LastWaits, Elsewhere, Open
  <1>4. \A i \in Pos : i < N => Edge(i)'
    <2>1. ASSUME NEW i \in Pos, i < N, i = a - 1 PROVE a > 1
      BY <2>1, ChainAssumption DEF Pos
    <2>. QED  BY <1>2, <2>1, Zenon
  <1>. QED  BY <1>1, <1>3, <1>4, Zenon DEF ChainInv

\* A status that reports no success.
NoneOk(r) == \A k \in 1 .. Len(r) : ~r[k].ok

\* Failed replies behind the ones on the wire change nothing.
LEMMA NoneOkConcat ==
    ASSUME NEW q \in Seq(Statuses), NEW r \in Seq(Statuses), NoneOk(r),
           NEW c \in Nat, NEW d \in Nat, c <= d, OrderedOk(q, c, d), Covers(q, c, d)
    PROVE  /\ OrderedOk(q \o r, c, d) /\ Covers(q \o r, c, d)
           /\ \A f : OkIn(q, f) => OkIn(q \o r, f)
  <1>1. \A k \in 1 .. Len(r) : ~OkApp(r[k])
    BY Zenon DEF NoneOk, OkApp
  <1>2. OrderedOk(r, d, d) /\ \A f : OkIn(r, f)
    BY <1>1, Zenon DEF OrderedOk, OkIn
  <1>3. Covers(r, d, d)
    BY DEF Covers
  <1>4. d <= d
    OBVIOUS
  <1>. QED  BY <1>2, <1>3, <1>4, OkConcat, Zenon

\* Position a is not open afterwards: its predecessor learns of failures only.
LEMMA ChainFails ==
    ASSUME TypeInv, TypeInv', ChainInv, NEW a \in Pos, Elsewhere(a), commit' = commit,
           st'[a] # "open", Len(data'[a]) <= Len(data[a]),
           st'[a] # "stable" \/ a = 1 => commit[a] <= Len(data'[a]),
           flight'[a] = flight[a] \/ flight'[a] = <<>> \/ a # N,
           pend'[a] = pend[a] \/ pend'[a] = <<>> \/ a # 1,
           a > 1 => \/ reply'[a - 1] = reply[a - 1]
                    \/ \E r \in Seq(Statuses) : NoneOk(r) /\ reply'[a - 1] = reply[a - 1] \o r
    PROVE  ChainInv'
  <1>1. Commits'
    <2>1. \A i \in Pos : st'[i] # "stable" \/ i = 1 => commit'[i] <= Len(data'[i])
      BY Zenon DEF ChainInv, Commits, Elsewhere
    <2>2. flight'[N] = <<>>
      BY PosFacts, Zenon DEF ChainInv, Commits, Elsewhere
    <2>3. \A k \in 1 .. Len(pend'[1]) : pend'[1][k].ok
      <3>1. CASE pend'[1] = pend[1]
        BY <3>1, Zenon DEF ChainInv, Commits
      <3>2. CASE pend'[1] = <<>>
        BY <3>2
      <3>. QED  BY <3>1, <3>2, PosFacts DEF Elsewhere
    <2>. QED  BY <2>1, <2>2, <2>3, Zenon DEF ChainInv, Commits
  <1>2. Local(a)' /\ Edge(a)' /\ (a = N => LastWaits')
    BY Zenon DEF Local, Edge, LastWaits, Open
  <1>3. ASSUME a > 1 PROVE Edge(a - 1)'
    <2>. DEFINE b == a - 1
    <2>1. b \in Pos /\ b # a /\ b + 1 = a /\ b < N /\ b <= a
      BY <1>3, Neighbours, Zenon
    <2>. HIDE DEF b
    <2>2. /\ reply[b] \in Seq(Statuses) /\ commit[b] \in Nat /\ commit[a] \in Nat
          /\ Len(data[a]) \in Nat /\ Len(data[b]) \in Nat /\ commit[b] <= commit[a]
      BY <2>1, PositionTypes, Zenon DEF ChainInv, Commits
    <2>0. Len(data'[a]) \in Nat
      BY DEF TypeInv, ChainType
    <2>3. ASSUME Open(b) PROVE /\ Len(data'[a]) <= Len(data'[b])
                               /\ OrderedOk(reply'[b], commit'[b], commit'[a])
                               /\ Covers(reply'[b], commit'[b], commit'[a])
                               /\ OkIn(reply'[b], flight'[b])
      <3>1. /\ Len(data[a]) <= Len(data[b]) /\ OrderedOk(reply[b], commit[b], commit[a])
            /\ Covers(reply[b], commit[b], commit[a]) /\ OkIn(reply[b], flight[b])
        BY <2>1, <2>3, Zenon DEF ChainInv, Edge
      <3>2. Len(data'[a]) <= Len(data'[b])
        BY <2>0, <2>1, <2>2, <3>1 DEF Elsewhere
      <3>3. flight'[b] = flight[b] /\ commit'[b] = commit[b] /\ commit'[a] = commit[a]
        BY <2>1, Zenon DEF Elsewhere
      <3>4. CASE reply'[b] = reply[b]
        BY <3>1, <3>2, <3>3, <3>4, Zenon
      <3>5. ASSUME NEW r \in Seq(Statuses), NoneOk(r), reply'[b] = reply[b] \o r
            PROVE  /\ OrderedOk(reply'[b], commit[b], commit[a])
                   /\ Covers(reply'[b], commit[b], commit[a]) /\ OkIn(reply'[b], flight[b])
        BY <2>2, <3>1, <3>5, NoneOkConcat, Zenon
      <3>. QED  BY <1>3, <3>2, <3>3, <3>4, <3>5, Zenon DEF b
    <2>4. Open(b)' <=> Open(b)
      BY <2>1 DEF Elsewhere, Open
    <2>5. ~Open(a)'
      BY DEF Open
    <2>6. Edge(b)'
      BY <2>1, <2>3, <2>4, <2>5, Zenon DEF Edge
    <2>. QED  BY <2>6 DEF b
  <1>. QED  BY <1>1, <1>2, <1>3, ChainFrame, Zenon

\* Nothing of the chain changes.
LEMMA ChainKept ==
    ASSUME ChainInv, UNCHANGED <<st, data, commit, wires>>
    PROVE  ChainInv'
  <1>1. UNCHANGED <<pend, flight, link, reply>>
    BY DEF wires
  <1>. QED  BY <1>1 DEF ChainInv, Commits, Local, Edge, LastWaits, Open

\* A position fails, and nothing else happens.
LEMMA ChainSetFailed ==
    ASSUME TypeInv, TypeInv', ChainInv, NEW i \in Pos, st[i] = "open", SetFailed(i),
           UNCHANGED <<commit, wires>>
    PROVE  ChainInv'
  <1>1. UNCHANGED <<commit, pend, flight, link, reply>>
    BY DEF wires
  <1>2. Elsewhere(i)
    BY <1>1, SetFailedFacts, Zenon DEF Elsewhere
  <1>. QED  BY <1>1, <1>2, SetFailedFacts, ChainFails, Zenon

\* A replica is lost, or made stable: only st and data of position i change.
LEMMA ChainOneReplica ==
    ASSUME TypeInv, TypeInv', ChainInv, NEW i \in Pos, NEW s \in States, NEW d \in Seq(Record),
           st' = [st EXCEPT ![i] = s], data' = [data EXCEPT ![i] = d], UNCHANGED <<commit, wires>>,
           s # "open", Len(d) <= Len(data[i]), s # "stable" \/ i = 1 => commit[i] <= Len(d)
    PROVE  ChainInv'
  <1>1. UNCHANGED <<commit, pend, flight, link, reply>>
    BY DEF wires
  <1>2. /\ st'[i] = s /\ data'[i] = d
        /\ \A j \in Pos : j # i => st'[j] = st[j] /\ data'[j] = data[j]
    BY DEF TypeInv, ChainType
  <1>3. Elsewhere(i)
    BY <1>1, <1>2, Zenon DEF Elsewhere
  <1>. QED  BY <1>1, <1>2, <1>3, ChainFails, Zenon

\* An open position answers for its whole replica or for what it committed.
LEMMA ChainMakeStable ==
    ASSUME TypeInv, TypeInv', ChainInv, NEW i \in Pos,
           \/ Lose(i) \/ BeginMakeStable(i)
           \/ MakeChunkStable(i) /\ (i = 1 => commit[1] <= Len(decision))
    PROVE  ChainInv'
  <1>0. /\ data[i] \in Seq(Record) /\ Len(data[i]) \in Nat /\ commit[i] \in Nat
        /\ st[i] # "stable" => commit[i] <= Len(data[i])
    BY PositionTypes, Zenon DEF ChainInv, Commits
  <1>1. CASE Lose(i)
    <2>1. st[i] # "stable" /\ st' = [st EXCEPT ![i] = "lost"] /\ UNCHANGED <<data, commit, wires>>
      BY <1>1 DEF Lose
    <2>2. data' = [data EXCEPT ![i] = data[i]]
      BY <2>1, Zenon DEF TypeInv, ChainType
    <2>3. Len(data[i]) <= Len(data[i]) /\ "lost" \in States /\ "lost" # "open"
      BY <1>0 DEF States
    <2>. QED  BY <1>0, <2>1, <2>2, <2>3, ChainOneReplica, Zenon
  <1>2. CASE BeginMakeStable(i)
    <2>. DEFINE mine == IF commit[i] < Len(data[i]) THEN Trimmed(i) ELSE data[i]
    <2>1. CASE st[i] \in {"open", "failed", "closed"}
      <3>1. /\ st' = [st EXCEPT ![i] = "closed"] /\ data' = [data EXCEPT ![i] = mine]
            /\ UNCHANGED <<commit, wires>>
        BY <1>2, <2>1, Zenon DEF BeginMakeStable
      <3>2. commit[i] <= Len(data[i])
        BY <1>0, <2>1
      <3>3. mine \in Seq(Record) /\ Len(mine) <= Len(data[i]) /\ commit[i] <= Len(mine)
        BY <1>0, <3>2, PrefixFacts DEF Trimmed
      <3>4. "closed" \in States /\ "closed" # "open"
        BY DEF States
      <3>. HIDE DEF mine
      <3>. QED  BY <3>1, <3>3, <3>4, ChainOneReplica, Zenon
    <2>2. CASE ~(st[i] \in {"open", "failed", "closed"})
      BY <1>2, <2>2, ChainKept, Zenon DEF BeginMakeStable
    <2>. QED  BY <2>1, <2>2
  <1>3. CASE MakeChunkStable(i) /\ (i = 1 => commit[1] <= Len(decision))
    <2>. DEFINE cut  == SubSeq(data[i], 1, Len(decision))
                same == Len(decision) <= Len(data[i]) /\ cut = decision
    <2>1. CASE st[i] \in {"open", "failed", "closed"}
      <3>1. /\ st' = [st EXCEPT ![i] = IF same THEN "stable" ELSE "lost"]
            /\ data' = [data EXCEPT ![i] = IF same THEN cut ELSE data[i]]
            /\ UNCHANGED <<commit, wires>>
        BY <1>3, <2>1, Zenon DEF MakeChunkStable
      <3>2. commit[i] <= Len(data[i])
        BY <1>0, <2>1
      <3>3. CASE same
        <4>1. decision \in Seq(Record) /\ decision # NoData
          BY <1>3 DEF MakeChunkStable, TypeInv, MetaType
        <4>2. cut \in Seq(Record) /\ Len(cut) <= Len(data[i]) /\ (i = 1 => commit[i] <= Len(cut))
          BY <1>0, <1>3, <3>3, <4>1, PrefixFacts
        <4>3. "stable" \in States /\ "stable" # "open"
          BY DEF States
        <4>4. st' = [st EXCEPT ![i] = "stable"] /\ data' = [data EXCEPT ![i] = cut]
          BY <3>1, <3>3, Zenon
        <4>. HIDE DEF cut
        <4>. QED  BY <3>1, <4>2, <4>3, <4>4, ChainOneReplica, Zenon
      <3>4. CASE ~same
        <4>1. Len(data[i]) <= Len(data[i]) /\ "lost" \in States /\ "lost" # "open"
          BY <1>0 DEF States
        <4>2. st' = [st EXCEPT ![i] = "lost"] /\ data' = [data EXCEPT ![i] = data[i]]
          BY <3>1, <3>4, Zenon
        <4>. QED  BY <1>0, <3>1, <3>2, <4>1, <4>2, ChainOneReplica, Zenon
      <3>. QED  BY <3>3, <3>4
    <2>2. CASE ~(st[i] \in {"open", "failed", "closed"})
      BY <1>3, <2>2, ChainKept, Zenon DEF MakeChunkStable
    <2>. QED  BY <2>1, <2>2
  <1>. QED  BY <1>1, <1>2, <1>3

-----------------------------------------------------------------------------
(* A position takes an op into its queue.                                  *)

\* Position a takes the op of s: an accepted append makes its replica longer.
Queues(a, s) ==
    /\ pend' = [pend EXCEPT ![a] = Append(pend[a], s)]
    /\ UNCHANGED <<st, commit, flight, reply>>
    /\ \A j \in Pos : j # a => data'[j] = data[j]
    /\ Len(data'[a]) = IF OkApp(s) THEN Len(data[a]) + 1 ELSE Len(data[a])
    /\ \A j \in Pos : j # a - 1 => link'[j] = link[j]

\* What the position itself and the wires to its successor need.
LEMMA ChainQueues ==
    ASSUME TypeInv, ChainInv, NEW a \in Pos, NEW s \in Statuses, Open(a), Queues(a, s),
           a = 1 => s.ok, s.ok => \A k \in 1 .. Len(pend[a]) : pend[a][k].ok,
           OkApp(s) => s.op.off = Len(data[a])
    PROVE  /\ Elsewhere(a) /\ Commits' /\ Local(a)' /\ (a < N => Edge(a)') /\ (a = N => LastWaits')
           /\ pend'[a] = Append(pend[a], s)
  <1>. DEFINE d == Len(data[a])
              e == IF OkApp(s) THEN d + 1 ELSE d
              t == Append(pend[a], s)
  <1>1. /\ pend[a] \in Seq(Statuses) /\ d \in Nat /\ commit[a] \in Nat /\ flight[a] \in Seq(Ops)
        /\ link[a] \in Seq(Ops)
    BY PositionTypes
  <1>2. e \in Nat /\ d <= e /\ e = Len(data'[a])
    BY <1>1 DEF Queues
  <1>3. commit[a] <= d
    BY DEF ChainInv, Commits, Open
  <1>4. /\ Ordered(flight[a], commit[a], d) /\ OrderedOk(pend[a], commit[a], d)
        /\ OkFirst(pend[a]) /\ Before(flight[a], pend[a])
    BY Zenon DEF ChainInv, Local
  <1>5. pend'[a] = t /\ \A j \in Pos : j # a => pend'[j] = pend[j]
    BY DEF Queues, TypeInv, ChainType
  <1>6. \A k \in 1 .. Len(flight[a]) : App(flight[a][k]) => flight[a][k].off < d
    BY <1>4, Zenon DEF Ordered
  <1>. HIDE DEF t, d
  <1>7. ASSUME NEW c \in Nat, c <= d, OrderedOk(pend[a], c, d)
        PROVE  /\ OrderedOk(t, c, e) /\ OkFirst(t) /\ Before(flight[a], t)
               /\ Covers(pend[a], c, d) => Covers(t, c, e)
    <2>1. OkApp(s) => s.op.off = d
      BY DEF d
    <2>. QED  BY <1>1, <1>4, <1>6, <1>7, <2>1, PendAppend, Zenon DEF t
  <1>. HIDE DEF e
  <1>8. Elsewhere(a)
    BY <1>5, Zenon DEF Elsewhere, Queues
  <1>9. Local(a)'
    <2>1. Ordered(flight[a], commit[a], e)
      BY <1>1, <1>2, <1>4, OrderedWider
    <2>. QED  BY <1>2, <1>3, <1>1, <1>4, <1>5, <1>7, <2>1, Zenon DEF Local, Queues, d
  <1>10. Commits'
    <2>1. \A i \in Pos : st'[i] # "stable" \/ i = 1 => commit'[i] <= Len(data'[i])
      <3>1. commit'[a] <= Len(data'[a])
        BY <1>1, <1>2, <1>3 DEF Queues
      <3>. QED  BY <3>1, Zenon DEF Queues, ChainInv, Commits
    <2>2. \A k \in 1 .. Len(pend'[1]) : pend'[1][k].ok
      <3>1. CASE a = 1
        <4>1. /\ Len(t) = Len(pend[a]) + 1 /\ Len(pend[a]) \in Nat /\ t[Len(pend[a]) + 1] = s
              /\ \A k \in 1 .. Len(pend[a]) : t[k] = pend[a][k]
          BY <1>1, AppendFacts DEF t
        <4>2. s.ok /\ \A k \in 1 .. Len(pend[a]) : pend[a][k].ok
          BY <3>1, Zenon
        <4>3. \A k \in 1 .. Len(t) : t[k].ok
          BY <4>1, <4>2
        <4>. QED  BY <1>5, <3>1, <4>3, Zenon
      <3>2. CASE a # 1
        BY <1>5, <3>2, PosFacts, Zenon DEF ChainInv, Commits
      <3>. QED  BY <3>1, <3>2
    <2>. QED  BY <2>1, <2>2, Zenon DEF Queues, ChainInv, Commits
  <1>11. ASSUME a < N PROVE Edge(a)'
    <2>1. a + 1 \in Pos /\ a + 1 # a /\ a # a - 1
      BY <1>11, Neighbours, Zenon
    <2>2. Len(data[a + 1]) \in Nat /\ data'[a + 1] = data[a + 1] /\ Len(data[a + 1]) <= d
      BY <1>11, <2>1, PositionTypes, Zenon DEF ChainInv, Edge, Queues, d
    <2>3. Len(data'[a + 1]) <= Len(data'[a])
      BY <1>1, <1>2, <2>2
    <2>4. ASSUME Open(a + 1)
          PROVE  Ordered(link[a], Len(data[a + 1]), e) /\ OrderedOk(t, Len(data[a + 1]), e)
      <3>1. Ordered(link[a], Len(data[a + 1]), d) /\ OrderedOk(pend[a], Len(data[a + 1]), d)
        BY <1>11, <2>4, Zenon DEF ChainInv, Edge, d
      <3>2. Ordered(link[a], Len(data[a + 1]), e)
        BY <1>1, <1>2, <2>2, <3>1, OrderedWider
      <3>. QED  BY <1>7, <2>2, <3>1, <3>2, Zenon
    <2>5. Open(a + 1)' <=> Open(a + 1)
      BY DEF Open, Queues
    <2>6. link'[a] = link[a] /\ pend'[a + 1] = pend[a + 1]
      BY <1>5, <2>1, Zenon DEF Queues
    <2>. QED  BY <1>2, <1>5, <1>11, <2>2, <2>3, <2>4, <2>5, <2>6, Zenon DEF ChainInv, Edge, Queues
  <1>12. ASSUME a = N PROVE LastWaits'
    BY <1>2, <1>3, <1>1, <1>4, <1>5, <1>7, <1>12, Zenon DEF ChainInv, LastWaits, Queues, d
  <1>. QED  BY <1>5, <1>8, <1>9, <1>10, <1>11, <1>12, Zenon DEF t

\* The master takes a record, or sends a commit ack.
LEMMA MasterQueues ==
    ASSUME TypeInv, SendCommitAck \/ \E w \in Wids : ClientAppend(w)
    PROVE  \E s \in Statuses : Open(1) /\ Queues(1, s) /\ s.ok /\ s.op.off = Len(data[1])
  <1>0. 1 \in Pos /\ data[1] \in Seq(Record)
    BY PosFacts, PositionTypes, Zenon
  <1>1. CASE SendCommitAck
    <2>. DEFINE s == [op |-> AppendOp("ack", NoWid, 0), ok |-> TRUE]
    <2>1. s \in Statuses /\ s.ok /\ ~OkApp(s) /\ s.op.off = Len(data[1])
      BY NewOpType DEF Statuses, OkApp, AppendOp
    <2>2. /\ st[1] = "open" /\ pend' = [pend EXCEPT ![1] = Append(pend[1], s)]
          /\ UNCHANGED <<st, commit, flight, reply, data, link>>
      BY <1>1 DEF SendCommitAck, appender
    <2>. HIDE DEF s
    <2>. QED  BY <2>1, <2>2, Zenon DEF Queues, Open
  <1>2. ASSUME NEW w \in Wids, ClientAppend(w)
        PROVE  \E s \in Statuses : Open(1) /\ Queues(1, s) /\ s.ok /\ s.op.off = Len(data[1])
    <2>. DEFINE n == wid[1][w].seq + 1
                s == [op |-> AppendOp("append", w, n), ok |-> TRUE]
    <2>1. n \in 1 .. MaxOps
      <3>1. wid[1][w] \in WidInfo
        BY <1>0 DEF TypeInv, ClientType
      <3>2. wid[1][w].seq < MaxOps
        BY <1>2, Zenon DEF ClientAppend
      <3>. QED  BY <3>1, <3>2, ChainAssumption DEF WidInfo
    <2>2. s \in Statuses /\ s.ok /\ OkApp(s) /\ s.op.off = Len(data[1])
      BY <2>1, NewOpType DEF Statuses, OkApp, AppendOp
    <2>3. /\ st[1] = "open" /\ pend' = [pend EXCEPT ![1] = Append(pend[1], s)]
          /\ UNCHANGED <<st, commit, flight, reply, link>>
          /\ data' = [data EXCEPT ![1] = Append(data[1], <<w, n>>)]
      BY <1>2, Zenon DEF ClientAppend
    <2>4. <<w, n>> \in Record
      BY <2>1 DEF Record
    <2>. HIDE DEF s, n
    <2>5. Len(Append(data[1], <<w, n>>)) = Len(data[1]) + 1
      BY <1>0, <2>4, AppendFacts
    <2>6. data'[1] = Append(data[1], <<w, n>>) /\ \A j \in Pos : j # 1 => data'[j] = data[j]
      BY <1>0, <2>3, Zenon DEF TypeInv, ChainType
    <2>. QED  BY <2>2, <2>3, <2>5, <2>6, Zenon DEF Queues, Open
  <1>. QED  BY <1>1, <1>2

\* That keeps the chain.
LEMMA ChainMasterTakes ==
    ASSUME TypeInv, ChainInv, SendCommitAck \/ \E w \in Wids : ClientAppend(w)
    PROVE  ChainInv'
  <1>1. 1 \in Pos /\ \A k \in 1 .. Len(pend[1]) : pend[1][k].ok
    BY PosFacts, Zenon DEF ChainInv, Commits
  <1>2. PICK s \in Statuses : Open(1) /\ Queues(1, s) /\ s.ok /\ s.op.off = Len(data[1])
    BY MasterQueues
  <1>3. /\ Elsewhere(1) /\ Commits' /\ Local(1)' /\ (1 < N => Edge(1)') /\ (1 = N => LastWaits')
    BY <1>1, <1>2, ChainQueues, Zenon
  <1>4. ~(1 > 1)
    OBVIOUS
  <1>. QED  BY <1>1, <1>3, <1>4, ChainFrame, Zenon

\* A slave takes the first op off the wire, with status s.
Receives(i, b, s) ==
    /\ i > 1 /\ b = i - 1 /\ b \in Pos /\ b # i /\ b + 1 = i /\ b < N /\ i # 1 /\ i # b
    /\ link[b] # <<>> /\ s.op = Head(link[b])
    /\ link'[b] = Tail(link[b]) /\ \A j \in Pos : j # b => link'[j] = link[j]
    /\ pend' = [pend EXCEPT ![i] = Append(pend[i], s)] /\ UNCHANGED <<commit, flight, reply>>
    /\ s.ok => Open(i) /\ s.op.off = Len(data[i]) /\ \A k \in 1 .. Len(pend[i]) : pend[i][k].ok
    /\ \A j \in Pos : j # i => data'[j] = data[j]
    /\ Len(data'[i]) = IF OkApp(s) THEN Len(data[i]) + 1 ELSE Len(data[i])
    /\ ~s.ok => data' = data
    /\ st' # st => st' = [st EXCEPT ![i] = "failed"] /\ ~s.ok /\ st[i] # "stable"

\* That is what AppendBegin does.
LEMMA TakesQueues ==
    ASSUME TypeInv, NEW i \in Pos, AppendBegin(i)
    PROVE  \E b \in Pos, s \in Statuses : Receives(i, b, s)
  <1>. DEFINE b == i - 1
              m == Head(link[b])
  <1>1. /\ i > 1 /\ b \in Pos /\ b # i /\ b + 1 = i /\ b < N /\ i # 1 /\ i # b /\ link[b] # <<>>
        /\ m \in Ops
    BY AppendBeginFacts, ChainAssumption DEF Pos
  <1>2. PICK ok \in BOOLEAN : Takes(i, m, ok)
    BY AppendBeginFacts, Zenon
  <1>. HIDE DEF b
  <1>3. PICK s : s = [op |-> m, ok |-> ok]
    BY Zenon
  <1>4. s \in Statuses /\ s.op = m /\ s.ok = ok /\ (OkApp(s) <=> ok /\ m.kind = "append")
    BY <1>1, <1>3 DEF Statuses, OkApp
  <1>5. /\ link[b] \in Seq(Ops) /\ pend[i] \in Seq(Statuses) /\ pend[b] \in Seq(Statuses)
        /\ data[i] \in Seq(Record) /\ Len(data[i]) \in Nat /\ Len(data[b]) \in Nat
    BY <1>1, PositionTypes, Zenon
  <1>6. link'[b] = Tail(link[b]) /\ \A j \in Pos : j # b => link'[j] = link[j]
    BY <1>1, <1>2, Zenon DEF Takes, TypeInv, ChainType, b
  <1>7. /\ pend' = [pend EXCEPT ![i] = Append(pend[i], s)] /\ UNCHANGED <<commit, flight, reply>>
        /\ s.ok => st[i] = "open" /\ m.off = Len(data[i])
    BY <1>2, <1>3, <1>4, Zenon DEF Takes
  <1>8. s.ok => \A k \in 1 .. Len(pend[i]) : pend[i][k].ok
    BY <1>2, <1>4, <1>5 DEF Takes
  <1>9. (\A j \in Pos : j # i => data'[j] = data[j])
        /\ Len(data'[i]) = IF OkApp(s) THEN Len(data[i]) + 1 ELSE Len(data[i])
    <2>1. CASE OkApp(s)
      <3>1. <<m.w, m.seq>> \in Record
        BY <1>1, <1>4, <2>1 DEF Ops, Record
      <3>2. data' = [data EXCEPT ![i] = Append(data[i], <<m.w, m.seq>>)]
        BY <1>2, <1>4, <2>1, Zenon DEF Takes
      <3>3. Len(Append(data[i], <<m.w, m.seq>>)) = Len(data[i]) + 1
        BY <1>5, <3>1, AppendFacts
      <3>. HIDE DEF m
      <3>. QED  BY <2>1, <3>2, <3>3, Zenon DEF TypeInv, ChainType
    <2>2. CASE ~OkApp(s)
      <3>1. data' = data
        BY <1>2, <1>4, <2>2, Zenon DEF Takes
      <3>. QED  BY <2>2, <3>1, Zenon
    <2>. QED  BY <2>1, <2>2
  <1>10. st' # st => st' = [st EXCEPT ![i] = "failed"] /\ ~s.ok /\ st[i] # "stable"
    BY <1>2, <1>4, Zenon DEF Takes
  <1>11. ~s.ok => data' = data
    BY <1>2, <1>4, Zenon DEF Takes
  <1>12. s.op = Head(link[b]) /\ b = i - 1
    BY <1>4, Zenon DEF m, b
  <1>. HIDE DEF m
  <1>. QED  BY <1>1, <1>4, <1>6, <1>7, <1>8, <1>9, <1>10, <1>11, <1>12, Zenon DEF Receives, Open

\* It keeps the chain: what matters is the wires from the predecessor.
LEMMA ChainTakes ==
    ASSUME TypeInv, TypeInv', ChainInv, NEW i \in Pos, AppendBegin(i)
    PROVE  ChainInv'
  <1>0. PICK b \in Pos, s \in Statuses : Receives(i, b, s)
    BY TakesQueues
  <1>. DEFINE m == Head(link[b])
  <1>1. /\ i > 1 /\ b \in Pos /\ b # i /\ b + 1 = i /\ b < N /\ i # 1 /\ i # b /\ link[b] # <<>>
        /\ b = i - 1
    BY <1>0, Zenon DEF Receives
  <1>4. s.op = m /\ (OkApp(s) <=> s.ok /\ m.kind = "append")
    BY <1>0, Zenon DEF Receives, OkApp
  <1>5. /\ link[b] \in Seq(Ops) /\ pend[i] \in Seq(Statuses) /\ pend[b] \in Seq(Statuses)
        /\ data[i] \in Seq(Record) /\ Len(data[i]) \in Nat /\ Len(data[b]) \in Nat
        /\ flight[b] \in Seq(Ops)
    BY <1>1, PositionTypes, Zenon
  <1>6. link'[b] = Tail(link[b]) /\ \A j \in Pos : j # b => link'[j] = link[j]
    BY <1>0, Zenon DEF Receives
  <1>7. /\ pend' = [pend EXCEPT ![i] = Append(pend[i], s)] /\ UNCHANGED <<commit, flight, reply>>
        /\ s.ok => st[i] = "open" /\ m.off = Len(data[i])
    BY <1>0, <1>4, Zenon DEF Receives, Open
  <1>8. s.ok => \A k \in 1 .. Len(pend[i]) : pend[i][k].ok
    BY <1>0, Zenon DEF Receives
  <1>9. (\A j \in Pos : j # i => data'[j] = data[j])
        /\ Len(data'[i]) = IF OkApp(s) THEN Len(data[i]) + 1 ELSE Len(data[i])
    BY <1>0, Zenon DEF Receives
  <1>10. CASE st' # st
    <2>1. st' = [st EXCEPT ![i] = "failed"] /\ ~s.ok /\ st[i] # "stable"
      BY <1>0, <1>10, Zenon DEF Receives
    <2>2. st'[i] = "failed" /\ \A j \in Pos : j # i => st'[j] = st[j]
      BY <2>1, Zenon DEF TypeInv, ChainType
    <2>3. data' = data
      BY <1>0, <2>1, Zenon DEF Receives
    <2>4. \A j \in Pos : j # i => pend'[j] = pend[j]
      BY <1>7, Zenon DEF TypeInv, ChainType
    <2>5. Elsewhere(i)
      BY <1>6, <1>7, <2>2, <2>3, <2>4, <1>1, Zenon DEF Elsewhere
    <2>6. Len(data'[i]) <= Len(data[i])
      BY <1>5, <2>3
    <2>7. st[i] # "stable" => commit[i] <= Len(data'[i])
      BY <2>3, Zenon DEF ChainInv, Commits
    <2>. QED  BY <1>1, <1>7, <2>1, <2>2, <2>5, <2>6, <2>7, ChainFails
  <1>11. ASSUME st' = st, ~Open(i) PROVE ChainInv'
    <2>1. ~s.ok /\ data' = data
      BY <1>0, <1>7, <1>11, Zenon DEF Receives, Open
    <2>2. \A j \in Pos : j # i => pend'[j] = pend[j]
      BY <1>7, Zenon DEF TypeInv, ChainType
    <2>3. Elsewhere(i)
      BY <1>6, <1>7, <1>11, <2>1, <2>2, <1>1, Zenon DEF Elsewhere
    <2>4. Len(data'[i]) <= Len(data[i])
      BY <1>5, <2>1
    <2>5. st'[i] # "open" /\ (st'[i] # "stable" => commit[i] <= Len(data'[i]))
      BY <1>11, <2>1, Zenon DEF ChainInv, Commits, Open
    <2>. QED  BY <1>1, <1>7, <2>3, <2>4, <2>5, ChainFails
  <1>. HIDE DEF m
  <1>12. ASSUME st' = st, Open(i) PROVE ChainInv'
    <2>1. Queues(i, s)
      BY <1>6, <1>7, <1>9, <1>12, <1>1, Zenon DEF Queues
    <2>2. OkApp(s) => s.op.off = Len(data[i])
      BY <1>4, <1>7, Zenon
    <2>3. /\ Elsewhere(i) /\ Commits' /\ Local(i)' /\ (i < N => Edge(i)') /\ (i = N => LastWaits')
          /\ pend'[i] = Append(pend[i], s)
      BY <1>1, <1>4, <1>8, <1>12, <2>1, <2>2, ChainQueues, Zenon
    <2>4. Edge(b)'
      <3>1. (Open(b)' <=> Open(b)) /\ Open(i)' /\ data'[b] = data[b] /\ pend'[b] = pend[b]
        BY <1>1, <1>12, <2>3, Zenon DEF Open, Elsewhere
      <3>. SUFFICES ASSUME Open(b) PROVE Edge(b)'
        BY <3>1, Zenon DEF Edge
      <3>. DEFINE c == Len(data[i])
                  e == Len(data[b])
                  c1 == Len(data'[i])
      <3>2. /\ Ordered(link[b], c, e) /\ AppsIn(link[b], flight[b])
            /\ OrderedOk(pend[b], c, e) /\ AppsIn(flight[i], flight[b]) /\ OkIn(pend[i], flight[b])
            /\ OrderedOk(reply[b], commit[b], commit[i]) /\ Covers(reply[b], commit[b], commit[i])
            /\ OkIn(reply[b], flight[b]) /\ c <= e
        BY <1>1, <1>12, Zenon DEF ChainInv, Edge
      <3>3. Before(flight[b], pend[b])
        BY <1>1, Zenon DEF ChainInv, Local
      <3>4. /\ link'[b] = Without(link[b], 1) /\ m = link[b][1] /\ 1 \in 1 .. Len(link[b])
        BY <1>1, <1>5, <1>6, TailIsWithout, Zenon DEF m
      <3>5. App(m) => c <= m.off /\ m.off < e /\ Has(flight[b], m)
        BY <3>2, <3>4, Zenon DEF Ordered, AppsIn
      <3>6. OkApp(s) => App(m) /\ m.off = c
        BY <1>4, <2>2, Zenon DEF App, OkApp
      <3>7. c \in Nat /\ e \in Nat /\ c1 = (IF OkApp(s) THEN c + 1 ELSE c)
        BY <1>5, <1>9, Zenon
      <3>8. c1 <= e /\ c1 \in Nat
        BY <3>2, <3>5, <3>6, <3>7
      <3>. HIDE DEF c, e, c1
      <3>9. Ordered(link'[b], c1, e)
        <4>1. /\ Ordered(Without(link[b], 1), c, e)
              /\ App(link[b][1]) /\ link[b][1].off = c => Ordered(Without(link[b], 1), c + 1, e)
          BY <1>5, <3>2, <3>4, <3>7, OrderedWithout, Zenon
        <4>. QED  BY <3>4, <3>6, <3>7, <4>1, Zenon
      <3>10. AppsIn(link'[b], flight[b])
        <4>1. \A o : Has(link'[b], o) => Has(link[b], o)
          BY <1>5, <3>2, <3>4, <3>7, OrderedWithout, Zenon
        <4>2. ASSUME NEW k \in 1 .. Len(link'[b]), App(link'[b][k]) PROVE Has(flight[b], link'[b][k])
          <5>1. PICK j \in 1 .. Len(link[b]) : link[b][j] = link'[b][k]
            BY <4>1, Zenon DEF Has
          <5>. QED  BY <3>2, <4>2, <5>1, Zenon DEF AppsIn
        <4>. QED  BY <4>2, Zenon DEF AppsIn
      <3>11. OrderedOk(pend[b], c1, e)
        <4>1. ASSUME OkApp(s), NEW k \in 1 .. Len(pend[b]), OkApp(pend[b][k])
              PROVE  c + 1 <= pend[b][k].op.off
          <5>1. PICK j \in 1 .. Len(flight[b]) : flight[b][j] = m
            BY <3>5, <3>6, <4>1 DEF Has
          <5>2. m.off < pend[b][k].op.off
            BY <3>3, <3>6, <4>1, <5>1, Zenon DEF Before
          <5>3. pend[b][k].op.off \in Nat
            BY <1>5, OpOffsets, Zenon
          <5>. QED  BY <3>6, <3>7, <4>1, <5>2, <5>3, Bounds, Zenon
        <4>. QED  BY <3>2, <3>7, <4>1, Zenon DEF OrderedOk
      <3>12. OkIn(pend'[i], flight[b])
        <4>1. OkApp(s) => Has(flight[b], s.op)
          BY <1>4, <3>5, <3>6, Zenon
        <4>2. /\ Len(pend'[i]) = Len(pend[i]) + 1 /\ Len(pend[i]) \in Nat
              /\ \A k \in 1 .. Len(pend[i]) : pend'[i][k] = pend[i][k]
              /\ pend'[i][Len(pend[i]) + 1] = s
          BY <1>4, <1>5, <2>3, AppendFacts
        <4>3. \A k \in 1 .. Len(pend'[i]) : k \in 1 .. Len(pend[i]) \/ pend'[i][k] = s
          BY <4>2
        <4>. QED  BY <3>2, <4>1, <4>2, <4>3, Zenon DEF OkIn
      <3>. QED  BY <1>1, <1>7, <3>1, <3>2, <3>8, <3>9, <3>10, <3>11, <3>12, Zenon DEF Edge, c1, e
    <2>. QED  BY <1>1, <2>3, <2>4, ChainFrame, Zenon
  <1>. QED  BY <1>10, <1>11, <1>12, Zenon

\* Closes come and go on the wires: the chain is not concerned.
LEMMA ChainCloses ==
    ASSUME TypeInv, ChainInv, (\E w \in Wids : CloseChunk(w)) \/ (\E i \in Pos : CloseForwarded(i))
    PROVE  ChainInv'
  <1>. DEFINE Moves(f, g) == \/ g = f
                             \/ f # <<>> /\ g = Tail(f)
                             \/ \E m \in Ops : ~App(m) /\ g = Append(f, m)
  <1>1. UNCHANGED <<st, data, commit, pend, flight, reply>> /\ \A j \in Pos : Moves(link[j], link'[j])
    <2>1. ASSUME NEW w \in Wids, CloseChunk(w)
          PROVE  UNCHANGED <<st, data, commit, pend, flight, reply>> /\ \A j \in Pos : Moves(link[j], link'[j])
      <3>1. CloseOp(w) \in Ops /\ ~App(CloseOp(w))
        BY NewOpType DEF App, CloseOp
      <3>2. link' = link \/ link' = [link EXCEPT ![1] = Append(link[1], CloseOp(w))]
        BY <2>1, Zenon DEF CloseChunk
      <3>3. UNCHANGED <<st, data, commit, pend, flight, reply>>
        BY <2>1, Zenon DEF CloseChunk
      <3>. QED  BY <3>1, <3>2, <3>3, PosFacts, Zenon DEF TypeInv, ChainType
    <2>2. ASSUME NEW i \in Pos, CloseForwarded(i)
          PROVE  UNCHANGED <<st, data, commit, pend, flight, reply>> /\ \A j \in Pos : Moves(link[j], link'[j])
      <3>1. Head(link[i - 1]) \in Ops /\ ~App(Head(link[i - 1]))
        BY <2>2, CloseForwardedFacts DEF App
      <3>. QED  BY <2>2, <3>1, CloseForwardedFacts, Zenon
    <2>. QED  BY <2>1, <2>2
  <1>2. ASSUME NEW f \in Seq(Ops), NEW g, Moves(f, g), NEW c \in Nat, NEW d \in Nat,
               Ordered(f, c, d), NEW h, AppsIn(f, h)
        PROVE  Ordered(g, c, d) /\ AppsIn(g, h)
    <2>1. CASE f # <<>> /\ g = Tail(f)
      <3>1. g = Without(f, 1) /\ 1 \in 1 .. Len(f)
        BY <2>1, TailIsWithout, Zenon
      <3>2. Ordered(g, c, d) /\ \A o : Has(g, o) => Has(f, o)
        BY <1>2, <3>1, OrderedWithout, Zenon
      <3>3. ASSUME NEW k \in 1 .. Len(g), App(g[k]) PROVE Has(h, g[k])
        <4>1. PICK j \in 1 .. Len(f) : f[j] = g[k]
          BY <3>2, Zenon DEF Has
        <4>. QED  BY <1>2, <3>3, <4>1, Zenon DEF AppsIn
      <3>. QED  BY <3>2, <3>3, Zenon DEF AppsIn
    <2>2. ASSUME NEW m \in Ops, ~App(m), g = Append(f, m) PROVE Ordered(g, c, d) /\ AppsIn(g, h)
      <3>1. /\ Len(g) = Len(f) + 1 /\ Len(f) \in Nat /\ g[Len(f) + 1] = m
            /\ \A k \in 1 .. Len(f) : g[k] = f[k]
        BY <2>2, AppendFacts
      <3>2. \A k \in 1 .. Len(g) : App(g[k]) => k \in 1 .. Len(f) /\ g[k] = f[k]
        BY <2>2, <3>1
      <3>. QED  BY <1>2, <3>2, Zenon DEF Ordered, AppsIn
    <2>. QED  BY <1>2, <2>1, <2>2, Zenon
  <1>. HIDE DEF Moves
  <1>3. ASSUME NEW i \in Pos, i < N PROVE Edge(i)'
    <2>1. i + 1 \in Pos
      BY <1>3, Neighbours, Zenon
    <2>2. link[i] \in Seq(Ops) /\ Len(data[i]) \in Nat /\ Len(data[i + 1]) \in Nat
      BY <2>1, PositionTypes, Zenon
    <2>3. Edge(i)
      BY <1>3, Zenon DEF ChainInv
    <2>4. Open(i) /\ Open(i + 1) =>
             Ordered(link'[i], Len(data[i + 1]), Len(data[i])) /\ AppsIn(link'[i], flight[i])
      BY <1>1, <1>2, <2>2, <2>3, Zenon DEF Edge
    <2>. QED  BY <1>1, <2>3, <2>4, Zenon DEF Edge, Open
  <1>4. Commits' /\ LastWaits' /\ \A i \in Pos : Local(i)'
    BY <1>1, Zenon DEF ChainInv, Commits, LastWaits, Local, Open
  <1>. QED  BY <1>3, <1>4, Zenon DEF ChainInv

-----------------------------------------------------------------------------
(* A position runs its queue.                                              *)

\* An empty queue is in every order.
LEMMA EmptyFacts ==
    /\ \A c, d : OrderedOk(<<>>, c, d) /\ Ordered(<<>>, c, d)
    /\ OkFirst(<<>>)
    /\ \A f : Before(f, <<>>) /\ OkIn(<<>>, f) /\ AppsIn(<<>>, f)
  <1>1. \A k : ~(k \in 1 .. Len(<<>>))
    OBVIOUS
  <1>. QED  BY <1>1, Zenon DEF OrderedOk, Ordered, OkFirst, Before, OkIn, AppsIn

\* What is in flight stays in flight when more is sent.
LEMMA InConcat ==
    ASSUME NEW f \in Seq(Ops), NEW s \in Seq(Ops)
    PROVE  /\ \A q : OkIn(q, f) => OkIn(q, f \o s)
           /\ \A g : AppsIn(g, f) => AppsIn(g, f \o s)
           /\ \A h : AppsIn(f, h) /\ AppsIn(s, h) => AppsIn(f \o s, h)
           /\ AppsIn(s, f \o s)
  <1>. DEFINE t == f \o s
  <1>1. /\ Len(f) \in Nat /\ Len(s) \in Nat /\ Len(t) = Len(f) + Len(s)
        /\ \A k \in 1 .. Len(f) : k \in 1 .. Len(t) /\ t[k] = f[k]
        /\ \A k \in 1 .. Len(s) : Len(f) + k \in 1 .. Len(t) /\ t[Len(f) + k] = s[k]
        /\ \A k \in 1 .. Len(t) : \/ k \in 1 .. Len(f) /\ t[k] = f[k]
                                  \/ k - Len(f) \in 1 .. Len(s) /\ t[k] = s[k - Len(f)]
    BY ConcatFacts
  <1>. HIDE DEF t
  <1>2. \A o : Has(f, o) \/ Has(s, o) => Has(t, o)
    BY <1>1, Zenon DEF Has
  <1>3. \A k \in 1 .. Len(s) : Has(s, s[k])
    BY Zenon DEF Has
  <1>4. ASSUME NEW h, AppsIn(f, h), AppsIn(s, h) PROVE AppsIn(t, h)
    BY <1>1, <1>4, Zenon DEF AppsIn
  <1>. QED  BY <1>2, <1>3, <1>4, Zenon DEF OkIn, AppsIn, t

\* Failed statuses are not successful.
LEMMA AnswerNoneOk ==
    ASSUME NEW s \in Seq(Ops)
    PROVE  Answer(s, FALSE) \in Seq(Statuses) /\ NoneOk(Answer(s, FALSE))
  <1>1. PICK b \in BOOLEAN : b = FALSE
    BY Zenon
  <1>2. /\ Answer(s, b) \in Seq(Statuses) /\ Len(Answer(s, b)) = Len(s)
        /\ \A k \in 1 .. Len(s) : Answer(s, b)[k].ok = b
    BY AnswerFacts
  <1>. QED  BY <1>1, <1>2, Zenon DEF NoneOk

\* An open position forwards all of its queue.
LEMMA ChainForwards ==
    ASSUME TypeInv, ChainInv, NEW i \in Pos, i < N, Open(i),
           NEW sent \in Seq(Ops), SentOf(sent, pend[i]),
           \A k \in 1 .. Len(sent) : i # 1 => sent[k] = pend[i][k].op,
           NEW r \in Seq(Statuses), NoneOk(r),
           pend' = [pend EXCEPT ![i] = <<>>],
           flight' = [flight EXCEPT ![i] = flight[i] \o sent],
           link' = [link EXCEPT ![i] = link[i] \o sent],
           reply' = RepliesTo(reply, i, r),
           UNCHANGED <<st, data, commit>>
    PROVE  ChainInv'
  <1>. DEFINE f == flight[i] \o sent
              g == link[i] \o sent
  <1>1. /\ i + 1 \in Pos /\ i + 1 # i /\ i # i - 1 /\ N # i /\ i + 1 # i - 1
    BY Neighbours, Zenon
  <1>2. /\ flight[i] \in Seq(Ops) /\ link[i] \in Seq(Ops) /\ pend[i] \in Seq(Statuses)
        /\ commit[i] \in Nat /\ Len(data[i]) \in Nat /\ Len(data[i + 1]) \in Nat
    BY <1>1, PositionTypes, Zenon
  <1>3. /\ pend'[i] = <<>> /\ flight'[i] = f /\ link'[i] = g
        /\ \A j \in Pos : j # i => pend'[j] = pend[j] /\ flight'[j] = flight[j] /\ link'[j] = link[j]
    BY Zenon DEF TypeInv, ChainType
  <1>4. /\ \A j \in Pos : j # i - 1 => reply'[j] = reply[j]
        /\ i > 1 => i - 1 \in Pos /\ reply'[i - 1] = reply[i - 1] \o r
    <2>1. reply \in [Pos -> Seq(Statuses)]
      BY DEF TypeInv, ChainType
    <2>. QED  BY <2>1, RepliesFacts, Zenon
  <1>. HIDE DEF f, g
  <1>5. Elsewhere(i)
    BY <1>3, <1>4, Zenon DEF Elsewhere
  <1>6. /\ Ordered(flight[i], commit[i], Len(data[i])) /\ OrderedOk(pend[i], commit[i], Len(data[i]))
        /\ Before(flight[i], pend[i])
    BY Zenon DEF ChainInv, Local
  <1>7. /\ Ordered(sent, commit[i], Len(data[i]))
        /\ \A j \in 1 .. Len(flight[i]), k \in 1 .. Len(sent) :
              App(flight[i][j]) /\ App(sent[k]) => flight[i][j].off < sent[k].off
    BY <1>2, <1>6, SentOrdered, Zenon
  <1>8. Local(i)'
    <2>1. Ordered(f, commit[i], Len(data[i]))
      BY <1>2, <1>6, <1>7, OrderedConcat, Zenon DEF f
    <2>. QED  BY <1>3, <2>1, EmptyFacts, Zenon DEF Local
  <1>9. Edge(i)'
    <2>1. Edge(i)
      BY Zenon DEF ChainInv
    <2>2. OkIn(reply'[i], f)
      BY <1>1, <1>2, <1>4, <2>1, InConcat, Zenon DEF Edge, f
    <2>3. ASSUME Open(i + 1)
          PROVE  /\ Ordered(g, Len(data[i + 1]), Len(data[i])) /\ AppsIn(g, f)
                 /\ AppsIn(flight[i + 1], f) /\ OkIn(pend[i + 1], f)
      <3>1. /\ Ordered(link[i], Len(data[i + 1]), Len(data[i])) /\ AppsIn(link[i], flight[i])
            /\ OrderedOk(pend[i], Len(data[i + 1]), Len(data[i]))
            /\ AppsIn(flight[i + 1], flight[i]) /\ OkIn(pend[i + 1], flight[i])
        BY <2>1, <2>3, Zenon DEF Edge
      <3>2. Ordered(sent, Len(data[i + 1]), Len(data[i]))
        BY <1>2, <3>1, SentOrdered, Zenon
      <3>3. ASSUME NEW j \in 1 .. Len(link[i]), NEW k \in 1 .. Len(sent), App(link[i][j]), App(sent[k])
            PROVE  link[i][j].off < sent[k].off
        <4>1. PICK l \in 1 .. Len(flight[i]) : flight[i][l] = link[i][j]
          BY <3>1, <3>3, Zenon DEF AppsIn, Has
        <4>. QED  BY <1>7, <3>3, <4>1, Zenon
      <3>4. Ordered(g, Len(data[i + 1]), Len(data[i]))
        BY <1>2, <3>1, <3>2, <3>3, OrderedConcat, Zenon DEF g
      <3>5. AppsIn(link[i], f) /\ AppsIn(sent, f)
        BY <1>2, <3>1, InConcat, Zenon DEF f
      <3>6. AppsIn(g, f)
        BY <1>2, <3>5, InConcat, Zenon DEF g
      <3>. QED  BY <1>2, <3>1, <3>4, <3>6, InConcat, Zenon DEF f
    <2>. QED  BY <1>1, <1>3, <1>4, <2>1, <2>2, <2>3, EmptyFacts, Zenon DEF Edge, Open
  <1>10. ASSUME i > 1 PROVE Edge(i - 1)'
    <2>. DEFINE b == i - 1
    <2>1. b \in Pos /\ b # i /\ b + 1 = i /\ b < N /\ b <= i /\ i # 1
      BY <1>10, Neighbours, Zenon
    <2>2. reply'[b] = reply[b] \o r
      BY <1>4, <1>10
    <2>. HIDE DEF b
    <2>3. reply[b] \in Seq(Statuses) /\ commit[b] \in Nat /\ commit[b] <= commit[i] /\ Edge(b)
      BY <2>1, PositionTypes, Zenon DEF ChainInv, Commits
    <2>4. Open(b) => /\ OrderedOk(reply'[b], commit[b], commit[i])
                     /\ Covers(reply'[b], commit[b], commit[i]) /\ OkIn(reply'[b], flight[b])
      BY <1>2, <2>1, <2>2, <2>3, NoneOkConcat, Zenon DEF Edge
    <2>5. Open(b) => AppsIn(f, flight[b])
      <3>. SUFFICES ASSUME Open(b) PROVE AppsIn(f, flight[b])
        OBVIOUS
      <3>1. AppsIn(flight[i], flight[b]) /\ OkIn(pend[i], flight[b])
        BY <2>1, <2>3, Zenon DEF Edge
      <3>2. AppsIn(sent, flight[b])
        BY <1>2, <2>1, <3>1, SentOrdered, Zenon
      <3>. QED  BY <1>2, <3>1, <3>2, InConcat, Zenon DEF f
    <2>6. Edge(b)'
      BY <1>3, <2>1, <2>3, <2>4, <2>5, EmptyFacts, Zenon DEF Edge, Open
    <2>. QED  BY <2>6 DEF b
  <1>11. Commits'
    <2>1. \A k \in 1 .. Len(pend'[1]) : pend'[1][k].ok
      <3>1. CASE i = 1
        BY <1>3, <3>1
      <3>2. CASE i # 1
        BY <1>3, <3>2, PosFacts, Zenon DEF ChainInv, Commits
      <3>. QED  BY <3>1, <3>2
    <2>. QED  BY <1>1, <1>3, <2>1, PosFacts, Zenon DEF ChainInv, Commits
  <1>. QED  BY <1>1, <1>5, <1>8, <1>9, <1>10, <1>11, ChainFrame, Zenon

\* The last position, open, commits what it accepted.
LEMMA ChainLastCommits ==
    ASSUME TypeInv, ChainInv, Open(N),
           NEW sent \in Seq(Ops), SentOf(sent, pend[N]),
           \A k \in 1 .. Len(sent) : N # 1 => sent[k] = pend[N][k].op,
           Len(sent) < Len(pend[N]) => ~pend[N][Len(sent) + 1].ok,
           NEW r \in Seq(Statuses), NoneOk(r),
           pend' = [pend EXCEPT ![N] = <<>>],
           commit'[N] = commit[N] + Cardinality(AppendsOf(sent)),
           \A j \in Pos : j # N => commit'[j] = commit[j],
           reply' = RepliesTo(reply, N, Answer(sent, TRUE) \o r),
           UNCHANGED <<flight, link, data>>,
           st'[N] # "stable", \A j \in Pos : j # N => st'[j] = st[j]
    PROVE  ChainInv'
  <1>. DEFINE c == commit[N]
              d == Len(data[N])
              a == Answer(sent, TRUE)
  <1>1. /\ N \in Pos /\ c \in Nat /\ d \in Nat /\ pend[N] \in Seq(Statuses) /\ flight[N] = <<>>
        /\ c <= d
    BY PosFacts, PositionTypes, Zenon DEF ChainInv, Commits, Open
  <1>2. OrderedOk(pend[N], c, d) /\ OkFirst(pend[N]) /\ Covers(pend[N], c, d)
    BY <1>1, Zenon DEF ChainInv, Local, LastWaits
  <1>3. /\ Cardinality(AppendsOf(sent)) = d - c
        /\ OrderedOk(a, c, d) /\ Covers(a, c, d)
        /\ \A f : OkIn(pend[N], f) /\ (\A k \in 1 .. Len(sent) : sent[k] = pend[N][k].op) => OkIn(a, f)
    <2>. HIDE DEF c, d
    <2>. QED  BY <1>1, <1>2, LastCommits, Zenon DEF TypeInv
  <1>4. a \in Seq(Statuses)
    <2>1. PICK b \in BOOLEAN : b = TRUE
      BY Zenon
    <2>2. Answer(sent, b) \in Seq(Statuses)
      BY AnswerFacts
    <2>. QED  BY <2>1, <2>2, Zenon
  <1>5. commit'[N] = d
    BY <1>1, <1>3
  <1>6. pend'[N] = <<>> /\ \A j \in Pos : j # N => pend'[j] = pend[j]
    BY <1>1, Zenon DEF TypeInv, ChainType
  <1>. HIDE DEF a
  <1>7. PICK x \in Seq(Statuses) : x = a \o r
    BY <1>4, ConcatFacts, Zenon
  <1>8. /\ \A j \in Pos : j # N - 1 => reply'[j] = reply[j]
        /\ N > 1 => N - 1 \in Pos /\ reply'[N - 1] = reply[N - 1] \o x
    <2>1. reply \in [Pos -> Seq(Statuses)] /\ reply' = RepliesTo(reply, N, x)
      BY <1>7, Zenon DEF TypeInv, ChainType, a
    <2>2. /\ \A j \in Pos : j # N - 1 => RepliesTo(reply, N, x)[j] = reply[j]
          /\ N > 1 => N - 1 \in Pos /\ RepliesTo(reply, N, x)[N - 1] = reply[N - 1] \o x
      BY <1>1, <2>1, RepliesFacts, Zenon
    <2>. QED  BY <2>1, <2>2, Zenon
  <1>. HIDE DEF c, d
  <1>9. Elsewhere(N)
    BY <1>6, <1>8, Zenon DEF Elsewhere
  <1>10. /\ OrderedOk(x, c, d) /\ Covers(x, c, d)
         /\ \A f : OkIn(a, f) => OkIn(x, f)
    BY <1>1, <1>3, <1>4, <1>7, NoneOkConcat, Zenon
  <1>11. Commits'
    <2>1. \A i \in Pos : st'[i] # "stable" \/ i = 1 => commit'[i] <= Len(data'[i])
      <3>1. commit'[N] <= Len(data'[N])
        BY <1>1, <1>5 DEF d
      <3>. QED  BY <3>1, Zenon DEF ChainInv, Commits
    <2>2. ASSUME NEW i \in Pos, NEW j \in Pos, i <= j PROVE commit'[i] <= commit'[j]
      <3>1. CASE j # N /\ i # N
        BY <2>2, <3>1, Zenon DEF ChainInv, Commits
      <3>2. CASE j # N /\ i = N
        BY <2>2, <3>2, Neighbours, PosFacts, Zenon
      <3>3. CASE j = N /\ i # N
        <4>1. commit[i] <= c /\ commit[i] \in Nat
          BY <1>1, <2>2, <3>3, PositionTypes, Zenon DEF ChainInv, Commits, c
        <4>. QED  BY <1>1, <1>5, <3>3, <4>1
      <3>4. CASE j = N /\ i = N
        BY <1>1, <1>5, <3>4
      <3>. QED  BY <3>1, <3>2, <3>3, <3>4
    <2>3. \A k \in 1 .. Len(pend'[1]) : pend'[1][k].ok
      <3>1. CASE N = 1
        BY <1>6, <3>1
      <3>2. CASE N # 1
        BY <1>6, <3>2, PosFacts, Zenon DEF ChainInv, Commits
      <3>. QED  BY <3>1, <3>2
    <2>. QED  BY <1>1, <2>1, <2>2, <2>3, Zenon DEF Commits
  <1>12. Local(N)'
    BY <1>1, <1>6, EmptyFacts, Zenon DEF Local
  <1>13. LastWaits'
    <2>1. Covers(pend'[N], d, d)
      BY <1>1 DEF Covers
    <2>. QED  BY <1>5, <2>1, Zenon DEF LastWaits, d
  <1>14. ASSUME N > 1 PROVE Edge(N - 1)'
    <2>. DEFINE b == N - 1
    <2>1. b \in Pos /\ b # N /\ b + 1 = N /\ b < N /\ b <= N /\ N # 1
      BY <1>1, <1>14, Neighbours, Zenon
    <2>2. reply'[b] = reply[b] \o x
      BY <1>8, <1>14, Zenon
    <2>. HIDE DEF b
    <2>3. reply[b] \in Seq(Statuses) /\ commit[b] \in Nat /\ commit[b] <= c /\ Edge(b)
      BY <1>1, <2>1, PositionTypes, Zenon DEF ChainInv, Commits, c
    <2>4. ASSUME Open(b)
          PROVE  /\ OrderedOk(reply'[b], commit[b], d)
                 /\ Covers(reply'[b], commit[b], d) /\ OkIn(reply'[b], flight[b])
      <3>1. /\ OrderedOk(reply[b], commit[b], c) /\ Covers(reply[b], commit[b], c)
            /\ OkIn(reply[b], flight[b]) /\ OkIn(pend[N], flight[b])
        BY <2>1, <2>3, <2>4, Zenon DEF Edge, c
      <3>2. OkIn(a, flight[b])
        BY <1>3, <2>1, <3>1, Zenon
      <3>3. OkIn(x, flight[b])
        BY <1>10, <3>2, Zenon
      <3>4. /\ OrderedOk(reply[b] \o x, commit[b], d) /\ Covers(reply[b] \o x, commit[b], d)
            /\ OkIn(reply[b] \o x, flight[b])
        BY <1>1, <1>10, <2>3, <3>1, <3>3, OkConcat
      <3>. QED  BY <2>2, <3>4, Zenon
    <2>5. commit'[b] = commit[b] /\ pend'[b] = pend[b] /\ (Open(b)' <=> Open(b))
      BY <1>6, <2>1, Zenon DEF Open
    <2>6. /\ Open(b) /\ Open(N) => /\ Ordered(link[b], Len(data[N]), Len(data[b]))
                                   /\ AppsIn(link[b], flight[b])
                                   /\ OrderedOk(pend[b], Len(data[N]), Len(data[b]))
                                   /\ AppsIn(flight[N], flight[b])
          /\ Open(b) => Len(data[N]) <= Len(data[b])
      BY <2>1, <2>3, Zenon DEF Edge
    <2>7. Edge(b)'
      BY <1>5, <1>6, <2>1, <2>4, <2>5, <2>6, EmptyFacts, Zenon DEF Edge
    <2>. QED  BY <2>7 DEF b
  <1>15. ~(N < N)
    BY <1>1, Neighbours, Zenon
  <1>. QED  BY <1>1, <1>9, <1>11, <1>12, <1>13, <1>14, <1>15, ChainFrame, Zenon

\* What running the queue does: sent is forwarded or committed, and r says that
\* the rest failed.
RunsQueue(i, sent, r) ==
    /\ NoneOk(r) /\ SentOf(sent, pend[i])
    /\ \A k \in 1 .. Len(sent) : i # 1 => sent[k] = pend[i][k].op
    /\ pend' = [pend EXCEPT ![i] = <<>>]
    /\ Open(i) /\ Len(sent) < Len(pend[i]) => ~pend[i][Len(sent) + 1].ok
    /\ ~Open(i) => sent = <<>>
    /\ \A j \in Pos : j # i => st'[j] = st[j] /\ data'[j] = data[j] /\ pend'[j] = pend[j]
    /\ pend'[i] = <<>> /\ Len(data'[i]) <= Len(data[i])
    /\ st'[i] # "stable" \/ i = 1 => commit[i] <= Len(data'[i])
    /\ st'[i] = "open" => Open(i) /\ UNCHANGED <<st, data>> /\ Len(sent) = Len(pend[i])
    /\ Open(i) => st'[i] # "stable" /\ (i = N => data' = data)
    /\ IF i < N
       THEN /\ flight' = [flight EXCEPT ![i] = flight[i] \o sent]
            /\ link' = [link EXCEPT ![i] = link[i] \o sent]
            /\ reply' = RepliesTo(reply, i, r) /\ commit' = commit
       ELSE /\ CommitOps(i, sent) /\ UNCHANGED <<flight, link>>
            /\ reply' = RepliesTo(reply, i, Answer(sent, TRUE) \o r)

\* That is what RunPendingSubmitQueue does.
LEMMA RunMoves ==
    ASSUME TypeInv, ChainInv, NEW i \in Pos, RunPendingSubmitQueue(i)
    PROVE  \E sent \in Seq(Ops), r \in Seq(Statuses) : RunsQueue(i, sent, r)
  <1>1. PICK good \in 0 .. Len(pend[i]), sent, refused \in Seq(Ops) :
             /\ Runs(i, good, sent, refused)
             /\ Len(sent) = good
             /\ \A k \in 1 .. good : Stamped(i, sent[k], pend[i][k])
    BY RunFacts
  <1>. DEFINE r == Answer(refused, FALSE)
              q == pend[i]
  <1>2. r \in Seq(Statuses) /\ NoneOk(r)
    BY AnswerNoneOk, Zenon
  <1>3. q \in Seq(Statuses) /\ Len(q) \in Nat /\ data[i] \in Seq(Record) /\ Len(data[i]) \in Nat
    BY PositionTypes
  <1>4. SentOf(sent, q)
    <2>1. \A k \in 1 .. Len(sent) : q[k].ok
      BY <1>1 DEF Runs
    <2>. QED  BY <1>1, <1>3, <2>1 DEF SentOf, Stamped
  <1>5. \A k \in 1 .. Len(sent) : i # 1 => sent[k] = q[k].op
    BY <1>1, Zenon DEF Stamped
  <1>6. pend'[i] = <<>> /\ \A j \in Pos : j # i => pend'[j] = pend[j]
    BY <1>1, Zenon DEF Runs, TypeInv, ChainType
  <1>7. /\ \A j \in Pos : j # i => st'[j] = st[j] /\ data'[j] = data[j]
        /\ Len(data'[i]) <= Len(data[i])
        /\ st'[i] # "stable" \/ i = 1 => commit[i] <= Len(data'[i])
        /\ st'[i] = "open" => st[i] = "open" /\ UNCHANGED <<st, data>> /\ ~(good < Len(q))
        /\ st[i] = "open" => st'[i] # "stable"
    <2>1. CASE good < Len(q) /\ st[i] = "open"
      <3>1. SetFailed(i)
        BY <1>1, <2>1, Zenon DEF Runs
      <3>. QED  BY <2>1, <3>1, SetFailedFacts, Zenon
    <2>2. CASE ~(good < Len(q) /\ st[i] = "open")
      <3>1. UNCHANGED <<st, data>>
        BY <1>1, <2>2, Zenon DEF Runs, KeepState
      <3>2. Len(data'[i]) <= Len(data[i])
        BY <1>3, <3>1
      <3>. QED  BY <2>2, <3>1, <3>2, Zenon DEF ChainInv, Commits
    <2>. QED  BY <2>1, <2>2, Zenon
  <1>8. /\ st'[i] = "open" => Len(sent) = Len(q)
        /\ Open(i) /\ Len(sent) < Len(q) => ~q[Len(sent) + 1].ok
        /\ ~Open(i) => sent = <<>>
    <2>1. Len(q) \in Nat /\ good \in 0 .. Len(q)
      BY <1>3
    <2>2. ~(good < Len(q)) => good = Len(q)
      BY <2>1
    <2>3. /\ Open(i) /\ Len(sent) < Len(q) => ~q[Len(sent) + 1].ok
          /\ ~Open(i) => Len(sent) = 0
      BY <1>1, Zenon DEF Runs, Open
    <2>4. Len(sent) = 0 => sent = <<>>
      OBVIOUS
    <2>. QED  BY <1>1, <1>7, <2>2, <2>3, <2>4, Zenon
  <1>9. ASSUME Open(i), i = N PROVE data' = data
    <2>1. CASE good < Len(q)
      <3>1. i # 1
        <4>1. good + 1 \in 1 .. Len(q) /\ ~q[good + 1].ok
          BY <1>1, <1>3, <1>9, <2>1 DEF Runs, Open
        <4>. QED  BY <4>1, Zenon DEF ChainInv, Commits
      <3>. QED  BY <1>1, <1>9, <2>1, <3>1, Zenon DEF Runs, SetFailed, Open
    <2>2. CASE ~(good < Len(q))
      BY <1>1, <2>2, Zenon DEF Runs, KeepState
    <2>. QED  BY <2>1, <2>2
  <1>. HIDE DEF r
  <1>10. /\ pend' = [pend EXCEPT ![i] = <<>>]
         /\ IF i < N
            THEN /\ flight' = [flight EXCEPT ![i] = flight[i] \o sent]
                 /\ link' = [link EXCEPT ![i] = link[i] \o sent]
                 /\ reply' = RepliesTo(reply, i, r) /\ commit' = commit
            ELSE /\ CommitOps(i, sent) /\ UNCHANGED <<flight, link>>
                 /\ reply' = RepliesTo(reply, i, Answer(sent, TRUE) \o r)
    BY <1>1, Zenon DEF Runs, r
  <1>11. RunsQueue(i, sent, r)
    BY <1>4, <1>5, <1>6, <1>7, <1>2, <1>8, <1>9, <1>10, Zenon DEF RunsQueue, Open
  <1>. QED  BY <1>2, <1>11, Zenon

\* Running the queue keeps the chain.
LEMMA ChainRuns ==
    ASSUME TypeInv, TypeInv', ChainInv, NEW i \in Pos, RunPendingSubmitQueue(i)
    PROVE  ChainInv'
  <1>1. PICK sent \in Seq(Ops), r \in Seq(Statuses) : RunsQueue(i, sent, r)
    BY RunMoves
  <1>2. r \in Seq(Statuses) /\ NoneOk(r)
    BY <1>1, Zenon DEF RunsQueue
  <1>4. SentOf(sent, pend[i])
    BY <1>1, Zenon DEF RunsQueue
  <1>5. \A k \in 1 .. Len(sent) : i # 1 => sent[k] = pend[i][k].op
    BY <1>1, Zenon DEF RunsQueue
  <1>6. pend'[i] = <<>> /\ \A j \in Pos : j # i => pend'[j] = pend[j]
    BY <1>1, Zenon DEF RunsQueue
  <1>7. /\ \A j \in Pos : j # i => st'[j] = st[j] /\ data'[j] = data[j]
        /\ Len(data'[i]) <= Len(data[i])
        /\ st'[i] # "stable" \/ i = 1 => commit[i] <= Len(data'[i])
        /\ st'[i] = "open" => st[i] = "open" /\ UNCHANGED <<st, data>>
        /\ st[i] = "open" => st'[i] # "stable"
    BY <1>1, Zenon DEF RunsQueue, Open
  <1>8. reply \in [Pos -> Seq(Statuses)]
    BY DEF TypeInv, ChainType
  <1>9. CASE i < N
    <2>1. /\ flight' = [flight EXCEPT ![i] = flight[i] \o sent]
          /\ link' = [link EXCEPT ![i] = link[i] \o sent]
          /\ reply' = RepliesTo(reply, i, r) /\ commit' = commit
      BY <1>1, <1>9, Zenon DEF RunsQueue
    <2>2. CASE st'[i] = "open"
      <3>1. pend' = [pend EXCEPT ![i] = <<>>]
        BY <1>1, Zenon DEF RunsQueue
      <3>. QED  BY <1>2, <1>4, <1>5, <1>7, <1>9, <2>1, <2>2, <3>1, ChainForwards, Zenon DEF Open
    <2>3. CASE st'[i] # "open"
      <3>1. \A j \in Pos : j # i => flight'[j] = flight[j] /\ link'[j] = link[j]
        BY <2>1, Zenon DEF TypeInv, ChainType
      <3>2. /\ \A j \in Pos : j # i - 1 => reply'[j] = reply[j]
            /\ i > 1 => reply'[i - 1] = reply[i - 1] \o r
        BY <1>2, <1>8, <2>1, RepliesFacts, Zenon
      <3>3. Elsewhere(i)
        BY <1>6, <1>7, <2>1, <3>1, <3>2, Zenon DEF Elsewhere
      <3>4. i # N
        BY <1>9, Neighbours, Zenon
      <3>. QED  BY <1>2, <1>6, <1>7, <2>1, <2>3, <3>2, <3>3, <3>4, ChainFails, Zenon
    <2>. QED  BY <2>2, <2>3
  <1>10. CASE ~(i < N)
    <2>1. i = N
      BY <1>10, Neighbours, Zenon
    <2>2. /\ CommitOps(i, sent) /\ UNCHANGED <<flight, link>>
          /\ reply' = RepliesTo(reply, i, Answer(sent, TRUE) \o r)
          /\ pend' = [pend EXCEPT ![i] = <<>>]
      BY <1>1, <1>10, Zenon DEF RunsQueue
    <2>3. /\ commit' \in [Pos -> Nat]
          /\ commit'[i] = commit[i] + Cardinality(AppendsOf(sent))
          /\ \A j \in Pos : j # i => commit'[j] = commit[j]
      BY <2>2, CommitFacts
    <2>4. CASE st[i] = "open"
      <3>1. Len(sent) < Len(pend[i]) => ~pend[i][Len(sent) + 1].ok
        BY <1>1, <2>4, Zenon DEF RunsQueue, Open
      <3>2. data' = data
        BY <1>1, <2>1, <2>4, Zenon DEF RunsQueue, Open
      <3>. QED  BY <1>2, <1>4, <1>5, <1>7, <2>1, <2>2, <2>3, <2>4, <3>1, <3>2, ChainLastCommits, Zenon
                DEF Open
    <2>5. CASE st[i] # "open"
      <3>1. sent = <<>>
        BY <1>1, <2>5, Zenon DEF RunsQueue, Open
      <3>2. reply' = RepliesTo(reply, i, r)
        <4>1. Answer(sent, TRUE) \o r = r
          BY <1>2, <3>1 DEF Answer
        <4>. QED  BY <2>2, <4>1, Zenon
      <3>3. AppendsOf(sent) = {}
        BY <3>1 DEF AppendsOf
      <3>4. commit'[i] = commit[i]
        BY <2>3, <3>3, PositionTypes DEF TypeInv, Counting
      <3>5. commit' = commit
        BY <2>3, <3>4 DEF TypeInv, ChainType
      <3>6. /\ \A j \in Pos : j # i - 1 => reply'[j] = reply[j]
            /\ i > 1 => reply'[i - 1] = reply[i - 1] \o r
        BY <1>2, <1>8, <3>2, RepliesFacts, Zenon
      <3>7. Elsewhere(i)
        BY <1>6, <1>7, <2>2, <3>5, <3>6, Zenon DEF Elsewhere
      <3>8. st'[i] # "open"
        BY <1>7, <2>5, Zenon
      <3>. QED  BY <1>2, <1>6, <1>7, <2>2, <3>5, <3>6, <3>7, <3>8, ChainFails, Zenon
    <2>. QED  BY <2>4, <2>5
  <1>. QED  BY <1>9, <1>10

-----------------------------------------------------------------------------
(* The successor's reply arrives, or the connection to it breaks.          *)

\* Position i has x left of its successor's replies and answers with rs.
LEMMA RepliesMove ==
    ASSUME TypeInv, NEW i \in Pos, NEW x \in Seq(Statuses), NEW rs \in Seq(Statuses),
           reply' = RepliesTo([reply EXCEPT ![i] = x], i, rs)
    PROVE  /\ reply'[i] = x
           /\ \A j \in Pos : j # i /\ j # i - 1 => reply'[j] = reply[j]
           /\ i > 1 => reply'[i - 1] = reply[i - 1] \o rs
  <1>1. reply \in [Pos -> Seq(Statuses)] /\ i # i - 1
    BY PosFacts DEF TypeInv, ChainType
  <1>2. PICK rep : rep = [reply EXCEPT ![i] = x]
    BY Zenon
  <1>3. /\ rep \in [Pos -> Seq(Statuses)] /\ rep[i] = x
        /\ \A j \in Pos : j # i => rep[j] = reply[j]
    BY <1>1, <1>2
  <1>4. reply' = RepliesTo(rep, i, rs)
    BY <1>2, Zenon
  <1>5. /\ \A j \in Pos : j # i - 1 => RepliesTo(rep, i, rs)[j] = rep[j]
        /\ i > 1 => i - 1 \in Pos /\ RepliesTo(rep, i, rs)[i - 1] = rep[i - 1] \o rs
    BY <1>3, RepliesFacts, Zenon
  <1>. QED  BY <1>1, <1>3, <1>4, <1>5, Zenon

\* A single reply, to the append at c or to something else.
LEMMA SingleReply ==
    ASSUME NEW x \in Seq(Statuses), Len(x) = 1, NEW c \in Nat
    PROVE  /\ OkApp(x[1]) /\ x[1].op.off = c => OrderedOk(x, c, c + 1) /\ Covers(x, c, c + 1)
           /\ ~OkApp(x[1]) => OrderedOk(x, c, c) /\ Covers(x, c, c)
  BY DEF OrderedOk, Covers

\* An open position commits the op its successor reports.
LEMMA ChainCommits ==
    ASSUME TypeInv, ChainInv, NEW i \in Pos, i < N, Open(i), reply[i] # <<>>,
           Head(reply[i]).ok, NEW k \in 1 .. Len(flight[i]), flight[i][k] = Head(reply[i]).op,
           flight' = [flight EXCEPT ![i] = Without(flight[i], k)],
           NEW a \in Statuses, a.op = Head(reply[i]).op, a.ok,
           reply' = RepliesTo([reply EXCEPT ![i] = Tail(reply[i])], i, <<a>>),
           commit'[i] = IF App(a.op) THEN commit[i] + 1 ELSE commit[i],
           \A j \in Pos : j # i => commit'[j] = commit[j],
           UNCHANGED <<st, data, pend, link>>
    PROVE  ChainInv'
  <1>. DEFINE c == commit[i]
              e == IF App(a.op) THEN c + 1 ELSE c
              d == Len(data[i])
              c2 == commit[i + 1]
              f == flight[i]
              g == Without(f, k)
              t == Tail(reply[i])
  <1>1. /\ i + 1 \in Pos /\ i + 1 # i /\ i # i - 1 /\ N # i /\ i <= i + 1
    BY Neighbours, Zenon
  <1>2. /\ f \in Seq(Ops) /\ link[i] \in Seq(Ops) /\ pend[i] \in Seq(Statuses)
        /\ reply[i] \in Seq(Statuses) /\ pend[i + 1] \in Seq(Statuses) /\ flight[i + 1] \in Seq(Ops)
        /\ c \in Nat /\ d \in Nat /\ c2 \in Nat /\ Len(data[i + 1]) \in Nat
    BY <1>1, PositionTypes, Zenon
  <1>3. /\ Head(reply[i]) = reply[i][1] /\ 1 \in 1 .. Len(reply[i]) /\ t \in Seq(Statuses)
    BY <1>2, TailFacts
  <1>4. OkApp(Head(reply[i])) <=> App(a.op)
    BY DEF OkApp, App
  <1>5. /\ flight'[i] = g /\ \A j \in Pos : j # i => flight'[j] = flight[j]
    BY Zenon DEF TypeInv, ChainType
  <1>6. <<a>> \in Seq(Statuses) /\ Len(<<a>>) = 1 /\ <<a>>[1] = a
    OBVIOUS
  <1>7. /\ reply'[i] = t /\ \A j \in Pos : j # i /\ j # i - 1 => reply'[j] = reply[j]
        /\ i > 1 => reply'[i - 1] = reply[i - 1] \o <<a>>
    <2>1. PICK y \in Seq(Statuses) : y = <<a>>
      BY <1>6, Zenon
    <2>2. reply' = RepliesTo([reply EXCEPT ![i] = t], i, y)
      BY <2>1, Zenon
    <2>. HIDE DEF t
    <2>3. /\ reply'[i] = t /\ \A j \in Pos : j # i /\ j # i - 1 => reply'[j] = reply[j]
          /\ i > 1 => reply'[i - 1] = reply[i - 1] \o y
      BY <1>3, <2>2, RepliesMove, Zenon
    <2>. QED  BY <2>1, <2>3, Zenon
  <1>8. /\ Ordered(f, c, d) /\ OrderedOk(pend[i], c, d) /\ OkFirst(pend[i]) /\ Before(f, pend[i])
    BY Zenon DEF ChainInv, Local
  <1>9. Edge(i) /\ Len(data[i + 1]) <= d /\ OrderedOk(reply[i], c, c2) /\ Covers(reply[i], c, c2)
        /\ OkIn(reply[i], f)
    BY Zenon DEF ChainInv, Edge
  <1>10. c <= d /\ c <= c2
    BY <1>1, Zenon DEF ChainInv, Commits, Open
  <1>. HIDE DEF c, d, c2, f, g, t
  <1>11. /\ App(a.op) => /\ a.op.off = c /\ c < c2
                         /\ OrderedOk(t, c + 1, c2) /\ Covers(t, c + 1, c2)
         /\ ~App(a.op) => OrderedOk(t, c, c2) /\ Covers(t, c, c2)
         /\ \A h : OkIn(reply[i], h) => OkIn(t, h)
    BY <1>2, <1>4, <1>9, OkTail, Zenon DEF t
  <1>12. a.op = f[k] /\ k \in 1 .. Len(f) /\ a.op \in Ops
    BY <1>2 DEF f
  <1>13. App(a.op) => c < d
    BY <1>8, <1>11, <1>12, Zenon DEF Ordered
  <1>14. e \in Nat /\ c <= e /\ e <= d /\ e <= c2 /\ e = commit'[i]
    <2>1. CASE App(a.op)
      <3>1. c < d /\ c < c2
        BY <1>11, <1>13, <2>1, Zenon
      <3>2. e = c + 1 /\ commit'[i] = c + 1
        BY <2>1, Zenon DEF c
      <3>. HIDE DEF e
      <3>. QED  BY <1>2, <3>1, <3>2
    <2>2. CASE ~App(a.op)
      BY <1>2, <1>10, <2>2 DEF c
    <2>. QED  BY <2>1, <2>2
  <1>15. OrderedOk(t, e, c2) /\ Covers(t, e, c2) /\ OkIn(t, f)
    BY <1>9, <1>11, Zenon
  <1>16. /\ Ordered(g, c, d) /\ (App(f[k]) /\ f[k].off = c => Ordered(g, c + 1, d))
         /\ \A o : Has(g, o) => Has(f, o)
         /\ \A o : Has(f, o) /\ o # f[k] => Has(g, o)
    BY <1>2, <1>8, <1>12, OrderedWithout, Zenon DEF g
  <1>17. Ordered(g, e, d)
    BY <1>11, <1>12, <1>16, Zenon
  <1>18. ASSUME NEW o \in Ops, App(o), e <= o.off, Has(f, o) PROVE Has(g, o)
    <2>1. o # a.op
      <3>1. CASE App(a.op)
        <4>1. ~(e <= a.op.off)
          BY <1>2, <1>11, <3>1
        <4>. QED  BY <1>18, <4>1, Zenon
      <3>2. CASE ~App(a.op)
        BY <1>18, <3>2, Zenon
      <3>. QED  BY <3>1, <3>2
    <2>. QED  BY <1>12, <1>16, <1>18, <2>1, Zenon
  <1>. HIDE DEF e
  <1>19. ASSUME NEW b \in Nat, e <= b
         PROVE  /\ \A q \in Seq(Statuses) : \A h : OrderedOk(q, b, h) /\ OkIn(q, f) => OkIn(q, g)
                /\ \A s \in Seq(Ops) : \A h : Ordered(s, b, h) /\ AppsIn(s, f) => AppsIn(s, g)
    <2>1. ASSUME NEW q \in Seq(Statuses), NEW h, OrderedOk(q, b, h), OkIn(q, f),
                 NEW j \in 1 .. Len(q), OkApp(q[j])
          PROVE  Has(g, q[j].op)
      <3>1. q[j].op \in Ops /\ q[j].op.off \in Nat
        BY OpOffsets, Zenon
      <3>2. b <= q[j].op.off /\ Has(f, q[j].op) /\ App(q[j].op)
        BY <2>1, Zenon DEF OrderedOk, OkIn, OkApp, App
      <3>3. e <= q[j].op.off
        BY <1>14, <1>19, <3>1, <3>2, Transitive, Zenon
      <3>. QED  BY <1>18, <3>1, <3>2, <3>3, Zenon
    <2>2. ASSUME NEW s \in Seq(Ops), NEW h, Ordered(s, b, h), AppsIn(s, f),
                 NEW j \in 1 .. Len(s), App(s[j])
          PROVE  Has(g, s[j])
      <3>1. s[j] \in Ops /\ s[j].off \in Nat
        BY OpOffsets, Zenon
      <3>2. b <= s[j].off /\ Has(f, s[j])
        BY <2>2, Zenon DEF Ordered, AppsIn
      <3>3. e <= s[j].off
        BY <1>14, <1>19, <3>1, <3>2, Transitive, Zenon
      <3>. QED  BY <1>18, <2>2, <3>1, <3>2, <3>3, Zenon
    <2>. QED  BY <2>1, <2>2, Zenon DEF OkIn, AppsIn
  <1>20. OrderedOk(pend[i], e, d)
    <2>1. ASSUME App(a.op), NEW j \in 1 .. Len(pend[i]), OkApp(pend[i][j])
          PROVE  c + 1 <= pend[i][j].op.off
      <3>1. c < pend[i][j].op.off
        BY <1>8, <1>11, <1>12, <2>1, Zenon DEF Before
      <3>2. pend[i][j].op.off \in Nat
        BY <1>2, OpOffsets, Zenon
      <3>. QED  BY <1>2, <3>1, <3>2, Bounds, Zenon
    <2>. QED  BY <1>8, <2>1, Zenon DEF OrderedOk, e
  <1>21. Before(g, pend[i])
    <2>1. ASSUME NEW j \in 1 .. Len(g), NEW l \in 1 .. Len(pend[i]), App(g[j]), OkApp(pend[i][l])
          PROVE  g[j].off < pend[i][l].op.off
      <3>1. PICK n \in 1 .. Len(f) : f[n] = g[j]
        BY <1>16, Zenon DEF Has
      <3>. QED  BY <1>8, <2>1, <3>1, Zenon DEF Before
    <2>. QED  BY <2>1, Zenon DEF Before
  <1>22. Local(i)'
    BY <1>5, <1>8, <1>14, <1>17, <1>20, <1>21, Zenon DEF Local, d
  <1>23. Edge(i)'
    <2>1. OkIn(t, g)
      <3>1. e <= e
        BY <1>14
      <3>. QED  BY <1>3, <1>14, <1>15, <1>19, <3>1, Zenon
    <2>2. ASSUME Open(i + 1)
          PROVE  AppsIn(link[i], g) /\ AppsIn(flight[i + 1], g) /\ OkIn(pend[i + 1], g)
      <3>1. /\ Ordered(link[i], Len(data[i + 1]), d) /\ AppsIn(link[i], f)
            /\ AppsIn(flight[i + 1], f) /\ OkIn(pend[i + 1], f)
        BY <1>9, <2>2, Zenon DEF Edge, f, d
      <3>2. /\ Ordered(flight[i + 1], c2, Len(data[i + 1])) /\ OrderedOk(pend[i + 1], c2, Len(data[i + 1]))
        BY <1>1, <2>2, Zenon DEF ChainInv, Local, c2
      <3>3. c2 <= Len(data[i + 1])
        BY <1>1, <2>2 DEF ChainInv, Commits, Open, c2
      <3>4. e <= Len(data[i + 1])
        BY <1>2, <1>14, <3>3, Transitive, Zenon
      <3>. QED  BY <1>2, <1>14, <1>19, <3>1, <3>2, <3>4, Zenon
    <2>3. commit'[i + 1] = c2 /\ flight'[i + 1] = flight[i + 1]
      BY <1>1, <1>5, Zenon DEF c2
    <2>. QED  BY <1>5, <1>7, <1>9, <1>14, <1>15, <2>1, <2>2, <2>3, Zenon DEF Edge, Open, d
  <1>24. Commits'
    <2>1. \A j \in Pos : st'[j] # "stable" \/ j = 1 => commit'[j] <= Len(data'[j])
      <3>1. commit'[i] <= Len(data'[i])
        BY <1>14, Zenon DEF d
      <3>. QED  BY <3>1, Zenon DEF ChainInv, Commits
    <2>2. ASSUME NEW j \in Pos, NEW l \in Pos, j <= l PROVE commit'[j] <= commit'[l]
      <3>0. commit[j] \in Nat /\ commit[l] \in Nat
        BY PositionTypes
      <3>1. CASE j # i /\ l # i
        BY <2>2, <3>1, Zenon DEF ChainInv, Commits
      <3>2. CASE j = i /\ l # i
        <4>1. i + 1 <= l
          BY <2>2, <3>2, Neighbours, PosFacts, Zenon
        <4>2. c2 <= commit[l]
          BY <1>1, <4>1, Zenon DEF ChainInv, Commits, c2
        <4>. QED  BY <1>2, <1>14, <3>0, <3>2, <4>2
      <3>3. CASE j # i /\ l = i
        <4>1. commit[j] <= c
          BY <2>2, <3>3, Zenon DEF ChainInv, Commits, c
        <4>. QED  BY <1>2, <1>14, <3>0, <3>3, <4>1
      <3>4. CASE j = i /\ l = i
        BY <1>14, <3>4
      <3>. QED  BY <3>1, <3>2, <3>3, <3>4
    <2>. QED  BY <1>1, <1>5, <2>1, <2>2, PosFacts, Zenon DEF ChainInv, Commits
  <1>25. Elsewhere(i)
    BY <1>5, <1>7, Zenon DEF Elsewhere
  <1>26. ASSUME i > 1 PROVE Edge(i - 1)'
    <2>. DEFINE b == i - 1
    <2>1. b \in Pos /\ b # i /\ b + 1 = i /\ b < N /\ b <= i
      BY <1>26, Neighbours, Zenon
    <2>2. reply'[b] = reply[b] \o <<a>>
      BY <1>7, <1>26, Zenon
    <2>. HIDE DEF b
    <2>3. reply[b] \in Seq(Statuses) /\ commit[b] \in Nat /\ commit[b] <= c /\ Edge(b)
      BY <2>1, PositionTypes, Zenon DEF ChainInv, Commits, c
    <2>4. ASSUME Open(b)
          PROVE  /\ OrderedOk(reply'[b], commit[b], e) /\ Covers(reply'[b], commit[b], e)
                 /\ OkIn(reply'[b], flight[b]) /\ AppsIn(g, flight[b])
      <3>1. /\ OrderedOk(reply[b], commit[b], c) /\ Covers(reply[b], commit[b], c)
            /\ OkIn(reply[b], flight[b]) /\ AppsIn(f, flight[b])
        BY <2>1, <2>3, <2>4, Zenon DEF Edge, c, f
      <3>2. PICK x \in Seq(Statuses) : x = <<a>> /\ Len(x) = 1 /\ x[1] = a
        BY <1>6, Zenon
      <3>3. \A j \in 1 .. Len(x) : x[j] = a
        BY <3>2
      <3>4. OkApp(a) <=> App(a.op)
        BY DEF OkApp, App
      <3>5. OrderedOk(x, c, e) /\ Covers(x, c, e)
        <4>1. CASE App(a.op)
          BY <1>2, <1>11, <3>2, <3>4, <4>1, SingleReply, Zenon DEF e
        <4>2. CASE ~App(a.op)
          BY <1>2, <3>2, <3>4, <4>2, SingleReply, Zenon DEF e
        <4>. QED  BY <4>1, <4>2
      <3>6. OkIn(x, flight[b])
        BY <1>12, <3>1, <3>3, <3>4, Zenon DEF OkIn, AppsIn
      <3>7. /\ OrderedOk(reply[b] \o x, commit[b], e) /\ Covers(reply[b] \o x, commit[b], e)
            /\ OkIn(reply[b] \o x, flight[b])
        BY <1>2, <1>14, <2>3, <3>1, <3>5, <3>6, OkConcat, Zenon
      <3>8. ASSUME NEW j \in 1 .. Len(g), App(g[j]) PROVE Has(flight[b], g[j])
        <4>1. PICK n \in 1 .. Len(f) : f[n] = g[j]
          BY <1>16, Zenon DEF Has
        <4>. QED  BY <3>1, <3>8, <4>1, Zenon DEF AppsIn
      <3>. QED  BY <2>2, <3>2, <3>7, <3>8, Zenon DEF AppsIn
    <2>5. commit'[b] = commit[b] /\ flight'[b] = flight[b]
      BY <1>5, <2>1, Zenon
    <2>6. Edge(b)'
      BY <1>5, <1>14, <2>1, <2>3, <2>4, <2>5, Zenon DEF Edge, Open
    <2>. QED  BY <2>6 DEF b
  <1>. QED  BY <1>1, <1>22, <1>23, <1>24, <1>25, <1>26, ChainFrame, Zenon

\* A reply to an op that is no longer in flight is dropped.
LEMMA ChainDrops ==
    ASSUME TypeInv, TypeInv', ChainInv, NEW i \in Pos, i < N, reply[i] # <<>>,
           \A k \in 1 .. Len(flight[i]) : flight[i][k] # Head(reply[i]).op,
           reply' = [reply EXCEPT ![i] = Tail(reply[i])],
           UNCHANGED <<st, data, commit, pend, flight, link>>
    PROVE  ChainInv'
  <1>1. /\ i + 1 \in Pos /\ i + 1 # i /\ i # i - 1 /\ N # i
        /\ i > 1 => i - 1 \in Pos /\ i - 1 < N /\ (i - 1) + 1 = i /\ i - 1 # i
    BY Neighbours, Zenon
  <1>2. /\ reply[i] \in Seq(Statuses) /\ commit[i] \in Nat /\ commit[i + 1] \in Nat
        /\ Len(data[i]) \in Nat /\ Head(reply[i]) = reply[i][1] /\ 1 \in 1 .. Len(reply[i])
    BY <1>1, PositionTypes, TailFacts
  <1>3. reply'[i] = Tail(reply[i]) /\ \A j \in Pos : j # i => reply'[j] = reply[j]
    BY Zenon DEF TypeInv, ChainType
  <1>4. Elsewhere(i) /\ Commits' /\ Local(i)'
    BY <1>3, Zenon DEF Elsewhere, ChainInv, Commits, Local, Open
  <1>5. Edge(i)'
    <2>1. ASSUME Open(i) PROVE /\ OrderedOk(reply'[i], commit[i], commit[i + 1])
                               /\ Covers(reply'[i], commit[i], commit[i + 1])
                               /\ OkIn(reply'[i], flight[i])
      <3>1. /\ OrderedOk(reply[i], commit[i], commit[i + 1]) /\ OkIn(reply[i], flight[i])
            /\ Covers(reply[i], commit[i], commit[i + 1])
        BY <2>1, Zenon DEF ChainInv, Edge
      <3>2. ~OkApp(Head(reply[i]))
        BY <1>2, <3>1, Zenon DEF OkIn, Has
      <3>. QED  BY <1>2, <1>3, <3>1, <3>2, OkTail
    <2>. QED  BY <2>1, Zenon DEF ChainInv, Edge, Open
  <1>6. ASSUME i > 1 PROVE Edge(i - 1)'
    BY <1>1, <1>3, <1>6, Zenon DEF ChainInv, Edge, Open
  <1>. QED  BY <1>1, <1>4, <1>5, <1>6, ChainFrame, Zenon

\* The first reply is not to anything in flight, and is dropped.
Drops(i) ==
    /\ reply[i] # <<>> /\ \A k \in 1 .. Len(flight[i]) : flight[i][k] # Head(reply[i]).op
    /\ reply' = [reply EXCEPT ![i] = Tail(reply[i])]
    /\ UNCHANGED <<st, data, commit, pend, flight, link>>

\* The first reply confirms the k-th op in flight, and the answer is a.
Confirms(i, k, a) ==
    /\ Open(i) /\ reply[i] # <<>> /\ Head(reply[i]).ok /\ flight[i][k] = Head(reply[i]).op
    /\ flight' = [flight EXCEPT ![i] = Without(flight[i], k)]
    /\ a.op = Head(reply[i]).op /\ a.ok
    /\ reply' = RepliesTo([reply EXCEPT ![i] = Tail(reply[i])], i, <<a>>)
    /\ commit'[i] = IF App(a.op) THEN commit[i] + 1 ELSE commit[i]
    /\ \A j \in Pos : j # i => commit'[j] = commit[j]
    /\ UNCHANGED <<st, data, pend, link>>

\* Position i is not open afterwards, and what it answers is that ops failed.
Fails(i) ==
    /\ Elsewhere(i) /\ UNCHANGED <<commit, pend>> /\ st'[i] # "open"
    /\ Len(data'[i]) <= Len(data[i])
    /\ st'[i] # "stable" \/ i = 1 => commit[i] <= Len(data'[i])
    /\ i > 1 => \E r \in Seq(Statuses) : NoneOk(r) /\ reply'[i - 1] = reply[i - 1] \o r

\* That is what OpDone does.
LEMMA OpDoneMoves ==
    ASSUME TypeInv, ChainInv, NEW i \in Pos, OpDone(i)
    PROVE  /\ i < N /\ link' = link
           /\ \/ Drops(i) \/ Fails(i)
              \/ \E k \in 1 .. Len(flight[i]), a \in Statuses : Confirms(i, k, a)
  <1>. DEFINE r == Head(reply[i])
              t == Tail(reply[i])
  <1>1. /\ i < N /\ reply[i] # <<>> /\ UNCHANGED <<pend, link>> /\ i # N
    <2>1. i < N /\ reply[i] # <<>> /\ UNCHANGED <<pend, link>>
      BY Zenon DEF OpDone
    <2>. QED  BY <2>1, Neighbours, Zenon
  <1>2. /\ reply[i] \in Seq(Statuses) /\ flight[i] \in Seq(Ops) /\ commit[i] \in Nat
        /\ data[i] \in Seq(Record) /\ Len(data[i]) \in Nat
    BY PositionTypes
  <1>3. t \in Seq(Statuses) /\ r \in Statuses /\ r.op \in Ops /\ r.ok \in BOOLEAN
    BY <1>1, <1>2, TailFacts, StatusFacts, Zenon DEF Statuses
  <1>4. ASSUME \A k \in DOMAIN flight[i] : flight[i][k] # r.op,
               reply' = [reply EXCEPT ![i] = t], UNCHANGED <<commit, flight>>, KeepState
        PROVE  Drops(i)
    <2>1. \A k \in 1 .. Len(flight[i]) : flight[i][k] # r.op
      BY <1>2, <1>4
    <2>. QED  BY <1>1, <1>4, <2>1, Zenon DEF KeepState, Drops
  <1>5. ASSUME NEW k \in DOMAIN flight[i], flight[i][k] = r.op,
               flight' = [flight EXCEPT ![i] = Without(flight[i], k)],
               NEW good \in BOOLEAN, good <=> st[i] = "open" /\ r.ok,
               reply' = RepliesTo([reply EXCEPT ![i] = t], i, Answer(<<r.op>>, good)),
               IF good THEN CommitOps(i, <<r.op>>) ELSE UNCHANGED <<commit, wid, acked>>,
               IF st[i] = "open" /\ ~r.ok THEN SetFailed(i) ELSE KeepState
        PROVE  (\E l \in 1 .. Len(flight[i]), a \in Statuses : Confirms(i, l, a)) \/ Fails(i)
    <2>. HIDE DEF r, t
    <2>1. PICK ops : ops = <<r.op>>
      BY Zenon
    <2>2. ops \in Seq(Ops) /\ Len(ops) = 1 /\ ops[1] = r.op
      BY <1>3, <2>1
    <2>3. PICK rs : rs = Answer(ops, good)
      BY Zenon
    <2>4. /\ rs \in Seq(Statuses) /\ Len(rs) = 1 /\ rs[1].op = r.op /\ rs[1].ok = good
      BY <2>2, <2>3, AnswerFacts
    <2>5. reply' = RepliesTo([reply EXCEPT ![i] = t], i, rs)
      BY <1>5, <2>1, <2>3, Zenon
    <2>6. k \in 1 .. Len(flight[i])
      BY <1>2, <1>5, SequenceDomain, Zenon
    <2>7. CASE good
      <3>1. st[i] = "open" /\ r.ok /\ KeepState /\ CommitOps(i, ops)
        BY <1>5, <2>1, <2>7, Zenon
      <3>2. UNCHANGED <<st, data>>
        BY <3>1, Zenon DEF KeepState
      <3>3. /\ commit'[i] = commit[i] + Cardinality(AppendsOf(ops))
            /\ \A j \in Pos : j # i => commit'[j] = commit[j]
        BY <2>2, <3>1, CommitFacts
      <3>4. commit'[i] = IF App(r.op) THEN commit[i] + 1 ELSE commit[i]
        <4>1. CASE App(r.op)
          <5>1. AppendsOf(ops) = {1}
            BY <2>2, <4>1 DEF AppendsOf, App
          <5>2. Cardinality({1}) = 1
            BY DEF TypeInv, Counting
          <5>. QED  BY <1>2, <3>3, <4>1, <5>1, <5>2
        <4>2. CASE ~App(r.op)
          <5>1. AppendsOf(ops) = {}
            BY <2>2, <4>2 DEF AppendsOf, App
          <5>2. Cardinality({}) = 0
            BY DEF TypeInv, Counting
          <5>. QED  BY <1>2, <3>3, <4>2, <5>1, <5>2
        <4>. QED  BY <4>1, <4>2
      <3>5. PICK a \in Statuses : a = rs[1] /\ a.op = r.op /\ a.ok
        <4>1. rs[1] \in Statuses
          <5>1. rs \in Seq(Statuses) /\ 1 \in 1 .. Len(rs)
            BY <2>4
          <5>. QED  BY <5>1, StatusFacts, Zenon
        <4>. QED  BY <2>4, <2>7, <4>1, Zenon
      <3>6. rs = <<a>>
        BY <2>4, <3>5
      <3>7. Confirms(i, k, a)
        BY <1>1, <1>5, <2>5, <3>1, <3>2, <3>3, <3>4, <3>5, <3>6, Zenon DEF Confirms, Open, r, t
      <3>. QED  BY <2>6, <3>7, Zenon
    <2>8. CASE ~good
      <3>1. commit' = commit
        BY <1>5, <2>8, Zenon
      <3>2. NoneOk(rs)
        BY <2>4, <2>8 DEF NoneOk
      <3>3. /\ \A j \in Pos : j # i => st'[j] = st[j] /\ data'[j] = data[j]
            /\ st'[i] # "open" /\ Len(data'[i]) <= Len(data[i])
            /\ st'[i] # "stable" \/ i = 1 => commit[i] <= Len(data'[i])
        <4>1. CASE st[i] = "open" /\ ~r.ok
          BY <1>5, <4>1, SetFailedFacts, Zenon
        <4>2. CASE st[i] # "open"
          <5>1. UNCHANGED <<st, data>>
            BY <1>5, <4>2, Zenon DEF KeepState
          <5>. QED  BY <1>2, <4>2, <5>1 DEF ChainInv, Commits
        <4>. QED  BY <1>3, <1>5, <2>8, <4>1, <4>2, Zenon
      <3>4. /\ \A j \in Pos : j # i /\ j # i - 1 => reply'[j] = reply[j]
            /\ i > 1 => reply'[i - 1] = reply[i - 1] \o rs
        BY <1>3, <2>4, <2>5, RepliesMove, Zenon
      <3>5. \A j \in Pos : j # i => flight'[j] = flight[j]
        BY <1>5, Zenon DEF TypeInv, ChainType
      <3>6. Elsewhere(i)
        BY <1>1, <3>1, <3>3, <3>4, <3>5, Zenon DEF Elsewhere
      <3>. QED  BY <1>1, <2>4, <3>1, <3>2, <3>3, <3>4, <3>6, Zenon DEF Fails
    <2>. QED  BY <2>7, <2>8
  <1>6. \/ /\ \A k \in DOMAIN flight[i] : flight[i][k] # r.op
           /\ reply' = [reply EXCEPT ![i] = t]
           /\ UNCHANGED <<commit, flight>> /\ KeepState
        \/ \E k \in DOMAIN flight[i], good \in BOOLEAN :
           /\ flight[i][k] = r.op
           /\ flight' = [flight EXCEPT ![i] = Without(flight[i], k)]
           /\ good <=> st[i] = "open" /\ r.ok
           /\ reply' = RepliesTo([reply EXCEPT ![i] = t], i, Answer(<<r.op>>, good))
           /\ IF good THEN CommitOps(i, <<r.op>>) ELSE UNCHANGED <<commit, wid, acked>>
           /\ IF st[i] = "open" /\ ~r.ok THEN SetFailed(i) ELSE KeepState
    BY Zenon DEF OpDone
  <1>. HIDE DEF r, t
  <1>. QED  BY <1>1, <1>4, <1>5, <1>6, Zenon

\* The reply of the successor keeps the chain.
LEMMA ChainOpDone ==
    ASSUME TypeInv, TypeInv', ChainInv, NEW i \in Pos, OpDone(i)
    PROVE  ChainInv'
  <1>1. i < N /\ i # N /\ link' = link
    BY OpDoneMoves, Neighbours, Zenon
  <1>2. CASE Drops(i)
    BY <1>1, <1>2, ChainDrops, Zenon DEF Drops
  <1>3. CASE Fails(i)
    BY <1>1, <1>3, ChainFails, Zenon DEF Fails
  <1>4. ASSUME NEW k \in 1 .. Len(flight[i]), NEW a \in Statuses, Confirms(i, k, a) PROVE ChainInv'
    BY <1>1, <1>4, ChainCommits, Zenon DEF Confirms
  <1>. QED  BY <1>2, <1>3, <1>4, OpDoneMoves, Zenon

\* The connection to the successor breaks.
LEMMA PeerFailedMoves ==
    ASSUME TypeInv, ChainInv, NEW i \in Pos, PeerFailed(i)
    PROVE  /\ i < N /\ Fails(i)
           /\ \E n \in 0 .. Len(link[i]) : link' = [link EXCEPT ![i] = SubSeq(link[i], 1, n)]
  <1>1. /\ i < N /\ UNCHANGED <<commit, pend>> /\ i # N
        /\ reply' = RepliesTo([reply EXCEPT ![i] = <<>>], i, Answer(flight[i], FALSE))
    <2>1. /\ i < N /\ UNCHANGED <<commit, pend>>
          /\ reply' = RepliesTo([reply EXCEPT ![i] = <<>>], i, Answer(flight[i], FALSE))
      BY Zenon DEF PeerFailed
    <2>. QED  BY <2>1, Neighbours, Zenon
  <1>2. flight[i] \in Seq(Ops) /\ Len(data[i]) \in Nat
    BY PositionTypes
  <1>3. PICK rs : rs = Answer(flight[i], FALSE)
    BY Zenon
  <1>4. rs \in Seq(Statuses) /\ NoneOk(rs)
    BY <1>2, <1>3, AnswerNoneOk, Zenon
  <1>5. PICK x \in Seq(Statuses) : x = <<>>
    <2>1. <<>> \in Seq(Statuses)
      OBVIOUS
    <2>. QED  BY <2>1, Zenon
  <1>6. reply' = RepliesTo([reply EXCEPT ![i] = x], i, rs)
    BY <1>1, <1>3, <1>5, Zenon
  <1>7. /\ \A j \in Pos : j # i /\ j # i - 1 => reply'[j] = reply[j]
        /\ i > 1 => reply'[i - 1] = reply[i - 1] \o rs
    BY <1>4, <1>5, <1>6, RepliesMove, Zenon
  <1>8. \A j \in Pos : j # i => flight'[j] = flight[j] /\ link'[j] = link[j]
    BY Zenon DEF PeerFailed, TypeInv, ChainType
  <1>9. /\ \A j \in Pos : j # i => st'[j] = st[j] /\ data'[j] = data[j]
        /\ st'[i] # "open" /\ Len(data'[i]) <= Len(data[i])
        /\ st'[i] # "stable" \/ i = 1 => commit[i] <= Len(data'[i])
    <2>1. CASE st[i] = "open"
      BY <2>1, SetFailedFacts, Zenon DEF PeerFailed
    <2>2. CASE st[i] # "open"
      <3>1. UNCHANGED <<st, data>>
        BY <2>2, Zenon DEF PeerFailed, KeepState
      <3>. QED  BY <1>2, <2>2, <3>1 DEF ChainInv, Commits
    <2>. QED  BY <2>1, <2>2
  <1>10. Elsewhere(i)
    BY <1>1, <1>7, <1>8, <1>9, Zenon DEF Elsewhere
  <1>11. \E n \in 0 .. Len(link[i]) : link' = [link EXCEPT ![i] = SubSeq(link[i], 1, n)]
    BY Zenon DEF PeerFailed
  <1>. QED  BY <1>1, <1>4, <1>7, <1>9, <1>10, <1>11, Zenon DEF Fails

\* It keeps the chain.
LEMMA ChainPeerFailed ==
    ASSUME TypeInv, TypeInv', ChainInv, NEW i \in Pos, PeerFailed(i)
    PROVE  ChainInv'
  <1>1. i < N /\ i # N /\ Fails(i)
    BY PeerFailedMoves, Neighbours, Zenon
  <1>. QED  BY <1>1, ChainFails, Zenon DEF Fails

-----------------------------------------------------------------------------
(* Every step keeps the chain.                                             *)

\* Initially nothing is committed, in flight or on a wire.
LEMMA ChainInit == Init => ChainInv /\ Decided
  <1>. SUFFICES ASSUME Init PROVE ChainInv /\ Decided
    OBVIOUS
  <1>1. \A i \in Pos : /\ data[i] = <<>> /\ commit[i] = 0 /\ pend[i] = <<>> /\ flight[i] = <<>>
                       /\ link[i] = <<>> /\ reply[i] = <<>>
    BY DEF Init
  <1>2. Len(<<>>) = 0 /\ 0 <= 0 /\ \A q : Covers(q, 0, 0)
    BY DEF Covers
  <1>3. Commits
    <2>1. \A k : ~(k \in 1 .. Len(<<>>))
      OBVIOUS
    <2>. QED  BY <1>1, <1>2, <2>1, PosFacts, Zenon DEF Commits
  <1>4. \A i \in Pos : Local(i)
    BY <1>1, EmptyFacts, Zenon DEF Local
  <1>5. ASSUME NEW i \in Pos, i < N PROVE Edge(i)
    <2>1. i + 1 \in Pos
      BY <1>5, Neighbours, Zenon
    <2>. QED  BY <1>1, <1>2, <2>1, EmptyFacts, Zenon DEF Edge
  <1>6. LastWaits
    BY <1>1, <1>2, PosFacts, Zenon DEF LastWaits
  <1>7. Decided
    BY Zenon DEF Init, Decided
  <1>. QED  BY <1>3, <1>4, <1>5, <1>6, <1>7, Zenon DEF ChainInv

\* Every step keeps the chain.
LEMMA ChainStep ==
    ASSUME TypeInv, TypeInv', ChainInv, Decided, [Next]_vars
    PROVE  ChainInv'
  <1>1. CASE UNCHANGED vars
    BY <1>1, ChainKept, Zenon DEF vars, appender, wires
  <1>2. ASSUME NEW w \in Wids, ClientAppend(w) \/ CloseChunk(w)
        PROVE  ChainInv'
    BY <1>2, ChainMasterTakes, ChainCloses, Zenon
  <1>3. CASE LeaseExpired \/ TryToCloseChunk
    <2>1. st[1] = "open" /\ SetFailed(1) /\ UNCHANGED <<commit, wires>>
      BY <1>3, Zenon DEF LeaseExpired, TryToCloseChunk
    <2>. QED  BY <2>1, ChainSetFailed, PosFacts, Zenon
  <1>4. CASE SendCommitAck
    BY <1>4, ChainMasterTakes
  <1>5. CASE LeaseClerkExpires \/ BeginMakeChunkStable \/ BeginMakeChunkStableDone \/ LeaseRelinquish
    BY <1>5, ChainKept, Zenon
       DEF LeaseClerkExpires, BeginMakeChunkStable, BeginMakeChunkStableDone, LeaseRelinquish, appender
  <1>6. ASSUME NEW i \in Pos, AppendBegin(i) \/ RunPendingSubmitQueue(i) \/ OpDone(i) \/ PeerFailed(i)
        PROVE  ChainInv'
    BY <1>6, ChainTakes, ChainRuns, ChainOpDone, ChainPeerFailed, Zenon
  <1>7. ASSUME NEW i \in Pos, ReplicationTimeout(i) \/ \E w \in Wids : InvalidateWriteId(i, w)
        PROVE  ChainInv'
    <2>1. st[i] = "open" /\ SetFailed(i) /\ UNCHANGED <<commit, wires>>
      BY <1>7, Zenon DEF ReplicationTimeout, InvalidateWriteId
    <2>. QED  BY <2>1, ChainSetFailed, Zenon
  <1>8. ASSUME NEW i \in Pos, Lose(i) \/ BeginMakeStable(i) PROVE ChainInv'
    BY <1>8, ChainMakeStable, Zenon
  <1>9. ASSUME NEW i \in Pos, MakeChunkStable(i) PROVE ChainInv'
    <2>1. decision # NoData /\ decision \in Seq(Record)
      BY <1>9 DEF MakeChunkStable, TypeInv, MetaType
    <2>2. PICK j \in Pos : commit[j] <= Len(decision)
      BY <2>1, Zenon DEF Decided
    <2>3. commit[1] <= commit[j] /\ commit[1] \in Nat /\ commit[j] \in Nat
      <3>1. 1 <= j
        BY DEF Pos
      <3>. QED  BY <3>1, PosFacts, PositionTypes, Zenon DEF ChainInv, Commits
    <2>4. commit[1] <= Len(decision)
      BY <2>1, <2>2, <2>3
    <2>. QED  BY <1>9, <2>4, ChainMakeStable, Zenon
  <1>10. ASSUME NEW i \in Pos, CloseForwarded(i) PROVE ChainInv'
    BY <1>10, ChainCloses, Zenon
  <1>11. ASSUME NEW i \in Pos, NEW w \in Wids, GetOpStatus(i, w) PROVE ChainInv'
    BY <1>11, ChainKept, Zenon DEF GetOpStatus
  <1>. QED  BY <1>1, <1>2, <1>3, <1>4, <1>5, <1>6, <1>7, <1>8, <1>9, <1>10, <1>11 DEF Next

-----------------------------------------------------------------------------
(* The order of the ops.                                                   *)

\* Offset o is the one of an append of s, or of a successful append of q.
OffIn(s, o)   == \E k \in 1 .. Len(s) : App(s[k]) /\ s[k].off = o
OkOffIn(q, o) == \E k \in 1 .. Len(q) : OkApp(q[k]) /\ q[k].op.off = o
AllOk(q) == \A k \in 1 .. Len(q) : q[k].ok

\* The appends of s come one after the other from offset d on.
InTurn(s, d) ==
    /\ \A j, k \in 1 .. Len(s) : j < k /\ App(s[j]) /\ App(s[k]) => s[j].off < s[k].off
    /\ \A k \in 1 .. Len(s) : App(s[k]) => d <= s[k].off /\ \A o \in d .. s[k].off - 1 : OffIn(s, o)

\* The offsets from d to before e are those of the appends of s and q.
Waits(s, q, d, e) == \A o \in d .. e - 1 : OffIn(s, o) \/ OkOffIn(q, o)

\* The successful commit acks of q are at offset c or later, past every append
\* before them.
Behind(q, c) ==
    \A k \in 1 .. Len(q) : q[k].ok /\ ~App(q[k].op) =>
        /\ c <= q[k].op.off
        /\ \A j \in 1 .. Len(q) : j < k /\ OkApp(q[j]) => q[j].op.off < q[k].op.off

\* What a position forwards reaches its successor in turn; what it has and the
\* successor has not is on the way; and the successor's answers come in turn.
LinkOrder(i) == Open(i + 1) /\ AllOk(pend[i + 1]) => InTurn(link[i], Len(data[i + 1]))

PendOrder(i) == Open(i) /\ Open(i + 1) /\ AllOk(pend[i + 1]) =>
                   Waits(link[i], pend[i], Len(data[i + 1]), Len(data[i]))
ReplyOrder(i) == Open(i) => Behind(reply[i], commit[i])

\* What the master has not committed is in flight or queued; the last position
\* answers in turn.
MasterWaits == Open(1) => Waits(flight[1], pend[1], commit[1], Len(data[1]))
LastAcks    == Open(N) => Behind(pend[N], commit[N])

Order ==
    /\ MasterWaits /\ LastAcks
    /\ \A i \in Pos : i < N => LinkOrder(i) /\ PendOrder(i) /\ ReplyOrder(i)

\* A commit ack, or a close, says no more than what the master has committed.
AckUpTo(o, c) == ~App(o) => o.off <= c
AcksUpTo(c) ==
    \A i \in Pos :
        /\ \A k \in 1 .. Len(pend[i]) : AckUpTo(pend[i][k].op, c)
        /\ \A k \in 1 .. Len(link[i]) : AckUpTo(link[i][k], c)
        /\ Open(i) => \A k \in 1 .. Len(reply[i]) : reply[i][k].ok => AckUpTo(reply[i][k].op, c)
AckBound == AcksUpTo(commit[1])

-----------------------------------------------------------------------------
(* Sequences.                                                              *)

\* The first append in turn is the next one.
LEMMA InTurnTail ==
    ASSUME NEW s \in Seq(Ops), s # <<>>, NEW d \in Nat, InTurn(s, d)
    PROVE  /\ ~App(Head(s)) => InTurn(Tail(s), d)
           /\ App(Head(s)) => Head(s).off = d /\ InTurn(Tail(s), d + 1)
           /\ \A o : OffIn(s, o) => OffIn(Tail(s), o) \/ (App(Head(s)) /\ o = Head(s).off)
  <1>1. /\ Head(s) = s[1] /\ Len(s) \in Nat /\ Len(s) >= 1 /\ Len(Tail(s)) = Len(s) - 1
        /\ \A k \in 1 .. Len(s) - 1 : Tail(s)[k] = s[k + 1]
        /\ \A k \in 1 .. Len(s) : s[k].off \in Nat
    BY TailFacts, OpOffsets
  <1>2. \A k : k \in 2 .. Len(s) => k - 1 \in 1 .. Len(Tail(s)) /\ Tail(s)[k - 1] = s[k]
    BY <1>1
  <1>3. \A k \in 1 .. Len(Tail(s)) : k + 1 \in 2 .. Len(s) /\ k + 1 \in 1 .. Len(s) /\ Tail(s)[k] = s[k + 1]
    BY <1>1
  <1>4. ASSUME NEW o, OffIn(s, o), ~(App(s[1]) /\ o = s[1].off) PROVE OffIn(Tail(s), o)
    <2>1. PICK j \in 1 .. Len(s) : App(s[j]) /\ s[j].off = o
      BY <1>4, Zenon DEF OffIn
    <2>2. j # 1
      BY <1>4, <2>1, Zenon
    <2>3. j \in 2 .. Len(s)
      BY <1>1, <2>2
    <2>. QED  BY <1>2, <2>1, <2>3, Zenon DEF OffIn
  <1>5. ASSUME NEW k \in 1 .. Len(Tail(s)), App(Tail(s)[k])
        PROVE  /\ d <= Tail(s)[k].off /\ Tail(s)[k].off \in Nat
               /\ \A o \in d .. Tail(s)[k].off - 1 : OffIn(s, o)
               /\ App(s[1]) => s[1].off < Tail(s)[k].off
    <2>1. k + 1 \in 1 .. Len(s) /\ Tail(s)[k] = s[k + 1] /\ 1 \in 1 .. Len(s) /\ 1 < k + 1
      BY <1>1, <1>3
    <2>. QED  BY <1>1, <1>5, <2>1, Zenon DEF InTurn
  <1>6. ASSUME NEW j \in 1 .. Len(Tail(s)), NEW k \in 1 .. Len(Tail(s)), j < k,
               App(Tail(s)[j]), App(Tail(s)[k])
        PROVE  Tail(s)[j].off < Tail(s)[k].off
    <2>1. j + 1 < k + 1
      BY <1>6
    <2>. QED  BY <1>3, <1>6, <2>1, Zenon DEF InTurn
  <1>7. ASSUME ~App(s[1]) PROVE InTurn(Tail(s), d)
    BY <1>4, <1>5, <1>6, <1>7, Zenon DEF InTurn
  <1>8. ASSUME App(s[1]) PROVE s[1].off = d /\ InTurn(Tail(s), d + 1)
    <2>1. s[1].off = d
      <3>1. d <= s[1].off /\ 1 \in 1 .. Len(s)
        <4>1. 1 \in 1 .. Len(s)
          BY <1>1
        <4>. QED  BY <1>8, <4>1, Zenon DEF InTurn
      <3>. SUFFICES ASSUME d # s[1].off PROVE FALSE
        OBVIOUS
      <3>2. d \in d .. s[1].off - 1
        BY <1>1, <3>1
      <3>3. PICK j \in 1 .. Len(s) : App(s[j]) /\ s[j].off = d
        BY <1>8, <3>1, <3>2, Zenon DEF InTurn, OffIn
      <3>4. 1 < j
        BY <3>1, <3>3
      <3>5. s[1].off < d
        BY <1>8, <3>1, <3>3, <3>4, Zenon DEF InTurn
      <3>. QED  BY <1>1, <3>1, <3>5
    <2>2. ASSUME NEW k \in 1 .. Len(Tail(s)), App(Tail(s)[k])
          PROVE  /\ d + 1 <= Tail(s)[k].off
                 /\ \A o \in d + 1 .. Tail(s)[k].off - 1 : OffIn(Tail(s), o)
      <3>1. d + 1 <= Tail(s)[k].off
        BY <1>5, <1>8, <2>1, <2>2
      <3>2. \A o \in d + 1 .. Tail(s)[k].off - 1 : o \in d .. Tail(s)[k].off - 1 /\ o # d
        BY <1>5, <2>2
      <3>. QED  BY <1>4, <1>5, <2>1, <2>2, <3>1, <3>2, Zenon
    <2>. QED  BY <1>6, <2>1, <2>2, Zenon DEF InTurn
  <1>. QED  BY <1>1, <1>4, <1>7, <1>8, Zenon

\* What is no append does not matter.
LEMMA InTurnAppend ==
    ASSUME NEW s \in Seq(Ops), NEW a \in Ops, ~App(a)
    PROVE  /\ \A d : InTurn(s, d) => InTurn(Append(s, a), d)
           /\ \A o : OffIn(s, o) => OffIn(Append(s, a), o)
  <1>1. /\ Len(s) \in Nat /\ Len(Append(s, a)) = Len(s) + 1
        /\ \A k \in 1 .. Len(s) : Append(s, a)[k] = s[k] /\ k \in 1 .. Len(Append(s, a))
        /\ \A k \in 1 .. Len(Append(s, a)) : k \in 1 .. Len(s) \/ Append(s, a)[k] = a
    BY AppendFacts
  <1>2. \A o : OffIn(s, o) => OffIn(Append(s, a), o)
    BY <1>1, Zenon DEF OffIn
  <1>3. \A k \in 1 .. Len(Append(s, a)) : App(Append(s, a)[k]) => k \in 1 .. Len(s) /\ Append(s, a)[k] = s[k]
    BY <1>1, Zenon
  <1>. QED  BY <1>2, <1>3, Zenon DEF InTurn

\* What is cut off came later.
LEMMA InTurnPrefix ==
    ASSUME NEW s \in Seq(Ops), NEW n \in 0 .. Len(s), NEW d \in Nat, InTurn(s, d)
    PROVE  InTurn(SubSeq(s, 1, n), d)
  <1>1. PICK t : t = SubSeq(s, 1, n)
    BY Zenon
  <1>2. Len(t) = n /\ \A k \in 1 .. n : t[k] = s[k] /\ k \in 1 .. Len(s)
    BY <1>1, PrefixFacts
  <1>3. ASSUME NEW k \in 1 .. n, App(s[k]), NEW o \in d .. s[k].off - 1 PROVE OffIn(t, o)
    <2>0. k \in 1 .. Len(s) /\ s[k].off \in Nat
      BY <1>2, OpOffsets, Zenon
    <2>1. PICK j \in 1 .. Len(s) : App(s[j]) /\ s[j].off = o
      BY <1>3, <2>0, Zenon DEF InTurn, OffIn
    <2>2. j # k /\ ~(k < j)
      <3>1. o < s[k].off /\ ~(s[k].off < o)
        BY <1>3, <2>0
      <3>2. o # s[k].off
        BY <2>0, <3>1
      <3>. QED  BY <1>3, <2>0, <2>1, <3>1, <3>2, Zenon DEF InTurn
    <2>3. j \in 1 .. n
      BY <2>2
    <2>. QED  BY <1>2, <2>1, <2>3, Zenon DEF OffIn
  <1>. QED  BY <1>1, <1>2, <1>3, Zenon DEF InTurn

\* What is queued is put on the wire.
LEMMA WaitsSent ==
    ASSUME NEW s \in Seq(Ops), NEW sent \in Seq(Ops), NEW q \in Seq(Statuses), SentOf(sent, q),
           OkFirst(q), Len(sent) < Len(q) => ~q[Len(sent) + 1].ok,
           NEW d \in Nat, NEW e \in Nat, Waits(s, q, d, e)
    PROVE  Waits(s \o sent, <<>>, d, e)
  <1>1. /\ Len(s) \in Nat /\ Len(sent) \in Nat /\ Len(q) \in Nat /\ Len(s \o sent) = Len(s) + Len(sent)
        /\ \A k \in 1 .. Len(s) : (s \o sent)[k] = s[k] /\ k \in 1 .. Len(s \o sent)
        /\ \A k \in 1 .. Len(sent) : (s \o sent)[Len(s) + k] = sent[k] /\ Len(s) + k \in 1 .. Len(s \o sent)
    BY ConcatFacts
  <1>2. ASSUME NEW o \in d .. e - 1 PROVE OffIn(s \o sent, o)
    <2>1. CASE OffIn(s, o)
      BY <1>1, <2>1, Zenon DEF OffIn
    <2>2. CASE OkOffIn(q, o)
      <3>1. PICK k \in 1 .. Len(q) : OkApp(q[k]) /\ q[k].op.off = o
        BY <2>2, Zenon DEF OkOffIn
      <3>2. k \in 1 .. Len(sent)
        <4>. SUFFICES ASSUME Len(sent) < k PROVE FALSE
          BY <1>1
        <4>1. Len(sent) + 1 \in 1 .. Len(q) /\ Len(sent) < Len(q)
          BY <1>1
        <4>2. q[Len(sent) + 1].ok
          <5>1. CASE Len(sent) + 1 = k
            BY <3>1, <5>1, Zenon DEF OkApp
          <5>2. CASE Len(sent) + 1 < k
            BY <3>1, <4>1, <5>2, Zenon DEF OkFirst, OkApp
          <5>. QED  BY <1>1, <5>1, <5>2
        <4>. QED  BY <4>1, <4>2
      <3>3. sent[k].off = o /\ App(sent[k])
        BY <3>1, <3>2, Zenon DEF SentOf, App, OkApp
      <3>. QED  BY <1>1, <3>2, <3>3, Zenon DEF OffIn
    <2>. QED  BY <2>1, <2>2, Zenon DEF Waits
  <1>. QED  BY <1>2, Zenon DEF Waits

\* The queue is put on the wire.
LEMMA InTurnSent ==
    ASSUME NEW s \in Seq(Ops), NEW sent \in Seq(Ops), NEW q \in Seq(Statuses), SentOf(sent, q),
           OkFirst(q), Len(sent) < Len(q) => ~q[Len(sent) + 1].ok,
           NEW d \in Nat, NEW e \in Nat, d <= e, InTurn(s, d), Ordered(s, d, e), OrderedOk(q, d, e),
           Before(s, q), Waits(s, q, d, e)
    PROVE  InTurn(s \o sent, d) /\ Waits(s \o sent, <<>>, d, e)
  <1>1. /\ Len(s) \in Nat /\ Len(sent) \in Nat /\ Len(q) \in Nat /\ Len(s \o sent) = Len(s) + Len(sent)
        /\ \A k \in 1 .. Len(s) : (s \o sent)[k] = s[k] /\ k \in 1 .. Len(s \o sent)
        /\ \A k \in 1 .. Len(sent) : (s \o sent)[Len(s) + k] = sent[k] /\ Len(s) + k \in 1 .. Len(s \o sent)
        /\ \A k \in Len(s) + 1 .. Len(s \o sent) : (s \o sent)[k] = sent[k - Len(s)] /\ k - Len(s) \in 1 .. Len(sent)
    BY ConcatFacts
  <1>2. Ordered(sent, d, e) /\ \A k \in 1 .. Len(sent) : k \in 1 .. Len(q)
    <2>1. Ordered(sent, d, e)
      BY SentOrdered, Zenon
    <2>2. Len(sent) <= Len(q)
      BY Zenon DEF SentOf
    <2>. QED  BY <1>1, <2>1, <2>2
  <1>3. \A o \in d .. e - 1 : OffIn(s \o sent, o)
    <2>1. Waits(s \o sent, <<>>, d, e)
      BY WaitsSent, Zenon
    <2>2. \A k : ~(k \in 1 .. Len(<<>>))
      OBVIOUS
    <2>. QED  BY <2>1, <2>2, Zenon DEF Waits, OkOffIn
  <1>4. Waits(s \o sent, <<>>, d, e)
    BY <1>3, Zenon DEF Waits
  <1>5. ASSUME NEW k \in 1 .. Len(s \o sent), App((s \o sent)[k])
        PROVE  /\ d <= (s \o sent)[k].off
               /\ \A o \in d .. (s \o sent)[k].off - 1 : OffIn(s \o sent, o)
    <2>1. k \in 1 .. Len(s) \/ k \in Len(s) + 1 .. Len(s \o sent)
      BY <1>1
    <2>2. d <= (s \o sent)[k].off /\ (s \o sent)[k].off < e
      BY <1>1, <1>2, <1>5, <2>1, Zenon DEF Ordered
    <2>3. (s \o sent)[k].off \in Nat
      <3>1. s \o sent \in Seq(Ops)
        BY ConcatFacts
      <3>. QED  BY <3>1, OpOffsets, Zenon
    <2>4. \A o \in d .. (s \o sent)[k].off - 1 : o \in d .. e - 1
      BY <2>2, <2>3
    <2>. QED  BY <1>3, <2>2, <2>4, Zenon
  <1>6. ASSUME NEW j \in 1 .. Len(s), NEW k \in 1 .. Len(sent), App(s[j]), App(sent[k])
        PROVE  s[j].off < sent[k].off
    BY <1>2, <1>6, Zenon DEF SentOf, Before, OkApp, App
  <1>7. ASSUME NEW j \in 1 .. Len(s \o sent), NEW k \in 1 .. Len(s \o sent), j < k,
               App((s \o sent)[j]), App((s \o sent)[k])
        PROVE  (s \o sent)[j].off < (s \o sent)[k].off
    <2>1. CASE k \in 1 .. Len(s)
      <3>1. j \in 1 .. Len(s)
        BY <1>1, <1>7, <2>1
      <3>. QED  BY <1>1, <1>7, <2>1, <3>1, Zenon DEF Ordered
    <2>2. CASE k \in Len(s) + 1 .. Len(s \o sent)
      <3>1. CASE j \in 1 .. Len(s)
        BY <1>1, <1>6, <1>7, <2>2, <3>1, Zenon
      <3>2. CASE j \in Len(s) + 1 .. Len(s \o sent)
        <4>1. j - Len(s) < k - Len(s)
          BY <1>1, <1>7
        <4>. QED  BY <1>1, <1>2, <1>7, <2>2, <3>2, <4>1, Zenon DEF Ordered
      <3>. QED  BY <1>1, <3>1, <3>2
    <2>. QED  BY <1>1, <2>1, <2>2
  <1>8. InTurn(s \o sent, d)
    BY <1>5, <1>7, Zenon DEF InTurn
  <1>. QED  BY <1>4, <1>8

\* The acks left when the first reply is taken off.
LEMMA BehindTail ==
    ASSUME NEW q \in Seq(Statuses), q # <<>>, NEW c, Behind(q, c)
    PROVE  Behind(Tail(q), c) /\ (OkApp(Head(q)) => Behind(Tail(q), Head(q).op.off + 1))
  <1>1. /\ Head(q) = q[1] /\ 1 \in 1 .. Len(q) /\ Head(q).op.off \in Nat
        /\ \A k \in 1 .. Len(Tail(q)) : /\ k + 1 \in 1 .. Len(q) /\ Tail(q)[k] = q[k + 1] /\ 1 < k + 1
                                        /\ q[k + 1].op.off \in Nat
    <2>1. /\ Head(q) = q[1] /\ 1 \in 1 .. Len(q)
          /\ \A k \in 1 .. Len(Tail(q)) : k + 1 \in 1 .. Len(q) /\ Tail(q)[k] = q[k + 1] /\ 1 < k + 1
      BY TailFacts
    <2>. QED  BY <2>1, OpOffsets, Zenon
  <1>2. ASSUME NEW k \in 1 .. Len(Tail(q)), Tail(q)[k].ok, ~App(Tail(q)[k].op),
               NEW j \in 1 .. Len(Tail(q)), j < k, OkApp(Tail(q)[j])
        PROVE  Tail(q)[j].op.off < Tail(q)[k].op.off
    <2>1. j + 1 < k + 1
      BY <1>2
    <2>. QED  BY <1>1, <1>2, <2>1, Zenon DEF Behind
  <1>3. Behind(Tail(q), c)
    BY <1>1, <1>2, Zenon DEF Behind
  <1>4. ASSUME OkApp(Head(q)), NEW k \in 1 .. Len(Tail(q)), Tail(q)[k].ok, ~App(Tail(q)[k].op)
        PROVE  Head(q).op.off + 1 <= Tail(q)[k].op.off
    <2>1. Head(q).op.off < q[k + 1].op.off
      BY <1>1, <1>4, Zenon DEF Behind
    <2>2. Head(q).op.off \in Nat /\ q[k + 1].op.off \in Nat /\ Tail(q)[k] = q[k + 1]
      BY <1>1, Zenon
    <2>. QED  BY <2>1, <2>2
  <1>. QED  BY <1>2, <1>3, <1>4, Zenon DEF Behind

\* Replies from offset d on, behind those before it.
LEMMA BehindConcat ==
    ASSUME NEW q \in Seq(Statuses), NEW r \in Seq(Statuses), NEW c \in Nat, NEW d \in Nat, c <= d,
           Behind(q, c), OrderedOk(q, c, d), Behind(r, d)
    PROVE  Behind(q \o r, c)
  <1>1. PICK t : t = q \o r
    BY Zenon
  <1>2. /\ Len(q) \in Nat /\ Len(r) \in Nat /\ Len(t) = Len(q) + Len(r)
        /\ \A k \in 1 .. Len(q) : t[k] = q[k]
        /\ \A k \in Len(q) + 1 .. Len(t) : t[k] = r[k - Len(q)] /\ k - Len(q) \in 1 .. Len(r)
        /\ \A k \in 1 .. Len(t) : k \in 1 .. Len(q) \/ k \in Len(q) + 1 .. Len(t)
    BY <1>1, ConcatFacts
  <1>3. /\ \A k \in 1 .. Len(q) : q[k].op.off \in Nat
        /\ \A k \in 1 .. Len(r) : r[k].op.off \in Nat
    BY OpOffsets, Zenon
  <1>4. ASSUME NEW k \in 1 .. Len(t), t[k].ok, ~App(t[k].op)
        PROVE  /\ c <= t[k].op.off
               /\ \A j \in 1 .. Len(t) : j < k /\ OkApp(t[j]) => t[j].op.off < t[k].op.off
    <2>1. CASE k \in 1 .. Len(q)
      <3>1. \A j \in 1 .. Len(t) : j < k => j \in 1 .. Len(q)
        BY <1>2, <2>1
      <3>. QED  BY <1>2, <1>4, <2>1, <3>1, Zenon DEF Behind
    <2>2. CASE k \in Len(q) + 1 .. Len(t)
      <3>1. d <= t[k].op.off /\ t[k].op.off \in Nat
        BY <1>2, <1>3, <1>4, <2>2, Zenon DEF Behind
      <3>2. ASSUME NEW j \in 1 .. Len(t), j < k, OkApp(t[j]) PROVE t[j].op.off < t[k].op.off
        <4>1. CASE j \in 1 .. Len(q)
          <5>1. t[j].op.off < d /\ t[j].op.off \in Nat
            BY <1>2, <1>3, <3>2, <4>1, Zenon DEF OrderedOk
          <5>. QED  BY <3>1, <5>1
        <4>2. CASE j \in Len(q) + 1 .. Len(t)
          <5>1. j - Len(q) < k - Len(q)
            BY <1>2, <3>2
          <5>. QED  BY <1>2, <1>4, <2>2, <3>2, <4>2, <5>1, Zenon DEF Behind
        <4>. QED  BY <1>2, <4>1, <4>2, Zenon
      <3>3. c <= t[k].op.off
        BY <3>1
      <3>. QED  BY <3>2, <3>3, Zenon
    <2>. QED  BY <1>2, <2>1, <2>2, Zenon
  <1>. QED  BY <1>1, <1>4, Zenon DEF Behind

\* Failures do not matter; the last position answers what it accepted.
LEMMA BehindAnswers ==
    /\ \A r, c : NoneOk(r) => Behind(r, c)
    /\ \A sent \in Seq(Ops), q \in Seq(Statuses) : SentOf(sent, q) =>
          \A c : Behind(q, c) => Behind(Answer(sent, TRUE), c)
  <1>1. \A r, c : NoneOk(r) => Behind(r, c)
    BY Zenon DEF NoneOk, Behind
  <1>2. ASSUME NEW sent \in Seq(Ops), NEW q \in Seq(Statuses), SentOf(sent, q), NEW c, Behind(q, c)
        PROVE  Behind(Answer(sent, TRUE), c)
    <2>1. PICK r : r = Answer(sent, TRUE)
      BY Zenon
    <2>2. Len(r) = Len(sent) /\ \A k \in 1 .. Len(sent) : r[k].op = sent[k] /\ r[k].ok
      BY <2>1, AnswerFacts, Zenon
    <2>3. \A k \in 1 .. Len(sent) : k \in 1 .. Len(q)
      BY <1>2 DEF SentOf
    <2>4. \A k \in 1 .. Len(sent) : /\ q[k].ok /\ (App(r[k].op) <=> App(q[k].op)) /\ (OkApp(r[k]) => OkApp(q[k]))
                                    /\ r[k].op.off = q[k].op.off
      BY <1>2, <2>2, <2>3, Zenon DEF SentOf, App, OkApp
    <2>5. Behind(r, c)
      BY <1>2, <2>2, <2>3, <2>4, Zenon DEF Behind
    <2>. QED  BY <2>1, <2>5, Zenon
  <1>. QED  BY <1>1, <1>2, Zenon

\* One op is put behind, an ack at offset d or later.
LEMMA BehindAppend ==
    ASSUME NEW q \in Seq(Statuses), NEW a \in Statuses, NEW c \in Nat, NEW d \in Nat, c <= d,
           Behind(q, c), OrderedOk(q, c, d), a.ok /\ ~App(a.op) => d <= a.op.off
    PROVE  Behind(Append(q, a), c)
  <1>1. PICK r : r = <<a>>
    BY Zenon
  <1>2. r \in Seq(Statuses) /\ Append(q, a) = q \o r /\ Len(r) = 1 /\ r[1] = a /\ d <= d
    BY <1>1
  <1>3. \A k \in 1 .. Len(r) : r[k] = a /\ \A j \in 1 .. Len(r) : ~(j < k)
    BY <1>2
  <1>4. Behind(r, d)
    BY <1>2, <1>3, Zenon DEF Behind
  <1>. QED  BY <1>2, <1>4, BehindConcat, Zenon

\* Failures behind the replies on the wire.
LEMMA BehindFailures ==
    ASSUME NEW q \in Seq(Statuses), NEW r \in Seq(Statuses), NoneOk(r), NEW c, Behind(q, c)
    PROVE  Behind(q \o r, c)
  <1>1. PICK t : t = q \o r
    BY Zenon
  <1>2. /\ \A k \in 1 .. Len(q) : t[k] = q[k]
        /\ \A k \in 1 .. Len(t) : k \in 1 .. Len(q) \/ \E l \in 1 .. Len(r) : t[k] = r[l]
        /\ \A k \in 1 .. Len(q) : \A j \in 1 .. Len(t) : j < k => j \in 1 .. Len(q)
    <2>1. /\ Len(q) \in Nat /\ Len(r) \in Nat /\ Len(t) = Len(q) + Len(r)
          /\ \A k \in 1 .. Len(q) : t[k] = q[k]
          /\ \A k \in Len(q) + 1 .. Len(t) : t[k] = r[k - Len(q)]
      BY <1>1, ConcatFacts
    <2>2. \A k \in 1 .. Len(t) : \/ k \in 1 .. Len(q)
                                   \/ (k - Len(q) \in 1 .. Len(r) /\ k \in Len(q) + 1 .. Len(t))
      BY <2>1
    <2>3. \A k \in 1 .. Len(q) : \A j \in 1 .. Len(t) : j < k => j \in 1 .. Len(q)
      BY <2>1
    <2>. QED  BY <2>1, <2>2, <2>3, Zenon
  <1>3. \A k \in 1 .. Len(t) : t[k].ok => k \in 1 .. Len(q)
    BY <1>2, Zenon DEF NoneOk
  <1>4. Behind(t, c)
    BY <1>2, <1>3, Zenon DEF Behind
  <1>. QED  BY <1>1, <1>4, Zenon

\* An op is queued: an accepted append at the end of the replica.
LEMMA WaitsAppend ==
    ASSUME NEW q \in Seq(Statuses), NEW a \in Statuses, NEW s, NEW d \in Nat, NEW e \in Nat,
           Waits(s, q, d, e), OkApp(a) => a.op.off = e
    PROVE  Waits(s, Append(q, a), d, IF OkApp(a) THEN e + 1 ELSE e)
  <1>1. PICK t : t = Append(q, a)
    BY Zenon
  <1>2. /\ \A k \in 1 .. Len(q) : t[k] = q[k] /\ k \in 1 .. Len(t)
        /\ Len(q) + 1 \in 1 .. Len(t) /\ t[Len(q) + 1] = a
    BY <1>1, AppendFacts
  <1>3. \A o : OkOffIn(q, o) => OkOffIn(t, o)
    BY <1>2, Zenon DEF OkOffIn
  <1>4. OkApp(a) => OkOffIn(t, e)
    BY <1>2, Zenon DEF OkOffIn
  <1>5. \A o \in d .. (e + 1) - 1 : o \in d .. e - 1 \/ o = e
    OBVIOUS
  <1>. QED  BY <1>1, <1>3, <1>4, <1>5, Zenon DEF Waits

\* An op leaves: no append, or one before offset c.
LEMMA WaitsWithout ==
    ASSUME NEW f \in Seq(Ops), NEW k \in 1 .. Len(f), NEW q, NEW d \in Nat, NEW e \in Nat,
           Waits(f, q, d, e), NEW c \in Nat, d <= c, App(f[k]) => f[k].off < c
    PROVE  Waits(Without(f, k), q, c, e)
  <1>1. PICK g : g = Without(f, k)
    BY Zenon
  <1>2. /\ f[k].off \in Nat
        /\ \A j \in 1 .. Len(f) : j # k => \E l \in 1 .. Len(g) : g[l] = f[j]
    <2>1. /\ Len(g) = Len(f) - 1 /\ Len(f) \in Nat
          /\ \A j \in 1 .. Len(f) - 1 : g[j] = IF j < k THEN f[j] ELSE f[j + 1]
      <3>1. Len(f) \in Nat
        OBVIOUS
      <3>. QED  BY <1>1, <3>1, WithoutFacts, Zenon
    <2>2. ASSUME NEW j \in 1 .. Len(f), j < k PROVE \E l \in 1 .. Len(g) : g[l] = f[j]
      <3>1. j \in 1 .. Len(g) /\ g[j] = f[j]
        BY <2>1, <2>2
      <3>. QED  BY <3>1, Zenon
    <2>3. ASSUME NEW j \in 1 .. Len(f), j > k PROVE \E l \in 1 .. Len(g) : g[l] = f[j]
      <3>1. j - 1 \in 1 .. Len(g) /\ g[j - 1] = f[j]
        BY <2>1, <2>3
      <3>. QED  BY <3>1, Zenon
    <2>4. \A j \in 1 .. Len(f) : j # k => j < k \/ j > k
      OBVIOUS
    <2>. QED  BY <2>2, <2>3, <2>4, OpOffsets, Zenon
  <1>3. ASSUME NEW o \in c .. e - 1, OffIn(f, o) PROVE OffIn(g, o)
    <2>1. PICK j \in 1 .. Len(f) : App(f[j]) /\ f[j].off = o
      BY <1>3, Zenon DEF OffIn
    <2>2. j # k
      BY <1>2, <2>1
    <2>. QED  BY <1>2, <2>1, <2>2, Zenon DEF OffIn
  <1>4. \A o \in c .. e - 1 : o \in d .. e - 1
    OBVIOUS
  <1>. QED  BY <1>1, <1>3, <1>4, Zenon DEF Waits

-----------------------------------------------------------------------------
(* What a step leaves alone.                                               *)

\* Nothing of the chain changes.
LEMMA OrderKept ==
    ASSUME Order, UNCHANGED <<st, data, commit, wires>>
    PROVE  Order'
  <1>1. UNCHANGED <<st, data, commit, pend, flight, link, reply>>
    BY DEF wires
  <1>. QED  BY <1>1, Zenon DEF Order, MasterWaits, LastAcks, LinkOrder, PendOrder, ReplyOrder, Open

\* A step of position a concerns its own edges only.
LEMMA OrderFrame ==
    ASSUME Order, NEW a \in Pos, Elsewhere(a), a = 1 => MasterWaits', a = N => LastAcks',
           a < N => LinkOrder(a)' /\ PendOrder(a)' /\ ReplyOrder(a)',
           a > 1 => LinkOrder(a - 1)' /\ PendOrder(a - 1)' /\ ReplyOrder(a - 1)'
    PROVE  Order'
  <1>1. ASSUME NEW i \in Pos, i < N, i # a, i # a - 1
        PROVE  LinkOrder(i)' /\ PendOrder(i)' /\ ReplyOrder(i)'
    <2>1. i + 1 \in Pos /\ i + 1 # a
      BY <1>1, ChainAssumption DEF Pos
    <2>2. /\ st'[i] = st[i] /\ data'[i] = data[i] /\ commit'[i] = commit[i] /\ pend'[i] = pend[i]
          /\ link'[i] = link[i] /\ reply'[i] = reply[i]
          /\ st'[i + 1] = st[i + 1] /\ data'[i + 1] = data[i + 1] /\ pend'[i + 1] = pend[i + 1]
      BY <1>1, <2>1, Zenon DEF Elsewhere
    <2>3. LinkOrder(i) /\ PendOrder(i) /\ ReplyOrder(i)
      BY <1>1, Zenon DEF Order
    <2>. QED  BY <2>2, <2>3, Zenon DEF LinkOrder, PendOrder, ReplyOrder, Open
  <1>2. MasterWaits'
    <2>1. CASE a # 1
      BY <2>1, PosFacts, Zenon DEF Order, MasterWaits, Elsewhere, Open
    <2>. QED  BY <2>1, Zenon
  <1>3. LastAcks'
    <2>1. CASE a # N
      BY <2>1, PosFacts, Zenon DEF Order, LastAcks, Elsewhere, Open
    <2>. QED  BY <2>1, Zenon
  <1>4. ASSUME NEW i \in Pos, i = a - 1 PROVE a > 1
    BY <1>4, ChainAssumption DEF Pos
  <1>5. \A i \in Pos : i < N => LinkOrder(i)' /\ PendOrder(i)' /\ ReplyOrder(i)'
    BY <1>1, <1>4, Zenon
  <1>. QED  BY <1>2, <1>3, <1>5, Zenon DEF Order

\* A position that is not open afterwards: what matters is what it sent.
LEMMA OrderFails ==
    ASSUME Order, NEW a \in Pos, Elsewhere(a), st'[a] # "open",
           a < N => LinkOrder(a)', a > 1 => ReplyOrder(a - 1)'
    PROVE  Order'
  <1>1. a > 1 => (a - 1) + 1 = a
    BY Neighbours, Zenon
  <1>2. a < N => PendOrder(a)' /\ ReplyOrder(a)'
    BY Zenon DEF PendOrder, ReplyOrder, Open
  <1>3. a > 1 => LinkOrder(a - 1)' /\ PendOrder(a - 1)'
    BY <1>1, Zenon DEF LinkOrder, PendOrder, Open
  <1>4. (a = 1 => MasterWaits') /\ (a = N => LastAcks')
    BY Zenon DEF MasterWaits, LastAcks, Open
  <1>. QED  BY <1>2, <1>3, <1>4, OrderFrame, Zenon

\* It sent nothing.
LEMMA OrderOnlyFails ==
    ASSUME Order, NEW a \in Pos, UNCHANGED <<commit, wires>>, st'[a] # "open",
           \A j \in Pos : j # a => st'[j] = st[j] /\ data'[j] = data[j]
    PROVE  Order'
  <1>1. UNCHANGED <<commit, pend, flight, link, reply>>
    BY DEF wires
  <1>2. Elsewhere(a)
    BY <1>1, Zenon DEF Elsewhere
  <1>3. a < N => LinkOrder(a)'
    <2>1. a < N => a + 1 \in Pos /\ a + 1 # a
      BY Neighbours, Zenon
    <2>. QED  BY <1>1, <2>1, Zenon DEF Order, LinkOrder, Open
  <1>4. a > 1 => ReplyOrder(a - 1)'
    <2>1. a > 1 => a - 1 \in Pos /\ a - 1 # a /\ a - 1 < N
      BY Neighbours, Zenon
    <2>. QED  BY <1>1, <2>1, Zenon DEF Order, ReplyOrder, Open
  <1>. QED  BY <1>2, <1>3, <1>4, OrderFails, Zenon

-----------------------------------------------------------------------------
(* The steps.                                                              *)

\* A replica is lost, answers begin make stable, or becomes stable.
LEMMA OrderMakeStable ==
    ASSUME TypeInv, Order, NEW i \in Pos, Lose(i) \/ BeginMakeStable(i) \/ MakeChunkStable(i)
    PROVE  Order'
  <1>1. UNCHANGED <<commit, wires>>
    BY Zenon DEF Lose, BeginMakeStable, MakeChunkStable
  <1>2. \/ UNCHANGED <<st, data>>
        \/ \E s, d : s # "open" /\ st' = [st EXCEPT ![i] = s] /\ data' = [data EXCEPT ![i] = d]
    <2>1. CASE Lose(i)
      <3>1. st' = [st EXCEPT ![i] = "lost"] /\ data' = [data EXCEPT ![i] = data[i]] /\ "lost" # "open"
        BY <2>1 DEF Lose, TypeInv, ChainType
      <3>. QED  BY <3>1, Zenon
    <2>2. CASE BeginMakeStable(i)
      <3>1. "closed" # "open"
        OBVIOUS
      <3>. QED  BY <2>2, <3>1, Zenon DEF BeginMakeStable
    <2>3. CASE MakeChunkStable(i)
      <3>1. "stable" # "open" /\ "lost" # "open"
        OBVIOUS
      <3>2. \A b \in BOOLEAN : (IF b THEN "stable" ELSE "lost") # "open"
        BY <3>1, Zenon
      <3>. DEFINE cut  == SubSeq(data[i], 1, Len(decision))
                  same == Len(decision) <= Len(data[i]) /\ cut = decision
      <3>3. CASE st[i] \in {"open", "failed", "closed"}
        <4>1. /\ st' = [st EXCEPT ![i] = IF same THEN "stable" ELSE "lost"]
              /\ data' = [data EXCEPT ![i] = IF same THEN cut ELSE data[i]]
          BY <2>3, <3>3, Zenon DEF MakeChunkStable
        <4>2. (IF same THEN "stable" ELSE "lost") # "open"
          BY <3>1, Zenon
        <4>. HIDE DEF same, cut
        <4>. QED  BY <4>1, <4>2, Zenon
      <3>4. CASE ~(st[i] \in {"open", "failed", "closed"})
        BY <2>3, <3>4, Zenon DEF MakeChunkStable
      <3>. QED  BY <3>3, <3>4
    <2>. QED  BY <2>1, <2>2, <2>3
  <1>3. CASE UNCHANGED <<st, data>>
    BY <1>1, <1>3, OrderKept, Zenon
  <1>4. ASSUME NEW s, NEW d, s # "open", st' = [st EXCEPT ![i] = s], data' = [data EXCEPT ![i] = d]
        PROVE  Order'
    <2>1. st'[i] # "open" /\ \A j \in Pos : j # i => st'[j] = st[j] /\ data'[j] = data[j]
      BY <1>4, Zenon DEF TypeInv, ChainType
    <2>. QED  BY <1>1, <2>1, OrderOnlyFails, Zenon
  <1>. QED  BY <1>2, <1>3, <1>4, Zenon

\* Closes come and go on the wires.
LEMMA OrderCloses ==
    ASSUME TypeInv, Order, (\E w \in Wids : CloseChunk(w)) \/ (\E i \in Pos : CloseForwarded(i))
    PROVE  Order'
  <1>. DEFINE Moves(f, g) == \/ g = f
                             \/ f # <<>> /\ ~App(Head(f)) /\ g = Tail(f)
                             \/ \E m \in Ops : ~App(m) /\ g = Append(f, m)
  <1>1. UNCHANGED <<st, data, commit, pend, flight, reply>> /\ \A j \in Pos : Moves(link[j], link'[j])
    <2>1. ASSUME NEW w \in Wids, CloseChunk(w)
          PROVE  UNCHANGED <<st, data, commit, pend, flight, reply>> /\ \A j \in Pos : Moves(link[j], link'[j])
      <3>1. CloseOp(w) \in Ops /\ ~App(CloseOp(w))
        BY NewOpType DEF App, CloseOp
      <3>2. link' = link \/ link' = [link EXCEPT ![1] = Append(link[1], CloseOp(w))]
        BY <2>1, Zenon DEF CloseChunk
      <3>3. UNCHANGED <<st, data, commit, pend, flight, reply>>
        BY <2>1, Zenon DEF CloseChunk
      <3>. QED  BY <3>1, <3>2, <3>3, PosFacts, Zenon DEF TypeInv, ChainType
    <2>2. ASSUME NEW i \in Pos, CloseForwarded(i)
          PROVE  UNCHANGED <<st, data, commit, pend, flight, reply>> /\ \A j \in Pos : Moves(link[j], link'[j])
      <3>1. Head(link[i - 1]) \in Ops /\ ~App(Head(link[i - 1]))
        BY <2>2, CloseForwardedFacts DEF App
      <3>. QED  BY <2>2, <3>1, CloseForwardedFacts, Zenon
    <2>. QED  BY <2>1, <2>2
  <1>2. ASSUME NEW f \in Seq(Ops), NEW g, Moves(f, g), NEW d \in Nat, InTurn(f, d)
        PROVE  InTurn(g, d) /\ \A o : OffIn(f, o) => OffIn(g, o)
    <2>1. CASE f # <<>> /\ ~App(Head(f)) /\ g = Tail(f)
      BY <1>2, <2>1, InTurnTail, Zenon
    <2>2. ASSUME NEW m \in Ops, ~App(m), g = Append(f, m)
          PROVE  InTurn(g, d) /\ \A o : OffIn(f, o) => OffIn(g, o)
      BY <1>2, <2>2, InTurnAppend, Zenon
    <2>. QED  BY <1>2, <2>1, <2>2, Zenon
  <1>. HIDE DEF Moves
  <1>3. ASSUME NEW i \in Pos, i < N PROVE LinkOrder(i)' /\ PendOrder(i)' /\ ReplyOrder(i)'
    <2>1. i + 1 \in Pos
      BY <1>3, Neighbours, Zenon
    <2>2. link[i] \in Seq(Ops) /\ Len(data[i + 1]) \in Nat
      BY <2>1, PositionTypes, Zenon
    <2>3. LinkOrder(i) /\ PendOrder(i) /\ ReplyOrder(i)
      BY <1>3, Zenon DEF Order
    <2>4. Open(i + 1) /\ AllOk(pend[i + 1]) =>
             InTurn(link'[i], Len(data[i + 1])) /\ \A o : OffIn(link[i], o) => OffIn(link'[i], o)
      BY <1>1, <1>2, <2>2, <2>3, Zenon DEF LinkOrder
    <2>5. ReplyOrder(i)'
      BY <1>1, <2>3, Zenon DEF ReplyOrder, Open
    <2>6. LinkOrder(i)'
      BY <1>1, <2>4, Zenon DEF LinkOrder, Open
    <2>7. PendOrder(i)'
      BY <1>1, <2>3, <2>4, Zenon DEF PendOrder, Open, Waits
    <2>. QED  BY <2>5, <2>6, <2>7
  <1>4. MasterWaits' /\ LastAcks'
    BY <1>1, Zenon DEF Order, MasterWaits, LastAcks, Open
  <1>. QED  BY <1>3, <1>4, Zenon DEF Order

\* An open position takes an op.
LEMMA OrderQueues ==
    ASSUME TypeInv, ChainInv, Order, NEW a \in Pos, NEW s \in Statuses, Open(a), Queues(a, s),
           s.ok => s.op.off = Len(data[a]), a > 1 => link[a - 1] # <<>> /\ s.op = Head(link[a - 1])
                                                     /\ link'[a - 1] = Tail(link[a - 1])
    PROVE  Order'
  <1>. DEFINE L == Len(data[a])
              M == Len(data'[a])
  <1>1. /\ pend[a] \in Seq(Statuses) /\ L \in Nat /\ commit[a] \in Nat
        /\ OrderedOk(pend[a], commit[a], L) /\ commit[a] <= L
    <2>1. st[a] # "stable"
      BY DEF Open
    <2>. QED  BY <2>1, PositionTypes, Zenon DEF ChainInv, Local, Commits
  <1>2. /\ M = IF OkApp(s) THEN L + 1 ELSE L
        /\ OkApp(s) => s.op.off = L
        /\ s.ok => (OkApp(s) <=> App(s.op))
    BY Zenon DEF Queues, OkApp, App
  <1>3. pend'[a] = Append(pend[a], s) /\ \A j \in Pos : j # a => pend'[j] = pend[j]
    BY Zenon DEF Queues, TypeInv, ChainType
  <1>4. Elsewhere(a) /\ UNCHANGED <<st, commit, flight, reply>> /\ Open(a)'
    BY <1>3, Zenon DEF Queues, Elsewhere, Open
  <1>5. \A j \in Pos : j # a - 1 => link'[j] = link[j]
    BY Zenon DEF Queues
  <1>6. AllOk(pend'[a]) => AllOk(pend[a]) /\ s.ok
    <2>1. /\ \A k \in 1 .. Len(pend[a]) : pend'[a][k] = pend[a][k] /\ k \in 1 .. Len(pend'[a])
          /\ Len(pend[a]) + 1 \in 1 .. Len(pend'[a]) /\ pend'[a][Len(pend[a]) + 1] = s
      BY <1>1, <1>3, AppendFacts
    <2>. QED  BY <2>1, Zenon DEF AllOk
  <1>7. \A f : \A d \in Nat : Waits(f, pend[a], d, L) => Waits(f, pend'[a], d, M)
    <2>. HIDE DEF L, M
    <2>. QED  BY <1>1, <1>2, <1>3, WaitsAppend, Zenon
  <1>8. a = 1 => MasterWaits'
    BY <1>1, <1>4, <1>7, Zenon DEF Order, MasterWaits
  <1>9. a = N => LastAcks'
    <2>1. ASSUME s.ok PROVE L <= s.op.off
      BY <1>1, <2>1
    <2>2. ASSUME Behind(pend[a], commit[a]) PROVE Behind(pend'[a], commit[a])
      <3>. HIDE DEF L
      <3>. QED  BY <1>1, <1>3, <2>1, <2>2, BehindAppend, Zenon
    <2>. QED  BY <1>4, <2>2, Zenon DEF Order, LastAcks
  <1>10. ASSUME a < N PROVE LinkOrder(a)' /\ PendOrder(a)' /\ ReplyOrder(a)'
    <2>1. a + 1 \in Pos /\ a + 1 # a /\ a # a - 1
      BY <1>10, Neighbours, Zenon
    <2>2. /\ st'[a + 1] = st[a + 1] /\ data'[a + 1] = data[a + 1] /\ pend'[a + 1] = pend[a + 1]
          /\ link'[a] = link[a] /\ reply'[a] = reply[a] /\ commit'[a] = commit[a]
      BY <1>4, <1>5, <2>1, Zenon DEF Elsewhere
    <2>3. LinkOrder(a) /\ PendOrder(a) /\ ReplyOrder(a) /\ Len(data[a + 1]) \in Nat
      BY <1>10, <2>1, PositionTypes, Zenon DEF Order
    <2>4. LinkOrder(a)' /\ ReplyOrder(a)'
      BY <2>2, <2>3, Zenon DEF LinkOrder, ReplyOrder, Open
    <2>5. PendOrder(a)'
      BY <1>7, <2>2, <2>3, Zenon DEF PendOrder, Open
    <2>. QED  BY <2>4, <2>5
  <1>11. ASSUME a > 1 PROVE LinkOrder(a - 1)' /\ PendOrder(a - 1)' /\ ReplyOrder(a - 1)'
    <2>1. PICK b \in Pos : b = a - 1 /\ b + 1 = a /\ b # a /\ b < N
      BY <1>11, Neighbours, Zenon
    <2>2. /\ LinkOrder(b) /\ PendOrder(b) /\ ReplyOrder(b) /\ link[b] \in Seq(Ops) /\ link[b] # <<>>
          /\ s.op = Head(link[b]) /\ link'[b] = Tail(link[b]) /\ Len(data[b]) \in Nat
      BY <1>11, <2>1, PositionTypes, Zenon DEF Order
    <2>3. /\ st'[b] = st[b] /\ data'[b] = data[b] /\ pend'[b] = pend[b] /\ commit'[b] = commit[b]
          /\ reply'[b] = reply[b]
      BY <1>4, <2>1, Zenon DEF Elsewhere
    <2>4. ReplyOrder(b)'
      BY <2>2, <2>3, Zenon DEF ReplyOrder, Open
    <2>5. ASSUME AllOk(pend'[a])
          PROVE  /\ InTurn(link'[b], M)
                 /\ \A o \in M .. Len(data[b]) - 1 : OffIn(link[b], o) => OffIn(link'[b], o)
                 /\ \A o \in M .. Len(data[b]) - 1 : o \in L .. Len(data[b]) - 1
      <3>1. InTurn(link[b], L) /\ s.ok
        BY <1>6, <2>1, <2>2, <2>5, Zenon DEF LinkOrder
      <3>2. /\ ~App(s.op) => InTurn(link'[b], L)
            /\ App(s.op) => s.op.off = L /\ InTurn(link'[b], L + 1)
            /\ \A o : OffIn(link[b], o) => OffIn(link'[b], o) \/ (App(s.op) /\ o = s.op.off)
        <4>. HIDE DEF L
        <4>1. PICK f \in Seq(Ops) : f = link[b] /\ f # <<>> /\ InTurn(f, L)
          BY <2>2, <3>1, Zenon
        <4>2. /\ ~App(Head(f)) => InTurn(Tail(f), L)
              /\ App(Head(f)) => Head(f).off = L /\ InTurn(Tail(f), L + 1)
              /\ \A o : OffIn(f, o) => OffIn(Tail(f), o) \/ (App(Head(f)) /\ o = Head(f).off)
          BY <1>1, <4>1, InTurnTail, Zenon
        <4>3. Head(f) = s.op /\ Tail(f) = link'[b]
          BY <2>2, <4>1, Zenon
        <4>. QED  BY <4>1, <4>2, <4>3, Zenon
      <3>3. InTurn(link'[b], M)
        BY <1>2, <3>1, <3>2, Zenon
      <3>4. ASSUME NEW o \in M .. Len(data[b]) - 1 PROVE o \in L .. Len(data[b]) - 1 /\ (App(s.op) => o # L)
        <4>1. (App(s.op) => M = L + 1) /\ (~App(s.op) => M = L)
          BY <1>2, <3>1, Zenon
        <4>. HIDE DEF M
        <4>. QED  BY <1>1, <2>2, <4>1
      <3>. QED  BY <3>2, <3>3, <3>4, Zenon
    <2>6. LinkOrder(b)'
      BY <2>1, <2>5, Zenon DEF LinkOrder
    <2>7. PendOrder(b)'
      BY <1>6, <2>1, <2>2, <2>3, <2>5, Zenon DEF PendOrder, Waits, Open
    <2>. QED  BY <2>1, <2>4, <2>6, <2>7, Zenon
  <1>. QED  BY <1>4, <1>8, <1>9, <1>10, <1>11, OrderFrame, Zenon

\* The master takes a record, or sends a commit ack.
LEMMA OrderMasterTakes ==
    ASSUME TypeInv, ChainInv, Order, SendCommitAck \/ \E w \in Wids : ClientAppend(w)
    PROVE  Order'
  <1>1. PICK s \in Statuses : Open(1) /\ Queues(1, s) /\ s.ok /\ s.op.off = Len(data[1])
    BY MasterQueues
  <1>2. ~(1 > 1)
    OBVIOUS
  <1>. QED  BY <1>1, <1>2, PosFacts, OrderQueues, Zenon

\* A slave takes an op off the wire.
LEMMA OrderTakes ==
    ASSUME TypeInv, ChainInv, Order, NEW i \in Pos, AppendBegin(i)
    PROVE  Order'
  <1>1. PICK b \in Pos, s \in Statuses : Receives(i, b, s)
    BY TakesQueues
  <1>2. /\ b = i - 1 /\ b # i /\ i > 1 /\ b < N /\ link[b] # <<>> /\ s.op = Head(link[b])
        /\ link'[b] = Tail(link[b]) /\ \A j \in Pos : j # b => link'[j] = link[j]
    BY <1>1, Zenon DEF Receives
  <1>3. CASE st' = st /\ Open(i)
    <2>1. Queues(i, s)
      BY <1>1, <1>2, <1>3, Zenon DEF Queues, Receives
    <2>2. s.ok => s.op.off = Len(data[i])
      BY <1>1, Zenon DEF Receives
    <2>. QED  BY <1>2, <1>3, <2>1, <2>2, OrderQueues, Zenon
  <1>4. CASE ~(st' = st /\ Open(i))
    <2>1. "failed" # "open"
      OBVIOUS
    <2>2. ~s.ok
      BY <1>1, <1>4, Zenon DEF Receives
    <2>3. data' = data /\ UNCHANGED <<commit, flight, reply>>
      BY <1>1, <2>2, Zenon DEF Receives
    <2>4. st'[i] # "open" /\ \A j \in Pos : j # i => st'[j] = st[j] /\ pend'[j] = pend[j]
      BY <1>1, <1>4, <2>1, Zenon DEF Receives, Open, TypeInv, ChainType
    <2>5. Elsewhere(i)
      BY <1>2, <2>3, <2>4, Zenon DEF Elsewhere
    <2>6. i < N => LinkOrder(i)'
      <3>1. i < N => i + 1 \in Pos /\ i + 1 # i /\ i # b
        BY <1>2, Neighbours, Zenon
      <3>. QED  BY <1>2, <2>3, <2>4, <3>1, Zenon DEF Order, LinkOrder, Open
    <2>7. ReplyOrder(i - 1)'
      BY <1>2, <2>3, <2>4, Zenon DEF Order, ReplyOrder, Open
    <2>. QED  BY <2>4, <2>5, <2>6, <2>7, OrderFails, Zenon
  <1>. QED  BY <1>3, <1>4

\* The replies that a position sends to its predecessor are behind the others.
LEMMA ReplyBehind ==
    ASSUME TypeInv, Order, NEW i \in Pos, i > 1, st'[i - 1] = st[i - 1], commit'[i - 1] = commit[i - 1],
           \E r \in Seq(Statuses) : NoneOk(r) /\ reply'[i - 1] = reply[i - 1] \o r
    PROVE  ReplyOrder(i - 1)'
  <1>1. PICK b \in Pos : b = i - 1 /\ b < N
    BY Neighbours, Zenon
  <1>2. reply[b] \in Seq(Statuses) /\ ReplyOrder(b)
    BY <1>1, PositionTypes, Zenon DEF Order
  <1>3. PICK r \in Seq(Statuses) : NoneOk(r) /\ reply'[b] = reply[b] \o r
    BY <1>1, Zenon
  <1>4. Behind(reply[b], commit[b]) => Behind(reply'[b], commit[b])
    BY <1>2, <1>3, BehindFailures, Zenon
  <1>. QED  BY <1>1, <1>2, <1>4, Zenon DEF ReplyOrder, Open

\* A position that accepted all it has queued no longer has it queued.
LEMMA EmptiedQueue ==
    ASSUME Order, NEW i \in Pos, i > 1, AllOk(pend[i]), UNCHANGED <<st, data>>,
           link'[i - 1] = link[i - 1], pend'[i - 1] = pend[i - 1]
    PROVE  LinkOrder(i - 1)' /\ PendOrder(i - 1)'
  <1>1. PICK b \in Pos : b = i - 1 /\ b + 1 = i /\ b < N
    BY Neighbours, Zenon
  <1>2. LinkOrder(b) /\ PendOrder(b)
    BY <1>1, Zenon DEF Order
  <1>3. LinkOrder(b)' /\ PendOrder(b)'
    BY <1>1, <1>2, Zenon DEF LinkOrder, PendOrder, Open
  <1>. QED  BY <1>1, <1>3, Zenon

\* All that was queued was accepted.
LEMMA AllSent ==
    ASSUME NEW q \in Seq(Statuses), NEW sent \in Seq(Ops), SentOf(sent, q), Len(sent) = Len(q)
    PROVE  AllOk(q)
  BY Zenon DEF SentOf, AllOk

\* A position forwards its queue.
LEMMA OrderForwards ==
    ASSUME TypeInv, ChainInv, Order, NEW i \in Pos, i < N, NEW sent \in Seq(Ops),
           NEW r \in Seq(Statuses), RunsQueue(i, sent, r)
    PROVE  Order'
  <1>. DEFINE q == pend[i]
              c == i + 1
  <1>1. /\ c \in Pos /\ c # i /\ i # i - 1 /\ ~(i = N) /\ c # i - 1
    BY Neighbours, Zenon
  <1>2. /\ q \in Seq(Statuses) /\ link[i] \in Seq(Ops) /\ flight[i] \in Seq(Ops) /\ Len(data[i]) \in Nat
        /\ Len(data[c]) \in Nat /\ commit[i] \in Nat
    BY <1>1, PositionTypes, Zenon
  <1>. HIDE DEF q, c
  <1>3. /\ flight'[i] = flight[i] \o sent /\ link'[i] = link[i] \o sent /\ commit' = commit
        /\ \A j \in Pos : j # i => flight'[j] = flight[j] /\ link'[j] = link[j]
    BY Zenon DEF RunsQueue, TypeInv, ChainType
  <1>4. /\ \A j \in Pos : j # i - 1 => reply'[j] = reply[j]
        /\ i > 1 => reply'[i - 1] = reply[i - 1] \o r
    <2>1. reply' = RepliesTo(reply, i, r) /\ reply \in [Pos -> Seq(Statuses)]
      BY Zenon DEF RunsQueue, TypeInv, ChainType
    <2>. QED  BY <2>1, RepliesFacts, Zenon
  <1>5. /\ \A j \in Pos : j # i => st'[j] = st[j] /\ data'[j] = data[j] /\ pend'[j] = pend[j]
        /\ SentOf(sent, q) /\ NoneOk(r)
        /\ Open(i) /\ Len(sent) < Len(q) => ~q[Len(sent) + 1].ok
        /\ ~Open(i) => sent = <<>>
        /\ Open(i)' => Open(i) /\ UNCHANGED <<st, data>> /\ Len(sent) = Len(q) /\ pend'[i] = <<>>
    BY Zenon DEF RunsQueue, Open, q
  <1>6. Elsewhere(i)
    BY <1>3, <1>4, <1>5, Zenon DEF Elsewhere
  <1>7. LinkOrder(i) /\ PendOrder(i) /\ ReplyOrder(i)
    BY Zenon DEF Order
  <1>8. ASSUME Open(i), Open(c), AllOk(pend[c])
        PROVE  /\ InTurn(link[i] \o sent, Len(data[c]))
               /\ Waits(link[i] \o sent, <<>>, Len(data[c]), Len(data[i]))
    <2>1. /\ Len(data[c]) <= Len(data[i]) /\ Ordered(link[i], Len(data[c]), Len(data[i]))
          /\ OrderedOk(q, Len(data[c]), Len(data[i])) /\ AppsIn(link[i], flight[i])
          /\ Before(flight[i], q) /\ OkFirst(q)
      BY <1>8, Zenon DEF ChainInv, Edge, Local, q, c
    <2>2. InTurn(link[i], Len(data[c])) /\ Waits(link[i], q, Len(data[c]), Len(data[i]))
      BY <1>7, <1>8, Zenon DEF LinkOrder, PendOrder, q, c
    <2>3. Before(link[i], q)
      BY <2>1, Zenon DEF Before, AppsIn, Has
    <2>. QED  BY <1>2, <1>5, <1>8, <2>1, <2>2, <2>3, InTurnSent, Zenon
  <1>9. LinkOrder(i)'
    <2>1. ASSUME ~Open(i) PROVE link'[i] = link[i]
      BY <1>2, <1>3, <1>5, <2>1
    <2>. QED  BY <1>1, <1>3, <1>5, <1>7, <1>8, <2>1, Zenon DEF LinkOrder, Open, c
  <1>10. i > 1 => ReplyOrder(i - 1)'
    <2>1. i > 1 => i - 1 \in Pos /\ i - 1 # i
      BY Neighbours, Zenon
    <2>. QED  BY <1>3, <1>4, <1>5, <2>1, ReplyBehind, Zenon
  <1>11. CASE st'[i] # "open"
    BY <1>6, <1>9, <1>10, <1>11, OrderFails, Zenon
  <1>12. CASE st'[i] = "open"
    <2>1. Open(i) /\ UNCHANGED <<st, data>> /\ Len(sent) = Len(q) /\ pend'[i] = <<>>
      BY <1>5, <1>12, Zenon DEF Open
    <2>2. AllOk(q)
      BY <1>2, <1>5, <2>1, AllSent, Zenon
    <2>3. i > 1 => LinkOrder(i - 1)' /\ PendOrder(i - 1)'
      <3>1. i > 1 => i - 1 \in Pos /\ i - 1 # i
        BY Neighbours, Zenon
      <3>. QED  BY <1>3, <1>5, <2>1, <2>2, <3>1, EmptiedQueue, Zenon DEF q
    <2>4. ReplyOrder(i)'
      BY <1>1, <1>3, <1>4, <1>7, <2>1, Zenon DEF ReplyOrder, Open
    <2>5. PendOrder(i)'
      BY <1>1, <1>3, <1>5, <1>8, <2>1, Zenon DEF PendOrder, Open, c
    <2>6. i = 1 => MasterWaits'
      <3>1. ASSUME i = 1 PROVE Waits(flight[i] \o sent, <<>>, commit[i], Len(data[i]))
        <4>1. Waits(flight[i], q, commit[i], Len(data[i])) /\ OkFirst(q)
          BY <2>1, <3>1, Zenon DEF Order, MasterWaits, ChainInv, Local, q
        <4>. QED  BY <1>2, <1>5, <2>1, <4>1, WaitsSent, Zenon
      <3>. QED  BY <1>3, <2>1, <3>1, Zenon DEF MasterWaits
    <2>. QED  BY <1>1, <1>6, <1>9, <1>10, <2>3, <2>4, <2>5, <2>6, OrderFrame, Zenon
  <1>. QED  BY <1>11, <1>12

\* The last position commits what it accepted, and answers in turn.
LEMMA OrderLastCommits ==
    ASSUME TypeInv, ChainInv, Order, NEW sent \in Seq(Ops), NEW r \in Seq(Statuses),
           RunsQueue(N, sent, r)
    PROVE  Order'
  <1>. DEFINE q == pend[N]
              ans == Answer(sent, TRUE)
  <1>1. N \in Pos /\ ~(N < N) /\ N \in Nat
    BY PosFacts, Neighbours, ChainAssumption
  <1>2. /\ q \in Seq(Statuses) /\ Len(data[N]) \in Nat /\ commit[N] \in Nat /\ Len(q) \in Nat
        /\ ans \in Seq(Statuses)
    <2>1. TRUE \in BOOLEAN
      OBVIOUS
    <2>2. ans \in Seq(Statuses)
      BY <2>1, AnswerFacts, Zenon
    <2>3. q \in Seq(Statuses) /\ Len(data[N]) \in Nat /\ commit[N] \in Nat
      BY <1>1, PositionTypes, Zenon
    <2>4. Len(q) \in Nat
      BY <2>3
    <2>. QED  BY <2>2, <2>3, <2>4, Zenon
  <1>. HIDE DEF q, ans
  <1>3. /\ CommitOps(N, sent) /\ UNCHANGED <<flight, link>>
        /\ reply' = RepliesTo(reply, N, ans \o r)
        /\ \A j \in Pos : j # N => st'[j] = st[j] /\ data'[j] = data[j] /\ pend'[j] = pend[j]
        /\ SentOf(sent, q) /\ NoneOk(r) /\ pend'[N] = <<>>
        /\ Open(N) /\ Len(sent) < Len(q) => ~q[Len(sent) + 1].ok
        /\ ~Open(N) => sent = <<>>
        /\ Open(N)' => Open(N) /\ UNCHANGED <<st, data>> /\ Len(sent) = Len(q)
    BY <1>1, Zenon DEF RunsQueue, q, ans, Open
  <1>4. /\ commit'[N] = commit[N] + Cardinality(AppendsOf(sent))
        /\ \A j \in Pos : j # N => commit'[j] = commit[j]
    BY <1>1, <1>3, CommitFacts
  <1>5. ans \o r \in Seq(Statuses)
    BY <1>2, ConcatFacts, Zenon
  <1>6. /\ \A j \in Pos : j # N - 1 => reply'[j] = reply[j]
        /\ N > 1 => reply'[N - 1] = reply[N - 1] \o (ans \o r)
    <2>1. reply \in [Pos -> Seq(Statuses)]
      BY DEF TypeInv, ChainType
    <2>. QED  BY <1>1, <1>3, <1>5, <2>1, RepliesFacts, Zenon
  <1>7. Elsewhere(N)
    BY <1>3, <1>4, <1>6, Zenon DEF Elsewhere
  <1>8. ASSUME N > 1 PROVE ReplyOrder(N - 1)'
    <2>1. PICK b \in Pos : b = N - 1 /\ b + 1 = N /\ b # N /\ b < N /\ b <= N
      BY <1>1, <1>8, Neighbours, Zenon
    <2>2. st'[b] = st[b] /\ commit'[b] = commit[b] /\ reply'[b] = reply[b] \o (ans \o r)
      BY <1>3, <1>4, <1>6, <1>8, <2>1, Zenon
    <2>3. SUFFICES ASSUME Open(b) PROVE Behind(reply[b] \o (ans \o r), commit[b])
      BY <2>1, <2>2, Zenon DEF ReplyOrder, Open
    <2>4. /\ reply[b] \in Seq(Statuses) /\ commit[b] \in Nat /\ commit[b] <= commit[N]
          /\ Behind(reply[b], commit[b]) /\ OrderedOk(reply[b], commit[b], commit[N])
      BY <1>1, <2>1, <2>3, PositionTypes, Zenon DEF ChainInv, Commits, Edge, Order, ReplyOrder
    <2>5. CASE Open(N)
      <3>1. Behind(q, commit[N])
        BY <2>5, Zenon DEF Order, LastAcks, q
      <3>2. Behind(ans, commit[N])
        BY <1>2, <1>3, <3>1, BehindAnswers, Zenon DEF ans
      <3>3. Behind(ans \o r, commit[N])
        BY <1>2, <1>3, <3>2, BehindFailures, Zenon
      <3>. QED  BY <1>2, <1>5, <2>4, <3>3, BehindConcat, Zenon
    <2>6. CASE ~Open(N)
      <3>1. ans \o r = r
        <4>1. sent = <<>>
          BY <1>3, <2>6, Zenon
        <4>2. \A v : Answer(<<>>, v) = <<>>
          BY DEF Answer
        <4>3. ans = <<>>
          BY <4>1, <4>2, Zenon DEF ans
        <4>. QED  BY <1>2, <4>3
      <3>. QED  BY <1>3, <2>4, <3>1, BehindFailures, Zenon
    <2>. QED  BY <2>5, <2>6
  <1>9. CASE st'[N] # "open"
    BY <1>1, <1>7, <1>8, <1>9, OrderFails, Zenon
  <1>10. CASE st'[N] = "open"
    <2>1. Open(N) /\ UNCHANGED <<st, data>> /\ Len(sent) = Len(q)
      BY <1>3, <1>10, Zenon DEF Open
    <2>2. AllOk(q)
      BY <1>2, <1>3, <2>1, AllSent, Zenon
    <2>3. N > 1 => LinkOrder(N - 1)' /\ PendOrder(N - 1)'
      <3>1. N > 1 => N - 1 \in Pos /\ N - 1 # N
        BY <1>1, Neighbours, Zenon
      <3>. QED  BY <1>1, <1>3, <2>1, <2>2, <3>1, EmptiedQueue, Zenon DEF q
    <2>4. commit'[N] = Len(data'[N])
      <3>1. /\ commit[N] <= Len(data[N]) /\ OrderedOk(q, commit[N], Len(data[N])) /\ OkFirst(q)
            /\ Covers(q, commit[N], Len(data[N]))
        <4>1. st[N] # "stable"
          BY <2>1 DEF Open
        <4>. QED  BY <1>1, <2>1, <4>1, Zenon DEF ChainInv, Commits, Local, LastWaits, q
      <3>2. Cardinality(AppendsOf(sent)) = Len(data[N]) - commit[N]
        BY <1>2, <1>3, <2>1, <3>1, LastCommits, Zenon DEF TypeInv
      <3>. QED  BY <1>2, <1>4, <2>1, <3>2
    <2>5. LastAcks'
      <3>1. NoneOk(<<>>)
        BY DEF NoneOk
      <3>. QED  BY <1>3, <3>1, BehindAnswers, Zenon DEF LastAcks
    <2>6. N = 1 => MasterWaits'
      <3>1. \A d : d \in Nat => \A o : ~(o \in d .. d - 1)
        OBVIOUS
      <3>2. Len(data'[N]) \in Nat
        BY <1>2, <2>1
      <3>. QED  BY <2>4, <3>1, <3>2, Zenon DEF MasterWaits, Waits
    <2>. QED  BY <1>1, <1>7, <1>8, <2>3, <2>5, <2>6, OrderFrame, Zenon
  <1>. QED  BY <1>9, <1>10

\* A queue is run.
LEMMA OrderRuns ==
    ASSUME TypeInv, ChainInv, Order, NEW i \in Pos, RunPendingSubmitQueue(i)
    PROVE  Order'
  <1>1. PICK sent \in Seq(Ops), r \in Seq(Statuses) : RunsQueue(i, sent, r)
    BY RunMoves
  <1>2. CASE i < N
    BY <1>1, <1>2, OrderForwards, Zenon
  <1>3. CASE ~(i < N)
    <2>1. i = N
      BY <1>3, Neighbours, Zenon
    <2>. QED  BY <1>1, <2>1, OrderLastCommits, Zenon
  <1>. QED  BY <1>2, <1>3

\* A position fails, and what it had put on the wire may be cut.
LEMMA OrderBreaks ==
    ASSUME TypeInv, ChainInv, Order, NEW i \in Pos, i < N, Fails(i), NEW n \in 0 .. Len(link[i]),
           link'[i] = link[i] \/ link'[i] = SubSeq(link[i], 1, n)
    PROVE  Order'
  <1>1. i + 1 \in Pos /\ i + 1 # i
    BY Neighbours, Zenon
  <1>2. Elsewhere(i) /\ commit' = commit /\ st'[i] # "open"
    BY Zenon DEF Fails
  <1>3. LinkOrder(i)'
    <2>1. LinkOrder(i) /\ link[i] \in Seq(Ops) /\ Len(data[i + 1]) \in Nat
      BY <1>1, PositionTypes, Zenon DEF Order
    <2>2. InTurn(link[i], Len(data[i + 1])) => InTurn(link'[i], Len(data[i + 1]))
      BY <2>1, InTurnPrefix, Zenon
    <2>. QED  BY <1>1, <1>2, <2>1, <2>2, Zenon DEF LinkOrder, Elsewhere, Open
  <1>4. i > 1 => ReplyOrder(i - 1)'
    <2>1. i > 1 => i - 1 \in Pos /\ i - 1 # i
      BY Neighbours, Zenon
    <2>2. i > 1 => /\ st'[i - 1] = st[i - 1] /\ commit'[i - 1] = commit[i - 1]
                   /\ \E r \in Seq(Statuses) : NoneOk(r) /\ reply'[i - 1] = reply[i - 1] \o r
      BY <1>2, <2>1, Zenon DEF Fails, Elsewhere
    <2>. QED  BY <2>2, ReplyBehind, Zenon
  <1>. QED  BY <1>2, <1>3, <1>4, OrderFails, Zenon

\* The first reply is to the next op to commit.
LEMMA OrderConfirms ==
    ASSUME TypeInv, ChainInv, Order, NEW i \in Pos, i < N,
           NEW k \in 1 .. Len(flight[i]), NEW a \in Statuses, Confirms(i, k, a)
    PROVE  Order'
  <1>. DEFINE q == reply[i]
              f == flight[i]
  <1>1. /\ Open(i) /\ q # <<>> /\ Head(q).ok /\ f[k] = Head(q).op /\ a.op = Head(q).op /\ a.ok
        /\ reply' = RepliesTo([reply EXCEPT ![i] = Tail(q)], i, <<a>>)
        /\ commit'[i] = IF App(a.op) THEN commit[i] + 1 ELSE commit[i]
        /\ \A j \in Pos : j # i => commit'[j] = commit[j]
        /\ UNCHANGED <<st, data, pend, link>>
    BY Zenon DEF Confirms
  <1>2. /\ i + 1 \in Pos /\ i + 1 # i /\ i # i - 1 /\ i # N
    BY Neighbours, Zenon
  <1>3. /\ q \in Seq(Statuses) /\ f \in Seq(Ops) /\ commit[i] \in Nat /\ commit[i + 1] \in Nat
        /\ Len(data[i]) \in Nat
    BY <1>2, PositionTypes, Zenon
  <1>4. flight'[i] = Without(f, k) /\ \A j \in Pos : j # i => flight'[j] = flight[j]
    BY Zenon DEF Confirms, TypeInv, ChainType
  <1>. HIDE DEF q, f
  <1>5. /\ OrderedOk(q, commit[i], commit[i + 1]) /\ Covers(q, commit[i], commit[i + 1])
        /\ Behind(q, commit[i])
    BY <1>1, Zenon DEF ChainInv, Edge, Order, ReplyOrder, q
  <1>6. /\ q[1] = Head(q) /\ 1 \in 1 .. Len(q) /\ Tail(q) \in Seq(Statuses)
        /\ Head(q) \in Statuses /\ (OkApp(Head(q)) <=> App(a.op))
    BY <1>1, <1>3, TailFacts DEF OkApp, App
  <1>7. /\ App(a.op) => a.op.off = commit[i] /\ Behind(Tail(q), commit[i] + 1)
        /\ ~App(a.op) => commit[i] <= a.op.off
        /\ Behind(Tail(q), commit[i])
    <2>1. OkApp(Head(q)) => Head(q).op.off = commit[i]
      BY <1>1, <1>3, <1>5, OkTail, Zenon
    <2>2. Behind(Tail(q), commit[i]) /\ (OkApp(Head(q)) => Behind(Tail(q), Head(q).op.off + 1))
      BY <1>1, <1>3, <1>5, BehindTail, Zenon
    <2>3. ~App(a.op) => commit[i] <= a.op.off
      BY <1>1, <1>5, <1>6, Zenon DEF Behind
    <2>. QED  BY <1>1, <1>6, <2>1, <2>2, <2>3, Zenon
  <1>8. PICK rs : rs = <<a>>
    BY Zenon
  <1>9. rs \in Seq(Statuses)
    BY <1>8
  <1>10. /\ reply'[i] = Tail(q)
         /\ \A j \in Pos : j # i /\ j # i - 1 => reply'[j] = reply[j]
         /\ i > 1 => reply'[i - 1] = reply[i - 1] \o rs
    BY <1>1, <1>6, <1>8, <1>9, RepliesMove, Zenon
  <1>11. Elsewhere(i)
    BY <1>1, <1>4, <1>10, Zenon DEF Elsewhere
  <1>12. ReplyOrder(i)'
    BY <1>1, <1>7, <1>10, Zenon DEF ReplyOrder
  <1>13. LinkOrder(i)' /\ PendOrder(i)'
    BY <1>1, Zenon DEF Order, LinkOrder, PendOrder, Open
  <1>14. ASSUME i > 1 PROVE LinkOrder(i - 1)' /\ PendOrder(i - 1)' /\ ReplyOrder(i - 1)'
    <2>1. PICK b \in Pos : b = i - 1 /\ b + 1 = i /\ b # i /\ b < N /\ b <= i
      BY <1>14, Neighbours, Zenon
    <2>2. LinkOrder(b)' /\ PendOrder(b)'
      BY <1>1, <2>1, Zenon DEF Order, LinkOrder, PendOrder, Open
    <2>3. reply'[b] = reply[b] \o rs /\ commit'[b] = commit[b] /\ (Open(b)' <=> Open(b))
      BY <1>1, <1>10, <1>14, <2>1, Zenon DEF Open
    <2>4. ASSUME Open(b) PROVE Behind(reply[b] \o rs, commit[b])
      <3>1. /\ reply[b] \in Seq(Statuses) /\ commit[b] \in Nat /\ commit[b] <= commit[i]
            /\ Behind(reply[b], commit[b]) /\ OrderedOk(reply[b], commit[b], commit[i])
        BY <2>1, <2>4, PositionTypes, Zenon DEF ChainInv, Commits, Edge, Order, ReplyOrder
      <3>2. Behind(Append(reply[b], a), commit[b])
        BY <1>3, <1>7, <3>1, BehindAppend, Zenon
      <3>3. Append(reply[b], a) = reply[b] \o rs
        BY <1>8, <3>1, AppendIsConcat, Zenon
      <3>. QED  BY <3>2, <3>3, Zenon
    <2>5. ReplyOrder(b)'
      BY <2>3, <2>4, Zenon DEF ReplyOrder
    <2>. QED  BY <2>1, <2>2, <2>5, Zenon
  <1>15. i = 1 => MasterWaits'
    <2>1. ASSUME i = 1 PROVE Waits(Without(f, k), pend[i], commit'[i], Len(data[i]))
      <3>1. Waits(f, pend[i], commit[i], Len(data[i]))
        BY <1>1, <2>1, Zenon DEF Order, MasterWaits, f
      <3>2. /\ commit'[i] \in Nat /\ commit[i] <= commit'[i] /\ (App(a.op) => a.op.off < commit'[i])
        BY <1>1, <1>3, <1>7
      <3>3. App(f[k]) => f[k].off < commit'[i]
        BY <1>1, <3>2, Zenon
      <3>4. k \in 1 .. Len(f)
        BY DEF f
      <3>. QED  BY <1>3, <3>1, <3>2, <3>3, <3>4, WaitsWithout, Zenon
    <2>. QED  BY <1>1, <1>4, <2>1, Zenon DEF MasterWaits
  <1>. QED  BY <1>2, <1>11, <1>12, <1>13, <1>14, <1>15, OrderFrame, Zenon

\* The successor's reply arrives.
LEMMA OrderOpDone ==
    ASSUME TypeInv, ChainInv, Order, NEW i \in Pos, OpDone(i)
    PROVE  Order'
  <1>1. /\ i < N /\ link' = link
        /\ \/ Drops(i) \/ Fails(i)
           \/ \E k \in 1 .. Len(flight[i]), a \in Statuses : Confirms(i, k, a)
    BY OpDoneMoves
  <1>2. CASE Drops(i)
    <2>1. /\ reply[i] # <<>> /\ reply' = [reply EXCEPT ![i] = Tail(reply[i])]
          /\ UNCHANGED <<st, data, commit, pend, flight, link>> /\ reply[i] \in Seq(Statuses)
      BY <1>2, PositionTypes, Zenon DEF Drops
    <2>2. reply'[i] = Tail(reply[i]) /\ \A j \in Pos : j # i => reply'[j] = reply[j]
      BY <2>1, Zenon DEF TypeInv, ChainType
    <2>3. Behind(reply[i], commit[i]) => Behind(reply'[i], commit[i])
      BY <2>1, <2>2, BehindTail, Zenon
    <2>4. \A j \in Pos : j < N => ReplyOrder(j)'
      BY <2>1, <2>2, <2>3, Zenon DEF Order, ReplyOrder, Open
    <2>5. /\ MasterWaits' /\ LastAcks' /\ \A j \in Pos : j < N => LinkOrder(j)' /\ PendOrder(j)'
      BY <2>1, Zenon DEF Order, MasterWaits, LastAcks, LinkOrder, PendOrder, Open
    <2>. QED  BY <2>4, <2>5, Zenon DEF Order
  <1>3. CASE Fails(i)
    <2>1. 0 \in 0 .. Len(link[i])
      BY PositionTypes
    <2>. QED  BY <1>1, <1>3, <2>1, OrderBreaks, Zenon
  <1>4. ASSUME NEW k \in 1 .. Len(flight[i]), NEW a \in Statuses, Confirms(i, k, a) PROVE Order'
    BY <1>1, <1>4, OrderConfirms, Zenon
  <1>. QED  BY <1>1, <1>2, <1>3, <1>4, Zenon

\* The connection to the successor breaks.
LEMMA OrderPeerFailed ==
    ASSUME TypeInv, ChainInv, Order, NEW i \in Pos, PeerFailed(i)
    PROVE  Order'
  <1>1. /\ i < N /\ Fails(i)
        /\ \E n \in 0 .. Len(link[i]) : link' = [link EXCEPT ![i] = SubSeq(link[i], 1, n)]
    BY PeerFailedMoves
  <1>2. PICK n \in 0 .. Len(link[i]) : link'[i] = SubSeq(link[i], 1, n)
    BY <1>1, Zenon DEF TypeInv, ChainType
  <1>. QED  BY <1>1, <1>2, OrderBreaks, Zenon
-----------------------------------------------------------------------------
(* Every step keeps the order.                                             *)

\* Nothing is on its way at first.
LEMMA OrderInit == Init => Order /\ AckBound
  <1>. SUFFICES ASSUME Init PROVE Order /\ AckBound
    OBVIOUS
  <1>1. \A i \in Pos : /\ data[i] = <<>> /\ commit[i] = 0 /\ pend[i] = <<>> /\ flight[i] = <<>>
                       /\ link[i] = <<>> /\ reply[i] = <<>>
    BY Zenon DEF Init
  <1>2. 1 \in Pos /\ N \in Pos /\ (\A i \in Pos : i < N => i + 1 \in Pos)
    BY PosFacts, Neighbours, Zenon
  <1>3. Len(<<>>) = 0 /\ 1 .. 0 = {} /\ 0 .. 0 - 1 = {}
    OBVIOUS
  <1>4. \A c, d : InTurn(<<>>, c) /\ Behind(<<>>, d)
    BY <1>3 DEF InTurn, Behind
  <1>5. \A s, q : Waits(s, q, 0, 0)
    BY <1>3, Zenon DEF Waits
  <1>6. Order
    BY <1>1, <1>2, <1>3, <1>4, <1>5, Zenon DEF Order, MasterWaits, LastAcks, LinkOrder, PendOrder, ReplyOrder
  <1>7. \A k \in 1 .. Len(<<>>) : FALSE
    BY <1>3
  <1>8. AckBound
    BY <1>1, <1>7, Zenon DEF AckBound, AcksUpTo
  <1>. QED  BY <1>6, <1>8

\* Every step keeps the order.
LEMMA OrderStep ==
    ASSUME TypeInv, ChainInv, Order, [Next]_vars
    PROVE  Order'
  <1>1. CASE UNCHANGED vars
    BY <1>1, OrderKept, Zenon DEF vars, appender, wires
  <1>2. ASSUME NEW w \in Wids, ClientAppend(w) \/ CloseChunk(w)
        PROVE  Order'
    BY <1>2, OrderMasterTakes, OrderCloses, Zenon
  <1>3. ASSUME NEW i \in Pos, st[i] = "open", SetFailed(i), UNCHANGED <<commit, wires>>
        PROVE  Order'
    <2>1. st'[i] # "open" /\ \A j \in Pos : j # i => st'[j] = st[j] /\ data'[j] = data[j]
      BY <1>3, SetFailedFacts, Zenon
    <2>. QED  BY <1>3, <2>1, OrderOnlyFails, Zenon
  <1>4. CASE LeaseExpired \/ TryToCloseChunk
    <2>1. st[1] = "open" /\ SetFailed(1) /\ UNCHANGED <<commit, wires>>
      BY <1>4, Zenon DEF LeaseExpired, TryToCloseChunk
    <2>. QED  BY <1>3, <2>1, PosFacts, Zenon
  <1>5. CASE SendCommitAck
    BY <1>5, OrderMasterTakes
  <1>6. CASE LeaseClerkExpires \/ BeginMakeChunkStable \/ BeginMakeChunkStableDone \/ LeaseRelinquish
    BY <1>6, OrderKept, Zenon
       DEF LeaseClerkExpires, BeginMakeChunkStable, BeginMakeChunkStableDone, LeaseRelinquish, appender
  <1>7. ASSUME NEW i \in Pos, AppendBegin(i) \/ RunPendingSubmitQueue(i) \/ OpDone(i) \/ PeerFailed(i)
        PROVE  Order'
    BY <1>7, OrderTakes, OrderRuns, OrderOpDone, OrderPeerFailed, Zenon
  <1>8. ASSUME NEW i \in Pos, ReplicationTimeout(i) \/ \E w \in Wids : InvalidateWriteId(i, w)
        PROVE  Order'
    <2>1. st[i] = "open" /\ SetFailed(i) /\ UNCHANGED <<commit, wires>>
      BY <1>8, Zenon DEF ReplicationTimeout, InvalidateWriteId
    <2>. QED  BY <1>3, <2>1, Zenon
  <1>9. ASSUME NEW i \in Pos, Lose(i) \/ BeginMakeStable(i) \/ MakeChunkStable(i) PROVE Order'
    BY <1>9, OrderMakeStable, Zenon
  <1>10. ASSUME NEW i \in Pos, CloseForwarded(i) PROVE Order'
    BY <1>10, OrderCloses, Zenon
  <1>11. ASSUME NEW i \in Pos, NEW w \in Wids, GetOpStatus(i, w) PROVE Order'
    BY <1>11, OrderKept, Zenon DEF GetOpStatus
  <1>. QED  BY <1>1, <1>2, <1>4, <1>5, <1>6, <1>7, <1>8, <1>9, <1>10, <1>11 DEF Next

-----------------------------------------------------------------------------
(* Commit acks.                                                            *)

\* The parts of a sequence of replies.
LEMMA StatusParts ==
    /\ \A q \in Seq(Statuses) : q # <<>> =>
          Has(q, Head(q)) /\ \A k \in 1 .. Len(Tail(q)) : Has(q, Tail(q)[k])
    /\ \A q, r \in Seq(Statuses) : \A k \in 1 .. Len(q \o r) :
          Has(q, (q \o r)[k]) \/ Has(r, (q \o r)[k])
  <1>1. ASSUME NEW q \in Seq(Statuses), q # <<>>
        PROVE  Has(q, Head(q)) /\ \A k \in 1 .. Len(Tail(q)) : Has(q, Tail(q)[k])
    <2>1. /\ 1 \in 1 .. Len(q) /\ Head(q) = q[1]
          /\ \A k \in 1 .. Len(Tail(q)) : k + 1 \in 1 .. Len(q) /\ Tail(q)[k] = q[k + 1]
      BY <1>1, TailFacts
    <2>. QED  BY <2>1, Zenon DEF Has
  <1>2. ASSUME NEW q \in Seq(Statuses), NEW r \in Seq(Statuses), NEW k \in 1 .. Len(q \o r)
        PROVE  Has(q, (q \o r)[k]) \/ Has(r, (q \o r)[k])
    <2>1. \/ k \in 1 .. Len(q) /\ (q \o r)[k] = q[k]
          \/ k - Len(q) \in 1 .. Len(r) /\ (q \o r)[k] = r[k - Len(q)]
      BY ConcatFacts
    <2>. QED  BY <2>1, Zenon DEF Has
  <1>. QED  BY <1>1, <1>2, Zenon

\* The acks of a step are old, or say no more than c.
LEMMA AcksFrom ==
    ASSUME NEW c, AcksUpTo(c), \A j \in Pos : st'[j] = "open" => st[j] = "open",
           \A j \in Pos : \A k \in 1 .. Len(pend'[j]) :
              Has(pend[j], pend'[j][k]) \/ AckUpTo(pend'[j][k].op, c),
           \A j \in Pos : \A k \in 1 .. Len(link'[j]) :
              Has(link[j], link'[j][k]) \/ AckUpTo(link'[j][k], c),
           \A j \in Pos : st'[j] = "open" => \A k \in 1 .. Len(reply'[j]) : reply'[j][k].ok =>
              Has(reply[j], reply'[j][k]) \/ AckUpTo(reply'[j][k].op, c)
    PROVE  AcksUpTo(c)'
  <1>1. ASSUME NEW j \in Pos, NEW k \in 1 .. Len(pend'[j]) PROVE AckUpTo(pend'[j][k].op, c)
    BY Zenon DEF AcksUpTo, Has
  <1>2. ASSUME NEW j \in Pos, NEW k \in 1 .. Len(link'[j]) PROVE AckUpTo(link'[j][k], c)
    BY Zenon DEF AcksUpTo, Has
  <1>3. ASSUME NEW j \in Pos, st'[j] = "open", NEW k \in 1 .. Len(reply'[j]), reply'[j][k].ok
        PROVE  AckUpTo(reply'[j][k].op, c)
    BY <1>3, Zenon DEF AcksUpTo, Has, Open
  <1>. QED  BY <1>1, <1>2, <1>3, Zenon DEF AcksUpTo, Open, AckUpTo, App

\* Nothing is put on a queue or a wire.
LEMMA AcksKept ==
    ASSUME NEW c, AcksUpTo(c), UNCHANGED wires, \A j \in Pos : st'[j] = "open" => st[j] = "open"
    PROVE  AcksUpTo(c)'
  BY Zenon DEF AcksUpTo, wires, Open

\* A position takes an op.
LEMMA AcksQueued ==
    ASSUME TypeInv, NEW c, AcksUpTo(c), \A j \in Pos : st'[j] = "open" => st[j] = "open",
           NEW a \in Pos, NEW s \in Statuses, AckUpTo(s.op, c),
           pend' = [pend EXCEPT ![a] = Append(pend[a], s)], reply' = reply,
           \A j \in Pos : \A k \in 1 .. Len(link'[j]) : Has(link[j], link'[j][k])
    PROVE  AcksUpTo(c)'
  <1>1. pend'[a] = Append(pend[a], s) /\ \A j \in Pos : j # a => pend'[j] = pend[j]
    BY Zenon DEF TypeInv, ChainType
  <1>2. \A k \in 1 .. Len(pend'[a]) : Has(pend[a], pend'[a][k]) \/ pend'[a][k] = s
    <2>1. PICK q : q = pend[a]
      OBVIOUS
    <2>2. q \in Seq(Statuses)
      BY <2>1, PositionTypes, Zenon
    <2>3. \A k \in 1 .. Len(Append(q, s)) : Has(q, Append(q, s)[k]) \/ Append(q, s)[k] = s
      BY <2>2, WireParts, Zenon DEF Has
    <2>. QED  BY <1>1, <2>1, <2>3, Zenon
  <1>3. \A j \in Pos : \A k \in 1 .. Len(pend'[j]) :
              Has(pend[j], pend'[j][k]) \/ AckUpTo(pend'[j][k].op, c)
    <2>1. ASSUME NEW j \in Pos, j # a, NEW k \in 1 .. Len(pend'[j]) PROVE Has(pend[j], pend'[j][k])
      BY <1>1, <2>1, Zenon DEF Has
    <2>2. ASSUME NEW k \in 1 .. Len(pend'[a]), pend'[a][k] = s PROVE AckUpTo(pend'[a][k].op, c)
      BY <2>2, Zenon
    <2>. QED  BY <1>2, <2>1, <2>2, Zenon
  <1>4. \A j \in Pos : \A k \in 1 .. Len(reply'[j]) : Has(reply[j], reply'[j][k])
    BY Zenon DEF Has
  <1>. QED  BY <1>3, <1>4, AcksFrom, Zenon

\* An idle master has committed all of its replica.
LEMMA IdleCommitted ==
    ASSUME TypeInv, Order, Open(1), InFlight(1) = 0
    PROVE  Len(data[1]) <= commit[1]
  <1>1. /\ pend[1] \in Seq(Statuses) /\ flight[1] \in Seq(Ops) /\ commit[1] \in Nat
        /\ Len(data[1]) \in Nat
    BY PosFacts, PositionTypes, Zenon
  <1>2. Len(pend[1]) = 0 /\ Len(flight[1]) = 0
    <2>1. Len(pend[1]) + Len(flight[1]) = 0
      BY Zenon DEF InFlight
    <2>2. PICK q, f : q = pend[1] /\ f = flight[1]
      BY Zenon
    <2>3. q \in Seq(Statuses) /\ f \in Seq(Ops) /\ Len(q) + Len(f) = 0
      BY <1>1, <2>1, <2>2, Zenon
    <2>4. Len(q) \in Nat /\ Len(f) \in Nat
      BY <2>3
    <2>5. Len(q) = 0 /\ Len(f) = 0
      BY <2>3, <2>4
    <2>. QED  BY <2>2, <2>5, Zenon
  <1>3. \A o : ~OffIn(flight[1], o) /\ ~OkOffIn(pend[1], o)
    BY <1>2 DEF OffIn, OkOffIn
  <1>4. \A o \in commit[1] .. Len(data[1]) - 1 : FALSE
    BY <1>3, Zenon DEF Order, MasterWaits, Waits
  <1>. QED  BY <1>1, <1>4

\* The master takes a record, or tells the chain what it has committed.
LEMMA AcksMaster ==
    ASSUME TypeInv, Order, NEW c, c = commit[1], AcksUpTo(c),
           SendCommitAck \/ \E w \in Wids : ClientAppend(w)
    PROVE  AcksUpTo(c)'
  <1>1. \A j \in Pos : \A k \in 1 .. Len(link[j]) : Has(link[j], link[j][k])
    BY Zenon DEF Has
  <1>2. CASE SendCommitAck
    <2>1. /\ Open(1) /\ InFlight(1) = 0 /\ st' = st /\ link' = link /\ reply' = reply
          /\ pend' = [pend EXCEPT ![1] = Append(pend[1], [op |-> AppendOp("ack", NoWid, 0), ok |-> TRUE])]
      BY <1>2, Zenon DEF SendCommitAck, CommitAckDue, appender, Open
    <2>2. PICK s : s = [op |-> AppendOp("ack", NoWid, 0), ok |-> TRUE]
      OBVIOUS
    <2>3. s \in Statuses /\ s.op.off = Len(data[1])
      BY <2>2, NewOpType DEF Statuses, AppendOp
    <2>4. AckUpTo(s.op, c)
      BY <2>1, <2>3, IdleCommitted, Zenon DEF AckUpTo
    <2>. QED  BY <1>1, <2>1, <2>2, <2>3, <2>4, PosFacts, AcksQueued, Zenon
  <1>3. ASSUME NEW w \in Wids, ClientAppend(w) PROVE AcksUpTo(c)'
    <2>1. PICK s : s = [op |-> AppendOp("append", w, wid[1][w].seq + 1), ok |-> TRUE]
      OBVIOUS
    <2>2. /\ pend' = [pend EXCEPT ![1] = Append(pend[1], s)]
          /\ st' = st /\ link' = link /\ reply' = reply
      BY <1>3, <2>1, Zenon DEF ClientAppend
    <2>3. wid[1][w].seq + 1 \in 1 .. MaxOps
      <3>1. wid[1][w] \in WidInfo
        BY PosFacts DEF TypeInv, ClientType
      <3>2. wid[1][w].seq < MaxOps
        BY <1>3, Zenon DEF ClientAppend
      <3>. QED  BY <3>1, <3>2, ChainAssumption DEF WidInfo
    <2>4. s \in Statuses /\ App(s.op)
      BY <2>1, <2>3, NewOpType DEF Statuses, AppendOp, App
    <2>5. AckUpTo(s.op, c)
      BY <2>4, Zenon DEF AckUpTo
    <2>. QED  BY <1>1, <2>2, <2>4, <2>5, PosFacts, AcksQueued, Zenon
  <1>. QED  BY <1>2, <1>3

\* A slave takes an op off the wire.
LEMMA AcksTakes ==
    ASSUME TypeInv, NEW c, AcksUpTo(c), NEW i \in Pos, AppendBegin(i)
    PROVE  AcksUpTo(c)'
  <1>1. PICK b \in Pos, s \in Statuses : Receives(i, b, s)
    BY TakesQueues, Zenon
  <1>2. /\ link[b] # <<>> /\ s.op = Head(link[b]) /\ reply' = reply
        /\ link'[b] = Tail(link[b]) /\ \A j \in Pos : j # b => link'[j] = link[j]
        /\ pend' = [pend EXCEPT ![i] = Append(pend[i], s)]
    BY <1>1, Zenon DEF Receives
  <1>3. \A j \in Pos : st'[j] = "open" => st[j] = "open"
    <2>1. st' # st => st' = [st EXCEPT ![i] = "failed"]
      BY <1>1, Zenon DEF Receives
    <2>. QED  BY <2>1 DEF TypeInv, ChainType
  <1>4. link[b] \in Seq(Ops)
    BY PositionTypes, Zenon
  <1>5. Has(link[b], s.op) /\ \A k \in 1 .. Len(link'[b]) : Has(link[b], link'[b][k])
    BY <1>2, <1>4, WireParts, Zenon
  <1>6. AckUpTo(s.op, c)
    BY <1>5, Zenon DEF AcksUpTo, Has
  <1>7. \A j \in Pos : \A k \in 1 .. Len(link'[j]) : Has(link[j], link'[j][k])
    BY <1>2, <1>5, Zenon DEF Has
  <1>. QED  BY <1>2, <1>3, <1>6, <1>7, AcksQueued, Zenon

\* Closes come and go.
LEMMA AcksCloses ==
    ASSUME TypeInv, NEW c \in Nat, AcksUpTo(c),
           (\E w \in Wids : CloseChunk(w)) \/ (\E i \in Pos : CloseForwarded(i))
    PROVE  AcksUpTo(c)'
  <1>1. ASSUME UNCHANGED <<st, pend, reply>>,
               \A j \in Pos : \A k \in 1 .. Len(link'[j]) :
                  Has(link[j], link'[j][k]) \/ AckUpTo(link'[j][k], c)
        PROVE  AcksUpTo(c)'
    <2>1. /\ \A j \in Pos : \A k \in 1 .. Len(pend'[j]) : Has(pend[j], pend'[j][k])
          /\ \A j \in Pos : \A k \in 1 .. Len(reply'[j]) : Has(reply[j], reply'[j][k])
      BY <1>1, Zenon DEF Has
    <2>. QED  BY <1>1, <2>1, AcksFrom, Zenon
  <1>2. ASSUME NEW w \in Wids, CloseChunk(w) PROVE AcksUpTo(c)'
    <2>1. PICK o : o = CloseOp(w)
      OBVIOUS
    <2>2. o \in Ops /\ AckUpTo(o, c)
      BY <2>1, NewOpType DEF CloseOp, AckUpTo
    <2>3. /\ UNCHANGED <<st, pend, reply>>
          /\ link' = link \/ link' = [link EXCEPT ![1] = Append(link[1], o)]
      BY <1>2, <2>1, Zenon DEF CloseChunk
    <2>4. /\ link'[1] = link[1] \/ link'[1] = Append(link[1], o)
          /\ \A j \in Pos : j # 1 => link'[j] = link[j]
      BY <2>3, PosFacts, Zenon DEF TypeInv, ChainType
    <2>5. \A k \in 1 .. Len(Append(link[1], o)) : Has(link[1], Append(link[1], o)[k]) \/ Append(link[1], o)[k] = o
      BY <2>2, PosFacts, PositionTypes, WireParts, Zenon
    <2>6. \A j \in Pos : \A k \in 1 .. Len(link[j]) : Has(link[j], link[j][k])
      BY Zenon DEF Has
    <2>7. \A j \in Pos : \A k \in 1 .. Len(link'[j]) : Has(link[j], link'[j][k]) \/ AckUpTo(link'[j][k], c)
      BY <2>2, <2>4, <2>5, <2>6, Zenon
    <2>. QED  BY <1>1, <2>3, <2>7, Zenon
  <1>3. ASSUME NEW i \in Pos, CloseForwarded(i) PROVE AcksUpTo(c)'
    <2>1. PICK b, o : b = i - 1 /\ o = Head(link[b])
      OBVIOUS
    <2>2. /\ b \in Pos /\ link[b] # <<>> /\ o \in Ops /\ link'[b] = Tail(link[b])
          /\ \A j \in Pos : j # b => link'[j] = link[j] \/ link'[j] = Append(link[j], o)
          /\ UNCHANGED <<st, pend, reply>>
      BY <1>3, <2>1, CloseForwardedFacts, Zenon
    <2>3. \A j \in Pos : link[j] \in Seq(Ops)
      BY PositionTypes, Zenon
    <2>4. Has(link[b], o) /\ \A k \in 1 .. Len(link'[b]) : Has(link[b], link'[b][k])
      BY <2>1, <2>2, <2>3, WireParts, Zenon
    <2>5. AckUpTo(o, c)
      BY <2>2, <2>4, Zenon DEF AcksUpTo, Has
    <2>6. \A j \in Pos : \A k \in 1 .. Len(Append(link[j], o)) : Has(link[j], Append(link[j], o)[k]) \/ Append(link[j], o)[k] = o
      BY <2>2, <2>3, WireParts, Zenon
    <2>7. \A j \in Pos : \A k \in 1 .. Len(link[j]) : Has(link[j], link[j][k])
      BY Zenon DEF Has
    <2>8. ASSUME NEW j \in Pos, NEW k \in 1 .. Len(link'[j])
          PROVE  Has(link[j], link'[j][k]) \/ AckUpTo(link'[j][k], c)
      <3>1. CASE j = b
        BY <2>4, <3>1, Zenon
      <3>2. CASE link'[j] = link[j]
        BY <2>7, <3>2, Zenon
      <3>3. CASE link'[j] = Append(link[j], o)
        <4>1. Has(link[j], link'[j][k]) \/ link'[j][k] = o
          BY <2>6, <3>3, Zenon
        <4>. QED  BY <2>5, <4>1, Zenon
      <3>. QED  BY <2>2, <3>1, <3>2, <3>3, Zenon
    <2>. QED  BY <1>1, <2>2, <2>8, Zenon
  <1>. QED  BY <1>2, <1>3

\* A queue is run: what is sent and answered was queued.
LEMMA AcksRuns ==
    ASSUME TypeInv, ChainInv, NEW c, AcksUpTo(c), NEW i \in Pos, RunPendingSubmitQueue(i)
    PROVE  AcksUpTo(c)'
  <1>1. PICK sent \in Seq(Ops), r \in Seq(Statuses) : RunsQueue(i, sent, r)
    BY RunMoves, Zenon
  <1>2. /\ NoneOk(r) /\ SentOf(sent, pend[i])
        /\ \A j \in Pos : j # i => st'[j] = st[j] /\ pend'[j] = pend[j]
        /\ pend'[i] = <<>> /\ (st'[i] = "open" => Open(i))
    BY <1>1, Zenon DEF RunsQueue
  <1>3. \A k \in 1 .. Len(sent) : AckUpTo(sent[k], c)
    <2>1. ASSUME NEW k \in 1 .. Len(sent) PROVE k \in 1 .. Len(pend[i])
      <3>1. Len(sent) <= Len(pend[i]) /\ Len(pend[i]) \in Nat /\ Len(sent) \in Nat
        BY <1>2, PositionTypes DEF SentOf
      <3>. QED  BY <3>1
    <2>. QED  BY <1>2, <2>1, Zenon DEF SentOf, AcksUpTo, AckUpTo, App
  <1>4. \A j \in Pos : st'[j] = "open" => st[j] = "open"
    BY <1>2, Zenon DEF Open
  <1>5. \A j \in Pos : \A k \in 1 .. Len(pend'[j]) : Has(pend[j], pend'[j][k])
    <2>1. \A k \in 1 .. Len(<<>>) : FALSE
      OBVIOUS
    <2>. QED  BY <1>2, <2>1, Zenon DEF Has
  <1>6. \A j \in Pos : \A k \in 1 .. Len(link[j]) : Has(link[j], link[j][k])
    BY Zenon DEF Has
  <1>7. \A j \in Pos : \A k \in 1 .. Len(link'[j]) : Has(link[j], link'[j][k]) \/ AckUpTo(link'[j][k], c)
    <2>1. CASE i < N
      <3>1. link'[i] = link[i] \o sent /\ \A j \in Pos : j # i => link'[j] = link[j]
        BY <1>1, <2>1, Zenon DEF RunsQueue, TypeInv, ChainType
      <3>2. \A k \in 1 .. Len(link'[i]) : Has(link[i], link'[i][k]) \/ \E l \in 1 .. Len(sent) : link'[i][k] = sent[l]
        <4>1. PICK f : f = link[i]
          OBVIOUS
        <4>2. f \in Seq(Ops)
          BY <4>1, PositionTypes, Zenon
        <4>3. \A k \in 1 .. Len(f \o sent) : Has(f, (f \o sent)[k]) \/ \E l \in 1 .. Len(sent) : (f \o sent)[k] = sent[l]
          BY <4>2, WireParts, Zenon
        <4>. QED  BY <3>1, <4>1, <4>3, Zenon
      <3>. QED  BY <1>3, <1>6, <3>1, <3>2, Zenon
    <2>2. CASE ~(i < N)
      <3>1. link' = link
        BY <1>1, <2>2, Zenon DEF RunsQueue
      <3>. QED  BY <1>6, <3>1, Zenon
    <2>. QED  BY <2>1, <2>2
  <1>8. \A j \in Pos : \A k \in 1 .. Len(reply'[j]) : reply'[j][k].ok =>
           Has(reply[j], reply'[j][k]) \/ AckUpTo(reply'[j][k].op, c)
    <2>1. \E rs \in Seq(Statuses) :
             /\ \A k \in 1 .. Len(rs) : rs[k].ok => AckUpTo(rs[k].op, c)
             /\ reply' = RepliesTo(reply, i, rs)
      <3>1. CASE i < N
        <4>1. reply' = RepliesTo(reply, i, r)
          BY <1>1, <3>1, Zenon DEF RunsQueue
        <4>. QED  BY <1>2, <4>1, Zenon DEF NoneOk
      <3>2. CASE ~(i < N)
        <4>1. PICK ans : ans = Answer(sent, TRUE)
          OBVIOUS
        <4>2. reply' = RepliesTo(reply, i, ans \o r)
          BY <1>1, <3>2, <4>1, Zenon DEF RunsQueue
        <4>3. ans \in Seq(Statuses) /\ Len(ans) = Len(sent) /\ \A k \in 1 .. Len(sent) : ans[k].op = sent[k]
          <5>1. TRUE \in BOOLEAN
            OBVIOUS
          <5>. QED  BY <4>1, <5>1, AnswerFacts, Zenon
        <4>4. \A k \in 1 .. Len(ans) : AckUpTo(ans[k].op, c)
          BY <1>3, <4>3, Zenon
        <4>5. ans \o r \in Seq(Statuses)
          BY <4>3, ConcatFacts, Zenon
        <4>6. \A k \in 1 .. Len(ans \o r) : Has(ans, (ans \o r)[k]) \/ Has(r, (ans \o r)[k])
          BY <4>3, StatusParts, Zenon
        <4>7. \A k \in 1 .. Len(ans \o r) : (ans \o r)[k].ok => AckUpTo((ans \o r)[k].op, c)
          BY <1>2, <4>4, <4>6, Zenon DEF Has, NoneOk
        <4>. QED  BY <4>2, <4>5, <4>7, Zenon
      <3>. QED  BY <3>1, <3>2
    <2>2. PICK rs \in Seq(Statuses) : /\ \A k \in 1 .. Len(rs) : rs[k].ok => AckUpTo(rs[k].op, c)
                                      /\ reply' = RepliesTo(reply, i, rs)
      BY <2>1
    <2>3. reply \in [Pos -> Seq(Statuses)]
      BY DEF TypeInv, ChainType
    <2>4. /\ \A j \in Pos : j # i - 1 => reply'[j] = reply[j]
          /\ i > 1 => i - 1 \in Pos /\ reply'[i - 1] = reply[i - 1] \o rs
          /\ ~(i > 1) => ~(i - 1 \in Pos)
      <3>1. ~(i > 1) => ~(i - 1 \in Pos)
        BY DEF Pos
      <3>2. PICK rep : rep = reply
        OBVIOUS
      <3>3. rep \in [Pos -> Seq(Statuses)]
        BY <2>3, <3>2
      <3>4. /\ \A j \in Pos : j # i - 1 => RepliesTo(rep, i, rs)[j] = rep[j]
            /\ i > 1 => i - 1 \in Pos /\ RepliesTo(rep, i, rs)[i - 1] = rep[i - 1] \o rs
        BY <3>3, RepliesFacts, Zenon
      <3>. QED  BY <2>2, <3>1, <3>2, <3>4, Zenon
    <2>5. PICK b : b = i - 1
      OBVIOUS
    <2>6. ASSUME b \in Pos, NEW k \in 1 .. Len(reply'[b]), reply'[b][k].ok
          PROVE  Has(reply[b], reply'[b][k]) \/ AckUpTo(reply'[b][k].op, c)
      <3>1. reply'[b] = reply[b] \o rs /\ reply[b] \in Seq(Statuses)
        BY <2>3, <2>4, <2>5, <2>6, Zenon
      <3>2. Has(reply[b], reply'[b][k]) \/ Has(rs, reply'[b][k])
        BY <2>6, <3>1, StatusParts, Zenon
      <3>. QED  BY <2>2, <2>6, <3>2, Zenon DEF Has
    <2>7. ASSUME NEW j \in Pos, j # b, NEW k \in 1 .. Len(reply'[j]) PROVE Has(reply[j], reply'[j][k])
      <3>1. reply'[j] = reply[j]
        BY <2>4, <2>5, <2>7, Zenon
      <3>. QED  BY <3>1, Zenon DEF Has
    <2>. QED  BY <2>6, <2>7, Zenon
  <1>. QED  BY <1>4, <1>5, <1>7, <1>8, AcksFrom, Zenon

\* A position fails: it answers failures only.
LEMMA AcksFails ==
    ASSUME TypeInv, NEW c, AcksUpTo(c), NEW i \in Pos, Fails(i),
           \A j \in Pos : \A k \in 1 .. Len(link'[j]) : Has(link[j], link'[j][k])
    PROVE  AcksUpTo(c)'
  <1>1. /\ Elsewhere(i) /\ pend' = pend /\ st'[i] # "open"
        /\ i > 1 => \E r \in Seq(Statuses) : NoneOk(r) /\ reply'[i - 1] = reply[i - 1] \o r
    BY Zenon DEF Fails
  <1>2. \A j \in Pos : st'[j] = "open" => j # i /\ st[j] = "open"
    BY <1>1, Zenon DEF Elsewhere
  <1>3. \A j \in Pos : \A k \in 1 .. Len(pend'[j]) : Has(pend[j], pend'[j][k])
    BY <1>1, Zenon DEF Has
  <1>4. PICK b : b = i - 1
    OBVIOUS
  <1>5. b \in Pos => i > 1
    BY <1>4 DEF Pos
  <1>6. ASSUME NEW j \in Pos, st'[j] = "open", NEW k \in 1 .. Len(reply'[j]), reply'[j][k].ok
        PROVE  Has(reply[j], reply'[j][k])
    <2>1. CASE j = b
      <3>1. PICK r \in Seq(Statuses) : NoneOk(r) /\ reply'[b] = reply[b] \o r
        BY <1>1, <1>4, <1>5, <2>1, Zenon
      <3>2. Has(reply[b], reply'[b][k]) \/ Has(r, reply'[b][k])
        BY <1>6, <2>1, <3>1, PositionTypes, StatusParts, Zenon
      <3>. QED  BY <1>6, <2>1, <3>1, <3>2, Zenon DEF Has, NoneOk
    <2>2. CASE j # b
      <3>1. reply'[j] = reply[j]
        BY <1>1, <1>2, <1>4, <1>6, <2>2, Zenon DEF Elsewhere
      <3>. QED  BY <3>1, Zenon DEF Has
    <2>. QED  BY <2>1, <2>2
  <1>. QED  BY <1>2, <1>3, <1>6, AcksFrom, Zenon

\* The successor's reply arrives, or the connection breaks.
LEMMA AcksReplies ==
    ASSUME TypeInv, ChainInv, NEW c, AcksUpTo(c), NEW i \in Pos, OpDone(i) \/ PeerFailed(i)
    PROVE  AcksUpTo(c)'
  <1>1. CASE PeerFailed(i)
    <2>1. PICK n \in 0 .. Len(link[i]) : link' = [link EXCEPT ![i] = SubSeq(link[i], 1, n)]
      BY <1>1, PeerFailedMoves, Zenon
    <2>2. link'[i] = SubSeq(link[i], 1, n) /\ \A j \in Pos : j # i => link'[j] = link[j]
      BY <2>1, Zenon DEF TypeInv, ChainType
    <2>3. n \in Nat /\ n <= Len(link[i]) /\ link[i] \in Seq(Ops)
      BY PositionTypes
    <2>4. \A k \in 1 .. Len(link'[i]) : Has(link[i], link'[i][k])
      BY <2>2, <2>3, WireParts, Zenon
    <2>5. \A j \in Pos : \A k \in 1 .. Len(link'[j]) : Has(link[j], link'[j][k])
      BY <2>2, <2>4, Zenon DEF Has
    <2>. QED  BY <1>1, <2>5, PeerFailedMoves, AcksFails, Zenon
  <1>2. CASE OpDone(i)
    <2>1. /\ i < N /\ link' = link
          /\ \/ Drops(i) \/ Fails(i)
             \/ \E k \in 1 .. Len(flight[i]), a \in Statuses : Confirms(i, k, a)
      BY <1>2, OpDoneMoves
    <2>2. \A j \in Pos : \A k \in 1 .. Len(link'[j]) : Has(link[j], link'[j][k])
      BY <2>1, Zenon DEF Has
    <2>3. CASE Fails(i)
      BY <2>2, <2>3, AcksFails, Zenon
    <2>4. reply[i] \in Seq(Statuses)
      BY PositionTypes, Zenon
    <2>5. ASSUME NEW j \in Pos, pend' = pend PROVE \A k \in 1 .. Len(pend'[j]) : Has(pend[j], pend'[j][k])
      BY <2>5, Zenon DEF Has
    <2>6. CASE Drops(i)
      <3>1. /\ reply[i] # <<>> /\ st' = st /\ pend' = pend
            /\ reply'[i] = Tail(reply[i]) /\ \A j \in Pos : j # i => reply'[j] = reply[j]
        BY <2>6, Zenon DEF Drops, TypeInv, ChainType
      <3>2. \A k \in 1 .. Len(reply'[i]) : Has(reply[i], reply'[i][k])
        BY <2>4, <3>1, StatusParts, Zenon
      <3>3. \A j \in Pos : \A k \in 1 .. Len(reply'[j]) : Has(reply[j], reply'[j][k])
        BY <3>1, <3>2, Zenon DEF Has
      <3>. QED  BY <2>2, <2>5, <3>1, <3>3, AcksFrom, Zenon
    <2>7. ASSUME NEW k \in 1 .. Len(flight[i]), NEW a \in Statuses, Confirms(i, k, a) PROVE AcksUpTo(c)'
      <3>1. /\ Open(i) /\ reply[i] # <<>> /\ a.op = Head(reply[i]).op /\ Head(reply[i]).ok
            /\ reply' = RepliesTo([reply EXCEPT ![i] = Tail(reply[i])], i, <<a>>)
            /\ st' = st /\ pend' = pend
        BY <2>7, Zenon DEF Confirms
      <3>2. PICK rs, x : rs = <<a>> /\ x = Tail(reply[i])
        OBVIOUS
      <3>3. rs \in Seq(Statuses) /\ x \in Seq(Statuses) /\ \A l \in 1 .. Len(rs) : rs[l] = a
        BY <2>4, <3>1, <3>2, TailFacts
      <3>4. /\ reply'[i] = x /\ \A j \in Pos : j # i /\ j # i - 1 => reply'[j] = reply[j]
            /\ i > 1 => reply'[i - 1] = reply[i - 1] \o rs
        BY <3>1, <3>2, <3>3, RepliesMove, Zenon
      <3>5. AckUpTo(a.op, c)
        <4>1. Has(reply[i], Head(reply[i]))
          BY <2>4, <3>1, StatusParts, Zenon
        <4>. QED  BY <3>1, <4>1, Zenon DEF AcksUpTo, Has
      <3>6. PICK b : b = i - 1
        OBVIOUS
      <3>7. (b \in Pos => i > 1) /\ b # i
        BY <3>6 DEF Pos
      <3>8. ASSUME NEW j \in Pos, NEW l \in 1 .. Len(reply'[j])
            PROVE  Has(reply[j], reply'[j][l]) \/ AckUpTo(reply'[j][l].op, c)
        <4>1. CASE j = i
          BY <2>4, <3>1, <3>2, <3>4, <4>1, StatusParts, Zenon
        <4>2. CASE j = b
          <5>1. reply'[b] = reply[b] \o rs /\ reply[b] \in Seq(Statuses)
            BY <3>4, <3>6, <3>7, <4>2, PositionTypes, Zenon
          <5>2. Has(reply[b], reply'[b][l]) \/ Has(rs, reply'[b][l])
            BY <3>3, <3>8, <4>2, <5>1, StatusParts, Zenon
          <5>. QED  BY <3>3, <3>5, <4>2, <5>2, Zenon DEF Has
        <4>3. CASE j # i /\ j # b
          <5>1. reply'[j] = reply[j]
            BY <3>4, <3>6, <4>3, Zenon
          <5>. QED  BY <5>1, Zenon DEF Has
        <4>. QED  BY <4>1, <4>2, <4>3
      <3>. QED  BY <2>2, <2>5, <3>1, <3>8, AcksFrom, Zenon
    <2>. QED  BY <2>1, <2>3, <2>6, <2>7, Zenon
  <1>. QED  BY <1>1, <1>2

\* What the master has committed grows.
LEMMA AckStep ==
    ASSUME TypeInv, TypeInv', ChainInv, Order, AckBound, [Next]_vars, commit[1] <= commit'[1],
           \A j \in Pos : st'[j] = "open" => st[j] = "open"
    PROVE  AckBound'
  <1>1. PICK c : c = commit[1]
    OBVIOUS
  <1>2. c \in Nat /\ commit'[1] \in Nat /\ c <= commit'[1]
    BY <1>1, PosFacts DEF TypeInv, ChainType
  <1>3. AcksUpTo(c)
    BY <1>1, Zenon DEF AckBound
  <1>4. AcksUpTo(c)'
    <2>1. CASE UNCHANGED wires
      BY <1>3, <2>1, AcksKept, Zenon
    <2>2. CASE UNCHANGED vars
      BY <2>1, <2>2, Zenon DEF vars
    <2>3. ASSUME NEW w \in Wids, ClientAppend(w) \/ CloseChunk(w) PROVE AcksUpTo(c)'
      BY <1>1, <1>2, <1>3, <2>3, AcksMaster, AcksCloses, Zenon
    <2>4. CASE LeaseExpired \/ TryToCloseChunk \/ LeaseClerkExpires
               \/ BeginMakeChunkStable \/ BeginMakeChunkStableDone \/ LeaseRelinquish
      BY <2>1, <2>4, Zenon DEF LeaseExpired, TryToCloseChunk, LeaseClerkExpires, BeginMakeChunkStable,
                               BeginMakeChunkStableDone, LeaseRelinquish
    <2>5. CASE SendCommitAck
      BY <1>1, <1>3, <2>5, AcksMaster, Zenon
    <2>6. ASSUME NEW i \in Pos, AppendBegin(i) \/ RunPendingSubmitQueue(i) \/ OpDone(i) \/ PeerFailed(i)
                                \/ CloseForwarded(i)
          PROVE  AcksUpTo(c)'
      BY <1>2, <1>3, <2>6, AcksTakes, AcksRuns, AcksReplies, AcksCloses, Zenon
    <2>7. ASSUME NEW i \in Pos, \/ ReplicationTimeout(i) \/ Lose(i) \/ BeginMakeStable(i) \/ MakeChunkStable(i)
                                \/ \E w \in Wids : GetOpStatus(i, w) \/ InvalidateWriteId(i, w)
          PROVE  AcksUpTo(c)'
      BY <2>1, <2>7, Zenon DEF ReplicationTimeout, Lose, BeginMakeStable, MakeChunkStable, GetOpStatus,
                               InvalidateWriteId
    <2>. QED  BY <2>2, <2>3, <2>4, <2>5, <2>6, <2>7 DEF Next
  <1>5. \A j \in Pos : pend'[j] \in Seq(Statuses) /\ link'[j] \in Seq(Ops) /\ reply'[j] \in Seq(Statuses)
    BY DEF TypeInv, ChainType
  <1>6. \A x \in Nat : x <= c => x <= commit'[1]
    BY <1>2
  <1>7. \A o : o.off \in Nat /\ AckUpTo(o, c) => AckUpTo(o, commit'[1])
    BY <1>6, Zenon DEF AckUpTo
  <1>8. ASSUME NEW j \in Pos
        PROVE  /\ \A k \in 1 .. Len(pend'[j]) : AckUpTo(pend'[j][k].op, commit'[1])
               /\ \A k \in 1 .. Len(link'[j]) : AckUpTo(link'[j][k], commit'[1])
               /\ st'[j] = "open" => \A k \in 1 .. Len(reply'[j]) : reply'[j][k].ok =>
                                        AckUpTo(reply'[j][k].op, commit'[1])
    <2>1. /\ \A k \in 1 .. Len(pend'[j]) : AckUpTo(pend'[j][k].op, c)
          /\ \A k \in 1 .. Len(link'[j]) : AckUpTo(link'[j][k], c)
          /\ st'[j] = "open" => \A k \in 1 .. Len(reply'[j]) : reply'[j][k].ok => AckUpTo(reply'[j][k].op, c)
      BY <1>4, Zenon DEF AcksUpTo, AckUpTo, Open, App
    <2>. QED  BY <1>5, <1>7, <2>1, OpOffsets, Zenon
  <1>. QED  BY <1>8, Zenon DEF AckBound, AcksUpTo, AckUpTo, Open, App

\* What a slave queues was queued, or comes off the wire.
LEMMA PendSource ==
    ASSUME TypeInv, ChainInv, [Next]_vars, NEW j \in Pos, j > 1, NEW b, b = j - 1,
           NEW k \in 1 .. Len(pend'[j])
    PROVE  Has(pend[j], pend'[j][k]) \/ Has(link[b], pend'[j][k].op)
  <1>1. CASE pend'[j] = pend[j]
    BY <1>1, Zenon DEF Has
  <1>2. CASE UNCHANGED vars
    BY <1>1, <1>2, Zenon DEF vars, wires
  <1>3. CASE SendCommitAck \/ \E w \in Wids : ClientAppend(w)
    <2>1. PICK s \in Statuses : Queues(1, s)
      BY <1>3, MasterQueues, Zenon
    <2>2. j # 1
      OBVIOUS
    <2>3. pend'[j] = pend[j]
      BY <2>1, <2>2, Zenon DEF Queues, TypeInv, ChainType
    <2>. QED  BY <1>1, <2>3
  <1>4. ASSUME NEW i \in Pos, AppendBegin(i)
        PROVE  Has(pend[j], pend'[j][k]) \/ Has(link[b], pend'[j][k].op)
    <2>1. PICK a \in Pos, s \in Statuses : Receives(i, a, s)
      BY <1>4, TakesQueues, Zenon
    <2>2. /\ a = i - 1 /\ link[a] # <<>> /\ s.op = Head(link[a])
          /\ pend' = [pend EXCEPT ![i] = Append(pend[i], s)]
      BY <2>1, Zenon DEF Receives
    <2>3. CASE j # i
      <3>1. pend'[j] = pend[j]
        BY <2>2, <2>3, Zenon DEF TypeInv, ChainType
      <3>. QED  BY <1>1, <3>1
    <2>4. CASE j = i
      <3>1. pend'[j] = Append(pend[j], s) /\ pend[j] \in Seq(Statuses) /\ link[a] \in Seq(Ops)
        BY <2>2, <2>4, PositionTypes, Zenon DEF TypeInv, ChainType
      <3>2. Has(pend[j], pend'[j][k]) \/ pend'[j][k] = s
        <4>1. PICK q : q = pend[j]
          OBVIOUS
        <4>2. q \in Seq(Statuses)
          BY <3>1, <4>1, Zenon
        <4>3. \A l \in 1 .. Len(Append(q, s)) : Has(q, Append(q, s)[l]) \/ Append(q, s)[l] = s
          BY <4>2, WireParts, Zenon DEF Has
        <4>. QED  BY <3>1, <4>1, <4>3, Zenon
      <3>3. Has(link[a], s.op)
        BY <2>2, <3>1, WireParts, Zenon
      <3>. QED  BY <2>2, <2>4, <3>2, <3>3, Zenon
    <2>. QED  BY <2>3, <2>4
  <1>5. ASSUME NEW i \in Pos, RunPendingSubmitQueue(i) PROVE Has(pend[j], pend'[j][k])
    <2>1. PICK sent \in Seq(Ops), r \in Seq(Statuses) : RunsQueue(i, sent, r)
      BY <1>5, RunMoves, Zenon
    <2>2. (j # i => pend'[j] = pend[j]) /\ pend'[i] = <<>>
      BY <2>1, Zenon DEF RunsQueue
    <2>3. \A l \in 1 .. Len(<<>>) : FALSE
      OBVIOUS
    <2>. QED  BY <2>2, <2>3, Zenon DEF Has
  <1>6. ASSUME NEW w \in Wids, CloseChunk(w) PROVE pend' = pend
    BY <1>6, Zenon DEF CloseChunk
  <1>7. CASE LeaseExpired \/ TryToCloseChunk \/ LeaseClerkExpires
             \/ BeginMakeChunkStable \/ BeginMakeChunkStableDone \/ LeaseRelinquish
    <2>1. pend' = pend
      BY <1>7, Zenon DEF LeaseExpired, TryToCloseChunk, LeaseClerkExpires, BeginMakeChunkStable,
                         BeginMakeChunkStableDone, LeaseRelinquish, wires
    <2>. QED  BY <1>1, <2>1, Zenon
  <1>8. ASSUME NEW i \in Pos, \/ OpDone(i) \/ PeerFailed(i) \/ ReplicationTimeout(i) \/ Lose(i)
                              \/ CloseForwarded(i) \/ BeginMakeStable(i) \/ MakeChunkStable(i)
                              \/ \E w \in Wids : GetOpStatus(i, w) \/ InvalidateWriteId(i, w)
        PROVE  pend' = pend
    BY <1>8, Zenon DEF OpDone, PeerFailed, ReplicationTimeout, Lose, CloseForwarded, BeginMakeStable,
                       MakeChunkStable, GetOpStatus, InvalidateWriteId, wires
  <1>. QED  BY <1>1, <1>2, <1>3, <1>4, <1>5, <1>6, <1>7, <1>8, Zenon DEF Next
=============================================================================
