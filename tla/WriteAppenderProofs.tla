------------------------- MODULE WriteAppenderProofs -------------------------
(***************************************************************************)
(* Proofs about the record appender of the client library: a record is in  *)
(* the file at most once and is there if it was reported, space that is    *)
(* counted on is held by the server, and no record is left behind.         *)
(*                                                                         *)
(* The handlers call each other, and StartAppend is the end of most of     *)
(* them: Ready is what holds before it, Sound after it, Failing before     *)
(* HandleError, Inquiring while the status of an append is asked for.      *)
(* There is a lemma for each handler, from one of these to another, and    *)
(* one for each event.                                                     *)
(***************************************************************************)
EXTENDS WriteAppender, WellFoundedInduction, NaturalsInduction, TLAPS

\* A set of naturals that is not empty has a least element: the form in which the
\* proofs below use induction.
LEMMA Least ==
  ASSUME NEW T, T \subseteq Nat, T # {}
  PROVE  \E n \in T : \A m \in T : n <= m
  <1>1. IsWellFoundedOn(OpToRel(<, Nat), Nat)
    BY NatLessThanWellFounded, Zenon
  <1>2. \E n \in T : \A m \in T : ~(m < n)
    <2>. PICK R : R = OpToRel(<, Nat)
      BY Zenon
    <2>1. PICK n \in T : \A m \in T : ~(<<m, n>> \in R)
      BY <1>1, WFMin, Zenon
    <2>2. \A m \in T : ~(m < n)
      BY <2>1, Zenon DEF OpToRel
    <2>. QED  BY <2>2, Zenon
  <1>. QED  BY <1>2

(* f is the function PrefixSum is defined by.                              *)
IsSum(f, q, k) == f = [i \in 0 .. k |-> IF i = 0 THEN 0 ELSE f[i - 1] + q[i]]

\* PrefixSum is the last value of such a function, when there is one.
LEMMA SumIs ==
  ASSUME NEW q, NEW k, NEW f, IsSum(f, q, k)
  PROVE  \E g : IsSum(g, q, k) /\ PrefixSum(q, k) = g[k]
  <1>. DEFINE g == CHOOSE h : IsSum(h, q, k)
  <1>1. IsSum(g, q, k)
    OBVIOUS
  <1>2. PrefixSum(q, k) = g[k]
    BY Zenon DEF PrefixSum, IsSum
  <1>. QED BY <1>1, <1>2, Zenon

(* Two sequences of numbers that grow by the same amounts.                 *)
InStep(f, g, n) ==
  /\ \A i \in 0 .. n : g[i] \in Int
  /\ \A i \in 1 .. n : \E d \in Int : f[i] = f[i - 1] + d /\ g[i] = g[i - 1] + d

\* Two sequences that grow by the same amounts keep their distance.
LEMMA Together ==
  ASSUME NEW n \in Nat, NEW f, NEW g, NEW c \in Int,
         f[0] = g[0] + c, InStep(f, g, n)
  PROVE  \A i \in 0 .. n : f[i] = g[i] + c
  <1>0. PICK T : T = {i \in 0 .. n : f[i] # g[i] + c}
    BY Zenon
  <1>1. SUFFICES ASSUME T # {} PROVE FALSE
    BY <1>0
  <1>2. PICK i \in T : \A m \in T : i <= m
    <2>1. T \subseteq Nat
      BY <1>0
    <2>. QED  BY <1>1, <2>1, Least, Zenon
  <1>3. i \in 1 .. n
    BY <1>0, <1>2
  <1>4. i - 1 \in 0 .. n /\ i - 1 \notin T
    BY <1>0, <1>2, <1>3
  <1>5. f[i - 1] = g[i - 1] + c
    BY <1>0, <1>4
  <1>6. PICK d \in Int : f[i] = f[i - 1] + d /\ g[i] = g[i - 1] + d
    BY <1>3 DEF InStep
  <1>7. f[i] = g[i] + c
    <2>1. g[i - 1] \in Int
      BY <1>4 DEF InStep
    <2>. QED  BY <1>5, <1>6, <2>1
  <1>. QED  BY <1>0, <1>2, <1>7

(* f lists the sums of the first entries of q.                             *)
Steps(f, q, k) == f[0] = 0 /\ \A i \in 1 .. k : f[i] = f[i - 1] + q[i]

\* A list of the sums is a function PrefixSum is defined by.
LEMMA StepsIsSum ==
  ASSUME NEW q, NEW k \in Nat, NEW f, Steps(f, q, k)
  PROVE  IsSum([i \in 0 .. k |-> f[i]], q, k)
  BY DEF Steps, IsSum

\* Every queue has a list of its sums.
LEMMA SumExists ==
  ASSUME NEW q \in Seq(Nat)
  PROVE  \A k \in 0 .. Len(q) : \E f \in [0 .. k -> Nat] : Steps(f, q, k)
  <1>0. PICK T : T = {k \in 0 .. Len(q) : ~\E f \in [0 .. k -> Nat] : Steps(f, q, k)}
    BY Zenon
  <1>1. SUFFICES ASSUME T # {} PROVE FALSE
    BY <1>0, Zenon
  <1>2. PICK k \in T : \A m \in T : k <= m
    <2>1. T \subseteq Nat
      BY <1>0
    <2>. QED  BY <1>1, <2>1, Least, Zenon
  <1>3. k # 0
    <2>. SUFFICES ASSUME k = 0 PROVE FALSE
      OBVIOUS
    <2>1. [i \in 0 .. 0 |-> 0] \in [0 .. 0 -> Nat]
      OBVIOUS
    <2>2. Steps([i \in 0 .. 0 |-> 0], q, 0)
      BY DEF Steps
    <2>. QED  BY <1>0, <1>2, <2>1, <2>2
  <1>4. k \in 0 .. Len(q) /\ k - 1 \in 0 .. Len(q) /\ k - 1 \notin T
    <2>1. k \in 0 .. Len(q)
      BY <1>0, <1>2
    <2>. QED  BY <1>2, <1>3, <2>1
  <1>5. PICK f \in [0 .. k - 1 -> Nat] : Steps(f, q, k - 1)
    BY <1>0, <1>4, Zenon
  <1>. DEFINE g == [i \in 0 .. k |-> IF i = k THEN f[k - 1] + q[k] ELSE f[i]]
  <1>6. f[k - 1] \in Nat /\ q[k] \in Nat
    BY <1>3, <1>4
  <1>7. g \in [0 .. k -> Nat]
    BY <1>4, <1>6
  <1>8. Steps(g, q, k)
    BY <1>3, <1>4, <1>5 DEF Steps
  <1>. QED  BY <1>0, <1>2, <1>7, <1>8, Zenon

\* PrefixSum is the last of the sums.
LEMMA SumSteps ==
  ASSUME NEW q \in Seq(Nat), NEW k \in 0 .. Len(q), NEW f \in [0 .. k -> Nat], Steps(f, q, k)
  PROVE  PrefixSum(q, k) = f[k]
  <1>0. k \in Nat
    OBVIOUS
  <1>1. PICK h : h = [i \in 0 .. k |-> f[i]]
    OBVIOUS
  <1>2. IsSum(h, q, k)
    BY <1>0, <1>1, StepsIsSum
  <1>3. PICK g : IsSum(g, q, k) /\ PrefixSum(q, k) = g[k]
    BY <1>2, SumIs
  <1>. PICK z \in Int : z = 0
    OBVIOUS
  <1>4. g[0] = f[0] + z
    BY <1>3 DEF IsSum, Steps
  <1>5. \A i \in 1 .. k : g[i] = g[i - 1] + q[i]
    BY <1>3 DEF IsSum
  <1>6. \A i \in 1 .. k : q[i] \in Int /\ f[i] = f[i - 1] + q[i]
    BY DEF Steps
  <1>7. \A i \in 1 .. k : \E d \in Int : g[i] = g[i - 1] + d /\ f[i] = f[i - 1] + d
    BY <1>5, <1>6, Zenon
  <1>8. \A i \in 0 .. k : g[i] = f[i] + z
    <2>1. \A i \in 0 .. k : f[i] \in Int
      OBVIOUS
    <2>2. InStep(g, f, k)
      BY <1>7, <2>1 DEF InStep
    <2>. QED  BY <1>0, <1>4, <2>2, Together
  <1>. QED  BY <1>3, <1>8

\* PrefixSum adds the entries of the queue up, one after the other.
LEMMA SumFacts ==
  ASSUME NEW q \in Seq(Nat)
  PROVE  /\ PrefixSum(q, 0) = 0
         /\ \A k \in 0 .. Len(q) : PrefixSum(q, k) \in Nat
         /\ \A k \in 1 .. Len(q) : PrefixSum(q, k) = PrefixSum(q, k - 1) + q[k]
  <1>1. PICK f \in [0 .. Len(q) -> Nat] : Steps(f, q, Len(q))
    BY SumExists
  <1>2. ASSUME NEW k \in 0 .. Len(q) PROVE PrefixSum(q, k) = f[k]
    <2>1. PICK g : g = [i \in 0 .. k |-> f[i]]
      OBVIOUS
    <2>2. g \in [0 .. k -> Nat]
      BY <2>1
    <2>3. Steps(g, q, k)
      BY <1>1, <2>1 DEF Steps
    <2>4. PrefixSum(q, k) = g[k]
      BY <2>2, <2>3, SumSteps
    <2>. QED  BY <2>1, <2>4
  <1>3. PrefixSum(q, 0) = 0
    BY <1>1, <1>2 DEF Steps
  <1>4. \A k \in 0 .. Len(q) : PrefixSum(q, k) \in Nat
    BY <1>2
  <1>5. \A k \in 1 .. Len(q) : PrefixSum(q, k) = PrefixSum(q, k - 1) + q[k]
    BY <1>1, <1>2 DEF Steps
  <1>. QED  BY <1>3, <1>4, <1>5

\* A longer prefix of a queue has more records, as no entry is empty.
LEMMA SumMono ==
  ASSUME NEW q \in Seq(Nat \ {0}), NEW i \in 0 .. Len(q), NEW j \in 0 .. Len(q), i < j
  PROVE  PrefixSum(q, i) < PrefixSum(q, j)
  <1>0. PICK T : T = {k \in i + 1 .. Len(q) : ~(PrefixSum(q, i) < PrefixSum(q, k))}
    BY Zenon
  <1>1. SUFFICES ASSUME T # {} PROVE FALSE
    BY <1>0
  <1>2. PICK k \in T : \A m \in T : k <= m
    <2>1. T \subseteq Nat
      BY <1>0
    <2>. QED  BY <1>1, <2>1, Least, Zenon
  <1>3. k \in i + 1 .. Len(q) /\ ~(PrefixSum(q, i) < PrefixSum(q, k))
    BY <1>0, <1>2
  <1>4. q \in Seq(Nat)
    OBVIOUS
  <1>5. /\ \A m \in 0 .. Len(q) : PrefixSum(q, m) \in Nat
        /\ \A m \in 1 .. Len(q) : PrefixSum(q, m) = PrefixSum(q, m - 1) + q[m]
    BY <1>4, SumFacts
  <1>6. k \in 1 .. Len(q) /\ k - 1 \in 0 .. Len(q) /\ q[k] \in Nat /\ q[k] > 0
    BY <1>3
  <1>7. PrefixSum(q, k - 1) < PrefixSum(q, k)
    <2>1. PrefixSum(q, k) = PrefixSum(q, k - 1) + q[k] /\ PrefixSum(q, k - 1) \in Nat
      BY <1>5, <1>6
    <2>. QED  BY <1>6, <2>1
  <1>8. k - 1 # i
    BY <1>3, <1>7
  <1>9. k - 1 \in i + 1 .. Len(q) /\ k - 1 \notin T
    BY <1>2, <1>3, <1>8
  <1>10. PrefixSum(q, i) < PrefixSum(q, k - 1)
    BY <1>0, <1>9
  <1>11. PrefixSum(q, i) \in Nat /\ PrefixSum(q, k - 1) \in Nat /\ PrefixSum(q, k) \in Nat
    BY <1>5, <1>6
  <1>. QED  BY <1>3, <1>7, <1>10, <1>11

(* p after i and q after j have the same n entries, and their sums before differ by *)
(* c.                                                                      *)
Shifted(p, i, q, j, n, c) ==
  /\ p \in Seq(Nat) /\ q \in Seq(Nat) /\ i \in Nat /\ j \in Nat /\ n \in Nat /\ c \in Int
  /\ i + n <= Len(p) /\ j + n <= Len(q)
  /\ PrefixSum(p, i) = PrefixSum(q, j) + c
  /\ \A m \in 1 .. n : p[i + m] = q[j + m]

\* Then the sums after those entries differ by the same amount.
LEMMA SumShift ==
  ASSUME NEW p, NEW i, NEW q, NEW j, NEW n, NEW c, Shifted(p, i, q, j, n, c)
  PROVE  PrefixSum(p, i + n) = PrefixSum(q, j + n) + c
  <1>0. /\ p \in Seq(Nat) /\ q \in Seq(Nat) /\ i \in Nat /\ j \in Nat /\ n \in Nat /\ c \in Int
        /\ i + n <= Len(p) /\ j + n <= Len(q)
        /\ PrefixSum(p, i) = PrefixSum(q, j) + c
        /\ \A m \in 1 .. n : p[i + m] = q[j + m]
    BY Zenon DEF Shifted
  <1>. USE <1>0
  <1>1. PICK f : f = [m \in 0 .. n |-> PrefixSum(p, i + m)]
    BY Zenon
  <1>2. PICK g : g = [m \in 0 .. n |-> PrefixSum(q, j + m)]
    BY Zenon
  <1>3. f[0] = g[0] + c
    BY <1>1, <1>2
  <1>4. \A m \in 0 .. n : g[m] \in Int
    <2>1. \A k \in 0 .. Len(q) : PrefixSum(q, k) \in Nat
      BY SumFacts
    <2>2. \A m \in 0 .. n : j + m \in 0 .. Len(q)
      OBVIOUS
    <2>. QED  BY <1>2, <2>1, <2>2
  <1>5. \A m \in 1 .. n : f[m] = f[m - 1] + p[i + m]
    <2>1. \A m \in 1 .. n : PrefixSum(p, i + m) = PrefixSum(p, i + m - 1) + p[i + m]
      BY SumFacts
    <2>. QED  BY <1>1, <2>1
  <1>6. \A m \in 1 .. n : g[m] = g[m - 1] + q[j + m]
    <2>1. \A m \in 1 .. n : PrefixSum(q, j + m) = PrefixSum(q, j + m - 1) + q[j + m]
      BY SumFacts
    <2>. QED  BY <1>2, <2>1
  <1>7. \A m \in 1 .. n : \E d \in Int : f[m] = f[m - 1] + d /\ g[m] = g[m - 1] + d
    <2>. TAKE m \in 1 .. n
    <2>1. q[j + m] \in Int /\ p[i + m] = q[j + m]
      OBVIOUS
    <2>. QED  BY <1>5, <1>6, <2>1, Zenon
  <1>8. \A m \in 0 .. n : f[m] = g[m] + c
    <2>1. InStep(f, g, n)
      BY <1>4, <1>7, Zenon DEF InStep
    <2>. QED  BY <1>3, <2>1, Together
  <1>. QED  BY <1>1, <1>2, <1>8

(* The records of a queue; mWriteQueue has no entry without any.           *)
Sum(q) == PrefixSum(q, Len(q))
Queues == Seq(Nat \ {0})

\* The queue without entries has no records.
LEMMA SumEmpty ==
  ASSUME NEW q, q = <<>>
  PROVE  q \in Queues /\ Sum(q) = 0
  <1>1. q \in Seq(Nat) /\ Len(q) = 0
    OBVIOUS
  <1>2. PrefixSum(q, 0) = 0
    BY <1>1, SumFacts, Zenon
  <1>. QED  BY <1>1, <1>2 DEF Sum, Queues

\* The first entry is not empty and is part of the sum.
LEMMA SumHead ==
  ASSUME NEW q \in Queues, q # <<>>
  PROVE  /\ PrefixSum(q, 1) = Head(q) /\ Head(q) \in Nat \ {0}
         /\ Sum(q) \in Nat /\ Head(q) <= Sum(q)
  <1>1. q \in Seq(Nat) /\ Len(q) \in Nat /\ Len(q) >= 1 /\ Head(q) = q[1] /\ q[1] \in Nat \ {0}
    BY DEF Queues
  <1>2. /\ PrefixSum(q, 0) = 0
        /\ \A k \in 0 .. Len(q) : PrefixSum(q, k) \in Nat
        /\ \A k \in 1 .. Len(q) : PrefixSum(q, k) = PrefixSum(q, k - 1) + q[k]
    BY <1>1, SumFacts
  <1>3. PrefixSum(q, 1) = q[1]
    <2>1. PrefixSum(q, 1) = PrefixSum(q, 1 - 1) + q[1]
      BY <1>1, <1>2
    <2>. QED  BY <1>1, <1>2, <2>1
  <1>4. ASSUME Len(q) = 1 PROVE Sum(q) \in Nat /\ Head(q) <= Sum(q)
    BY <1>1, <1>3, <1>4 DEF Sum
  <1>5. ASSUME Len(q) > 1 PROVE Sum(q) \in Nat /\ Head(q) <= Sum(q)
    <2>1. PICK i : i = 1
      OBVIOUS
    <2>2. PICK j : j = Len(q)
      BY Zenon
    <2>3. i \in 0 .. Len(q) /\ j \in 0 .. Len(q) /\ i < j
      BY <1>1, <1>5, <2>1, <2>2
    <2>4. PrefixSum(q, i) < PrefixSum(q, j)
      BY <2>3, SumMono DEF Queues
    <2>5. PrefixSum(q, Len(q)) \in Nat
      BY <1>1, <1>2
    <2>. QED  BY <1>1, <1>3, <2>1, <2>2, <2>4, <2>5 DEF Sum
  <1>6. Len(q) = 1 \/ Len(q) > 1
    <2>1. \A x \in Nat : x >= 1 => x = 1 \/ x > 1
      OBVIOUS
    <2>. QED  BY <1>1, <2>1, Zenon
  <1>. QED  BY <1>1, <1>3, <1>4, <1>5, <1>6, Zenon

\* Fit is the longest prefix of the queue that fits.
LEMMA FitIs ==
  ASSUME NEW q \in Queues, NEW n \in Nat
  PROVE  /\ Fit(q, n) \in 0 .. Len(q) /\ PrefixSum(q, Fit(q, n)) <= n
         /\ \A k \in 0 .. Len(q) : PrefixSum(q, k) <= n => k <= Fit(q, n)
  <1>1. PICK T : T = {k \in 0 .. Len(q) : PrefixSum(q, k) <= n}
    BY Zenon
  <1>2. PICK U : U = {Len(q) - k : k \in T}
    BY Zenon
  <1>3. q \in Seq(Nat) /\ Len(q) \in Nat
    BY DEF Queues
  <1>4. 0 \in T
    BY <1>1, <1>3, SumFacts
  <1>5. U \subseteq Nat /\ U # {}
    BY <1>1, <1>2, <1>3, <1>4
  <1>6. PICK u \in U : \A m \in U : u <= m
    BY <1>5, Least, Zenon
  <1>7. PICK x \in T : u = Len(q) - x
    BY <1>2
  <1>8. \A y \in T : x >= y
    <2>. TAKE y \in T
    <2>1. Len(q) - y \in U
      BY <1>2
    <2>2. Len(q) - x <= Len(q) - y
      BY <1>6, <1>7, <2>1, Zenon
    <2>. QED  BY <1>1, <1>3, <2>2
  <1>9. Max(T) \in T /\ \A y \in T : Max(T) >= y
    BY <1>8, Zenon DEF Max
  <1>10. Fit(q, n) = Max(T)
    BY <1>1, Zenon DEF Fit
  <1>. QED  BY <1>1, <1>3, <1>9, <1>10

(* The queue after its first k entries are joined (Append).                *)
Joined(q, k, n) == <<n>> \o SubSeq(q, k + 1, Len(q))

\* Joining entries keeps the records.
LEMMA SumJoin ==
  ASSUME NEW q \in Queues, NEW k \in 1 .. Len(q), NEW n, n = PrefixSum(q, k),
         NEW p, p = Joined(q, k, n)
  PROVE  p \in Queues /\ p # <<>> /\ Head(p) = n /\ n \in Nat \ {0} /\ Sum(p) = Sum(q)
  <1>1. q \in Seq(Nat) /\ Len(q) \in Nat
    BY DEF Queues
  <1>2. n \in Nat /\ n > 0
    <2>1. PICK i : i = 0
      OBVIOUS
    <2>2. i \in 0 .. Len(q) /\ k \in 0 .. Len(q) /\ i < k
      BY <1>1, <2>1
    <2>3. PrefixSum(q, i) < PrefixSum(q, k)
      BY <2>2, SumMono DEF Queues
    <2>4. PrefixSum(q, 0) = 0 /\ PrefixSum(q, k) \in Nat
      BY <1>1, <2>2, SumFacts
    <2>. QED  BY <2>1, <2>3, <2>4
  <1>3. SubSeq(q, k + 1, Len(q)) \in Queues /\ Len(SubSeq(q, k + 1, Len(q))) = Len(q) - k
    BY <1>1 DEF Queues
  <1>4. p \in Queues /\ Len(p) = Len(q) - k + 1 /\ p # <<>> /\ Head(p) = n
    BY <1>2, <1>3 DEF Queues, Joined
  <1>5. p \in Seq(Nat)
    BY <1>4 DEF Queues
  <1>6. PICK i \in Nat : i = 1
    OBVIOUS
  <1>7. PICK c \in Int : c = 0
    OBVIOUS
  <1>8. PICK m \in Nat : m = Len(q) - k
    BY <1>1
  <1>9. PrefixSum(p, i) = PrefixSum(q, k) + c
    <2>1. PrefixSum(p, 1) = n
      BY <1>4, SumHead
    <2>. QED  BY <1>2, <1>6, <1>7, <2>1
  <1>10. \A j \in 1 .. m : p[i + j] = q[k + j]
    <2>1. PICK r : r = SubSeq(q, k + 1, Len(q))
      BY Zenon
    <2>2. \A j \in 1 .. m : r[j] = q[k + j]
      <3>1. \A j \in 1 .. Len(q) - (k + 1) + 1 : r[j] = q[(k + 1) + j - 1]
        BY <1>1, <2>1
      <3>. QED  BY <1>1, <1>8, <3>1
    <2>3. \A j \in 1 .. m : p[1 + j] = r[j]
      <3>1. p = <<n>> \o r
        BY <2>1 DEF Joined
      <3>. QED  BY <1>2, <1>3, <1>8, <2>1, <3>1 DEF Queues
    <2>. QED  BY <1>6, <2>2, <2>3, Zenon
  <1>11. i + m <= Len(p) /\ k + m <= Len(q) /\ k \in Nat
    BY <1>1, <1>4, <1>6, <1>8
  <1>12. PrefixSum(p, i + m) = PrefixSum(q, k + m) + c
    <2>1. Shifted(p, i, q, k, m, c)
      BY <1>1, <1>5, <1>9, <1>10, <1>11, Zenon DEF Shifted
    <2>. QED  BY <2>1, SumShift
  <1>13. i + m = Len(p) /\ k + m = Len(q)
    BY <1>1, <1>4, <1>6, <1>8
  <1>14. PrefixSum(q, Len(q)) \in Nat
    BY <1>1, SumFacts
  <1>15. Sum(p) = Sum(q)
    <2>1. PrefixSum(p, Len(p)) = PrefixSum(q, Len(q)) + c
      BY <1>12, <1>13
    <2>. QED  BY <2>1, <1>7, <1>12, <1>13, <1>14 DEF Sum
  <1>. QED  BY <1>2, <1>4, <1>15

\* Queues that begin alike have the same sums there.
LEMMA SumSame ==
  ASSUME NEW p \in Queues, NEW q \in Queues, NEW n \in Nat, n <= Len(p), n <= Len(q),
         \A m \in 1 .. n : p[m] = q[m]
  PROVE  PrefixSum(p, n) = PrefixSum(q, n) /\ PrefixSum(q, n) \in Nat
  <1>1. p \in Seq(Nat) /\ q \in Seq(Nat)
    BY DEF Queues
  <1>2. PICK i \in Nat : i = 0
    OBVIOUS
  <1>3. PrefixSum(p, i) = PrefixSum(q, i) + i
    <2>1. PrefixSum(p, 0) = 0 /\ PrefixSum(q, 0) = 0
      BY <1>1, SumFacts
    <2>. QED  BY <1>2, <2>1
  <1>4. /\ i \in Int /\ i + n <= Len(p) /\ i + n <= Len(q)
        /\ \A m \in 1 .. n : p[i + m] = q[i + m]
    BY <1>1, <1>2
  <1>5. Shifted(p, i, q, i, n, i)
    BY <1>1, <1>3, <1>4, Zenon DEF Shifted
  <1>6. PrefixSum(p, i + n) = PrefixSum(q, i + n) + i
    BY <1>5, SumShift
  <1>7. i + n = n /\ n \in 0 .. Len(q)
    BY <1>2, <1>1
  <1>8. PrefixSum(q, n) \in Nat
    BY <1>1, <1>7, SumFacts
  <1>. QED  BY <1>2, <1>6, <1>7, <1>8

\* The last entry completes the sum.
LEMMA SumLast ==
  ASSUME NEW q \in Queues, NEW n \in Nat, Len(q) = n + 1
  PROVE  Sum(q) = PrefixSum(q, n) + q[n + 1]
  <1>1. q \in Seq(Nat)
    BY DEF Queues
  <1>2. \A k \in 1 .. Len(q) : PrefixSum(q, k) = PrefixSum(q, k - 1) + q[k]
    BY <1>1, SumFacts, Zenon
  <1>3. PICK k : k = n + 1
    OBVIOUS
  <1>4. k \in 1 .. Len(q) /\ k - 1 = n
    BY <1>3
  <1>5. PrefixSum(q, k) = PrefixSum(q, n) + q[k]
    BY <1>2, <1>4
  <1>. QED  BY <1>3, <1>5, Zenon DEF Sum

\* A record in an entry of its own.
LEMMA SumPush ==
  ASSUME NEW q \in Queues, NEW p, p = q \o << 1 >>
  PROVE  p \in Queues /\ p # <<>> /\ Sum(p) = Sum(q) + 1
  <1>1. PICK n \in Nat : n = Len(q)
    BY DEF Queues
  <1>2. p \in Queues /\ Len(p) = n + 1 /\ p # <<>>
    BY <1>1 DEF Queues
  <1>3. \A m \in 1 .. n : p[m] = q[m]
    BY <1>1 DEF Queues
  <1>4. p[n + 1] = 1
    BY <1>1 DEF Queues
  <1>5. n <= Len(p) /\ n <= Len(q)
    BY <1>1, <1>2
  <1>6. PrefixSum(p, n) = PrefixSum(q, n) /\ PrefixSum(q, n) \in Nat
    BY <1>2, <1>3, <1>5, SumSame, Zenon
  <1>7. Sum(p) = PrefixSum(p, n) + p[n + 1]
    BY <1>2, SumLast, Zenon
  <1>. QED  BY <1>1, <1>2, <1>4, <1>6, <1>7 DEF Sum

\* A record added to the last entry.
LEMMA SumGrow ==
  ASSUME NEW q \in Queues, q # <<>>, NEW p, p = [q EXCEPT ![Len(q)] = @ + 1]
  PROVE  p \in Queues /\ p # <<>> /\ Sum(p) = Sum(q) + 1 /\ Head(q) <= Head(p)
  <1>1. Len(q) \in Nat /\ Len(q) >= 1 /\ q \in [1 .. Len(q) -> Nat \ {0}]
    BY DEF Queues
  <1>2. PICK n \in Nat : n = Len(q) - 1
    <2>1. \A x \in Nat : x >= 1 => x - 1 \in Nat
      OBVIOUS
    <2>. QED  BY <1>1, <2>1, Zenon
  <1>3. Len(q) = n + 1 /\ q[n + 1] \in Nat \ {0}
    BY <1>1, <1>2
  <1>4. p \in Queues /\ Len(p) = n + 1
    BY <1>1, <1>3 DEF Queues
  <1>5. p # <<>>
    BY <1>4 DEF Queues
  <1>6. \A m \in 1 .. n : p[m] = q[m]
    BY <1>1, <1>3
  <1>7. p[n + 1] = q[n + 1] + 1
    BY <1>1, <1>3
  <1>8. n <= Len(p) /\ n <= Len(q)
    BY <1>3, <1>4
  <1>9. PrefixSum(p, n) = PrefixSum(q, n) /\ PrefixSum(q, n) \in Nat
    BY <1>4, <1>6, <1>8, SumSame, Zenon
  <1>10. Sum(p) = PrefixSum(p, n) + p[n + 1]
    BY <1>4, SumLast, Zenon
  <1>11. Sum(q) = PrefixSum(q, n) + q[n + 1]
    BY <1>3, SumLast
  <1>13. Sum(p) = Sum(q) + 1
    BY <1>3, <1>7, <1>9, <1>10, <1>11
  <1>14. Head(q) <= Head(p)
    <2>1. Head(q) = q[1] /\ Head(p) = p[1]
      BY <1>1, <1>4, <1>5 DEF Queues
    <2>2. q[1] \in Nat /\ (p[1] = q[1] \/ p[1] = q[1] + 1)
      BY <1>1, <1>3, <1>6, <1>7
    <2>. QED  BY <2>1, <2>2
  <1>. QED  BY <1>4, <1>5, <1>13, <1>14

\* The queue without its first entry.
LEMMA SumTail ==
  ASSUME NEW q \in Queues, q # <<>>, NEW p, p = Tail(q)
  PROVE  p \in Queues /\ Sum(q) = Sum(p) + Head(q)
  <1>1. /\ Len(q) \in Nat /\ Len(q) >= 1 /\ q \in Seq(Nat) /\ Head(q) = q[1] /\ q[1] \in Nat
        /\ p \in Queues /\ p \in Seq(Nat) /\ Len(p) = Len(q) - 1
    BY DEF Queues
  <1>2. PICK n \in Nat : n = Len(q) - 1
    <2>1. \A x \in Nat : x >= 1 => x - 1 \in Nat
      OBVIOUS
    <2>. QED  BY <1>1, <2>1, Zenon
  <1>3. PICK i \in Nat : i = 1
    OBVIOUS
  <1>4. PICK j \in Nat : j = 0
    OBVIOUS
  <1>5. PICK c \in Int : c = Head(q)
    BY <1>1
  <1>6. PrefixSum(q, i) = PrefixSum(p, j) + c
    <2>1. PrefixSum(q, 1) = Head(q)
      BY SumHead
    <2>2. PrefixSum(p, 0) = 0
      BY <1>1, SumFacts, Zenon
    <2>. QED  BY <1>3, <1>4, <1>5, <2>1, <2>2
  <1>7. \A m \in 1 .. n : q[i + m] = p[j + m]
    BY <1>1, <1>2, <1>3, <1>4
  <1>8. i + n = Len(q) /\ j + n = Len(p) /\ i + n <= Len(q) /\ j + n <= Len(p)
    BY <1>1, <1>2, <1>3, <1>4
  <1>9. Shifted(q, i, p, j, n, c)
    BY <1>1, <1>6, <1>7, <1>8, Zenon DEF Shifted
  <1>10. PrefixSum(q, i + n) = PrefixSum(p, j + n) + c
    BY <1>9, SumShift
  <1>. QED  BY <1>1, <1>5, <1>8, <1>10 DEF Sum

\* The queue with its first entry shortened.
LEMMA SumCut ==
  ASSUME NEW q \in Queues, q # <<>>, NEW d \in Nat, d < Head(q),
         NEW p, p = [q EXCEPT ![1] = @ - d]
  PROVE  p \in Queues /\ Sum(q) = Sum(p) + d
  <1>1. /\ Len(q) \in Nat /\ Len(q) >= 1 /\ q \in Seq(Nat) /\ Head(q) = q[1] /\ q[1] \in Nat
        /\ q \in [1 .. Len(q) -> Nat \ {0}]
    BY DEF Queues
  <1>2. PICK h \in Nat \ {0} : h = q[1] - d
    BY <1>1
  <1>3. p = [m \in 1 .. Len(q) |-> IF m = 1 THEN h ELSE q[m]]
    BY <1>1, <1>2, Zenon
  <1>4. p \in Queues /\ p \in Seq(Nat) /\ Len(p) = Len(q) /\ p # <<>> /\ Head(p) = h
    BY <1>1, <1>3 DEF Queues
  <1>5. PICK n \in Nat : n = Len(q) - 1
    <2>1. \A x \in Nat : x >= 1 => x - 1 \in Nat
      OBVIOUS
    <2>. QED  BY <1>1, <2>1, Zenon
  <1>6. PICK i \in Nat : i = 1
    OBVIOUS
  <1>7. d \in Int /\ PrefixSum(q, i) = PrefixSum(p, i) + d
    <2>1. PrefixSum(q, 1) = Head(q)
      BY SumHead
    <2>2. PrefixSum(p, 1) = Head(p)
      BY <1>4, SumHead, Zenon
    <2>. QED  BY <1>1, <1>2, <1>4, <1>6, <2>1, <2>2
  <1>8. \A m \in 1 .. n : q[i + m] = p[i + m]
    BY <1>1, <1>3, <1>5, <1>6
  <1>9. i + n = Len(q) /\ i + n = Len(p) /\ i + n <= Len(q) /\ i + n <= Len(p)
    BY <1>1, <1>4, <1>5, <1>6
  <1>10. Shifted(q, i, p, i, n, d)
    BY <1>1, <1>4, <1>7, <1>8, <1>9, Zenon DEF Shifted
  <1>11. PrefixSum(q, i + n) = PrefixSum(p, i + n) + d
    BY <1>10, SumShift
  <1>12. PrefixSum(q, Len(q)) = PrefixSum(p, Len(p)) + d
    BY <1>9, <1>11
  <1>. QED  BY <1>4, <1>12, Zenon DEF Sum

\* The greater of two numbers.
LEMMA MaxTwo ==
  ASSUME NEW x \in Int, NEW y \in Int
  PROVE  Max({x, y}) \in {x, y} /\ Max({x, y}) >= x /\ Max({x, y}) >= y
  <1>1. \E z \in {x, y} : \A v \in {x, y} : z >= v
    BY SMT
  <1>2. PICK T : T = {x, y}
    BY Zenon
  <1>3. Max(T) \in T /\ \A v \in T : Max(T) >= v
    BY <1>1, <1>2, Zenon DEF Max
  <1>. QED  BY <1>2, <1>3

\* The smaller of two numbers.
LEMMA MinTwo ==
  ASSUME NEW x \in Int, NEW y \in Int
  PROVE  Min({x, y}) \in {x, y} /\ Min({x, y}) <= x /\ Min({x, y}) <= y
  <1>1. \E z \in {x, y} : \A v \in {x, y} : z <= v
    BY SMT
  <1>2. PICK T : T = {x, y}
    BY Zenon
  <1>3. Min(T) \in T /\ \A v \in T : Min(T) <= v
    BY <1>1, <1>2, Zenon DEF Min
  <1>. QED  BY <1>2, <1>3

\* The greatest of three numbers.
LEMMA MaxThree ==
  ASSUME NEW x \in Int, NEW y \in Int, NEW z \in Int
  PROVE  Max({x, y, z}) \in Int /\ Max({x, y, z}) >= y
  <1>1. \E u \in {x, y, z} : \A v \in {x, y, z} : u >= v
    BY SMT
  <1>2. PICK T : T = {x, y, z}
    BY Zenon
  <1>3. Max(T) \in T /\ \A v \in T : Max(T) >= v
    BY <1>1, <1>2, Zenon DEF Max
  <1>. QED  BY <1>2, <1>3

\* What Append sends: at least the first entry, and no more than the space that is
\* reserved holds.
LEMMA QueueJoined ==
  ASSUME NEW q \in Queues, q # <<>>, NEW m \in Nat, NEW s \in Nat, m <= s, Head(q) <= s,
         NEW k, k = Max({1, Fit(q, m)}), NEW n, n = PrefixSum(q, k),
         NEW p, p = Joined(q, k, n)
  PROVE  p \in Queues /\ p # <<>> /\ Head(p) = n /\ n \in Nat \ {0} /\ n <= s /\ Sum(p) = Sum(q)
  <1>1. Len(q) \in Nat /\ Len(q) >= 1
    BY DEF Queues
  <1>2. PICK f : f = Fit(q, m)
    OBVIOUS
  <1>3. f \in 0 .. Len(q) /\ PrefixSum(q, f) <= m
    BY <1>2, FitIs
  <1>4. k \in {1, f} /\ k >= 1
    <2>1. 1 \in Int /\ f \in Int
      BY <1>1, <1>3
    <2>2. PICK o : o = 1
      OBVIOUS
    <2>3. Max({o, f}) \in {o, f} /\ Max({o, f}) >= o
      BY <2>1, <2>2, MaxTwo, Zenon
    <2>. QED  BY <1>2, <2>2, <2>3
  <1>5. k \in 1 .. Len(q)
    <2>1. CASE k = 1
      BY <1>1, <2>1
    <2>2. CASE k = f
      <3>1. \A x \in 0 .. Len(q) : x >= 1 => x \in 1 .. Len(q)
        BY <1>1
      <3>. QED  BY <1>3, <1>4, <2>2, <3>1, Zenon
    <2>. QED  BY <1>4, <2>1, <2>2
  <1>6. p \in Queues /\ p # <<>> /\ Head(p) = n /\ n \in Nat \ {0} /\ Sum(p) = Sum(q)
    BY <1>5, SumJoin
  <1>7. n <= s
    <2>1. CASE k = 1
      BY <2>1, SumHead
    <2>2. CASE k = f
      BY <1>3, <1>6, <2>2
    <2>. QED  BY <1>4, <2>1, <2>2
  <1>. QED  BY <1>6, <1>7

(* The queue after the first l records are appended (Done(RecordAppendOp)). *)
Remainder(q, l) ==
  LET k == Fit(q, l)
      n == l - PrefixSum(q, k)
      r == SubSeq(q, k + 1, Len(q))
  IN  IF n = 0 THEN r ELSE [r EXCEPT ![1] = @ - n]

\* Those records, and only those, leave the queue.
LEMMA QueueAppended ==
  ASSUME NEW q \in Queues, q # <<>>, NEW l \in 1 .. Head(q), NEW p, p = Remainder(q, l)
  PROVE  p \in Queues /\ Sum(q) = Sum(p) + l
  <1>1. PICK k : k = Fit(q, l)
    OBVIOUS
  <1>2. PICK n : n = l - PrefixSum(q, k)
    OBVIOUS
  <1>3. PICK r : r = SubSeq(q, k + 1, Len(q))
    BY Zenon
  <1>4. p = IF n = 0 THEN r ELSE [r EXCEPT ![1] = @ - n]
    BY <1>1, <1>2, <1>3 DEF Remainder
  <1>5. /\ PrefixSum(q, 1) = Head(q) /\ Head(q) \in Nat \ {0}
        /\ Len(q) \in Nat /\ Len(q) >= 1 /\ q \in Seq(Nat)
    <2>1. Len(q) \in Nat /\ Len(q) >= 1 /\ q \in Seq(Nat)
      BY DEF Queues
    <2>. QED  BY <2>1, SumHead
  <1>6. l \in Nat
    BY <1>5
  <1>7. /\ k \in 0 .. Len(q) /\ PrefixSum(q, k) <= l
        /\ \A j \in 0 .. Len(q) : PrefixSum(q, j) <= l => j <= k
    BY <1>6, <1>1, FitIs
  <1>8. PrefixSum(q, 0) = 0 /\ PrefixSum(q, k) \in Nat
    BY <1>5, <1>7, SumFacts
  <1>9. k \in {0, 1}
    <2>. SUFFICES ASSUME k > 1 PROVE FALSE
      BY <1>5, <1>7
    <2>1. PICK i : i = 1
      OBVIOUS
    <2>2. i \in 0 .. Len(q) /\ i < k
      BY <1>5, <1>7, <2>1
    <2>3. PrefixSum(q, i) < PrefixSum(q, k)
      BY <1>7, <2>2, SumMono DEF Queues
    <2>. QED  BY <1>5, <1>6, <1>7, <1>8, <2>1, <2>3
  <1>10. CASE l = Head(q)
    <2>1. k = 1
      <3>1. 1 \in 0 .. Len(q) /\ PrefixSum(q, 1) <= l
        BY <1>5, <1>10
      <3>2. 1 <= k
        BY <1>7, <3>1
      <3>. QED  BY <1>9, <3>2
    <2>2. n = 0
      BY <1>5, <1>10, <1>2, <2>1
    <2>3. p = Tail(q)
      BY <1>5, <1>3, <1>4, <2>1, <2>2
    <2>. QED  BY <1>10, <2>3, SumTail
  <1>11. CASE l < Head(q)
    <2>1. k = 0
      BY <1>5, <1>7, <1>9, <1>11
    <2>2. n = l /\ n # 0
      BY <1>6, <1>8, <1>2, <2>1
    <2>3. r = q
      BY <1>5, <1>3, <2>1
    <2>4. p = [q EXCEPT ![1] = @ - l]
      BY <1>4, <2>2, <2>3
    <2>. QED  BY <1>6, <1>11, <2>4, SumCut, Zenon
  <1>12. l = Head(q) \/ l < Head(q)
    BY <1>5
  <1>. QED  BY <1>10, <1>11, <1>12

(* The types.                                                              *)
Curs == {"none", "alloc", "writeid", "reserve", "append", "status", "release", "close"}
Outcomes == {"none", "sent", "busy", "ok", "bad", "refused"}
Appenders ==
  [open : BOOLEAN, closing : BOOLEAN, error : BOOLEAN, sleeping : BOOLEAN,
   first : Nat, size : Nat, queue : Queues, threshold : Int,
   cur : Curs, chunk : BOOLEAN, wid : BOOLEAN, lost : BOOLEAN,
   space : Nat, noSpace : BOOLEAN, ask : Nat, retry : 0 .. MaxRetryCount,
   restarts : Nat, index : 1 .. NumServers, length : Nat, done : SUBSET Nat]
Services == [op : Outcomes, first : Nat, length : Nat, ro : BOOLEAN, reserved : Nat]
States == [a : Appenders, srv : Services]

(* An append is under way: sent, or its status is asked for.               *)
Under(S) == S.a.cur \in {"append", "status"}

(* mBuffer has the records of mWriteQueue, and an append under way is part of its *)
(* first entry.                                                            *)
Buffer(S) ==
  /\ S.a.size = Sum(S.a.queue)
  /\ Under(S) => S.a.queue # <<>> /\ S.a.length \in 1 .. Head(S.a.queue)

(* After a fatal error nothing is under way; what is under way, asleep or closing *)
(* is open; only a retry or a recovery sleeps.                             *)
Control(S) ==
  /\ S.a.error => S.a.cur = "none" /\ ~S.a.open /\ ~S.a.sleeping
  /\ S.a.cur # "none" \/ S.a.sleeping \/ S.a.closing => S.a.open
  /\ S.a.sleeping => S.a.cur \in {"none", "status"}

(* Where the appender is in the life of a chunk and a write id, and what the server *)
(* holds for it: an append that has arrived has used its space up already. *)
Space(S) ==
  /\ ~S.a.wid => S.a.space = 0
  /\ S.a.wid => S.a.chunk
  /\ S.a.chunk /\ ~S.a.wid /\ ~S.a.error => S.a.cur = "writeid"
  /\ S.a.cur \in {"alloc", "writeid"} => ~S.a.wid
  /\ S.a.cur = "writeid" => S.a.chunk
  /\ S.a.cur \in {"reserve", "append", "release"} => S.a.wid /\ ~S.a.lost
  /\ S.a.wid /\ ~S.a.lost /\ ~Under(S) /\ ~S.a.error =>
        S.a.open /\ S.a.space <= S.srv.reserved /\ S.srv.op # "sent"
  /\ Under(S) => S.a.length <= S.a.space
  /\ S.a.cur = "append" =>
        IF S.srv.op \in {"busy", "ok", "bad"} THEN S.a.space - S.a.length <= S.srv.reserved
        ELSE S.a.space <= S.srv.reserved

(* The append may still be stored: it is at the servers, or will be accepted when it *)
(* gets there.                                                             *)
Live(x) == x.op = "busy" \/ (x.op = "sent" /\ ~x.ro)
(* Record r is one of the append x.                                        *)
In(r, x) == x.first <= r /\ r < x.first + x.length
(* Two appends without a record in common.                                 *)
Apart(x, y) == \A r \in Nat : ~(In(r, x) /\ In(r, y))

(* The append under way is the front of the buffer; any other that was stored or may *)
(* still be is of records before the buffer, unless the appender gave up with an *)
(* error.                                                                  *)
Placed(S) ==
  /\ Under(S) => S.srv.first = S.a.first /\ S.srv.length = S.a.length
  /\ Live(S.srv) \/ S.srv.op = "ok" =>
        S.srv.first + S.srv.length <= (IF S.a.error \/ Under(S) THEN S.a.first + S.a.size
                                       ELSE S.a.first)

(* What the file holds.  A record is in it at most once, and if it was reported; *)
(* of the records in the buffer only those of an append that succeeded and is under *)
(* way are; no append that may still be stored has a record that is in the file, and *)
(* two of them have no record in common.                                   *)
File(S, f, L) ==
  /\ \A r \in 1 .. MaxRecords :
        /\ f[r] \in {0, 1}
        /\ r \in S.a.done => f[r] = 1
        /\ r >= S.a.first /\ f[r] = 1 =>
              (Under(S) \/ S.a.error) /\ S.srv.op = "ok" /\ In(r, S.srv)
        /\ In(r, S.srv) => /\ Live(S.srv) => f[r] = 0
                           /\ Under(S) /\ S.srv.op = "ok" => f[r] = 1
  /\ \A r \in S.a.done : r < S.a.first
  /\ \A x \in L : x \in Services /\ x.op \in {"sent", "busy"}
  /\ \A x \in L :
        Live(x) => /\ x.first + x.length <= S.a.first
                   /\ \A r \in 1 .. MaxRecords : In(r, x) => f[r] = 0
                   /\ Live(S.srv) => Apart(x, S.srv)
                   /\ \A y \in L : Live(y) => x = y \/ Apart(x, y)

(* Records that may be appended have an operation or a timer.              *)
Driven(S) == S.a.open /\ S.a.cur = "none" /\ ~S.a.sleeping => ~CanAppend(S)

(* The inductive invariant, of a state of the appender and the service, the file f *)
(* and the appends L of earlier write ids.                                 *)
Sound(S, f, L) ==
  S \in States /\ Buffer(S) /\ Control(S) /\ Space(S) /\ Placed(S) /\ File(S, f, L) /\ Driven(S)

(* The states in which the appender starts its next operation: as Sound, but nothing *)
(* is under way and nothing drives the records yet.                        *)
Ready(S, f, L) ==
  /\ S \in States /\ S.a.cur = "none" /\ S.a.open /\ ~S.a.error /\ ~S.a.sleeping
  /\ Buffer(S) /\ Space(S) /\ Placed(S) /\ File(S, f, L)

(* What T has in common with S.                                            *)
SameFile(S, T) ==
  /\ T.srv = S.srv /\ T.a.first = S.a.first /\ T.a.done = S.a.done
  /\ T.a.size = S.a.size /\ T.a.queue = S.a.queue /\ T.a.threshold = S.a.threshold
SameSpace(S, T) ==
  T.a.chunk = S.a.chunk /\ T.a.wid = S.a.wid /\ T.a.lost = S.a.lost /\ T.a.space = S.a.space
SameMode(S, T) ==
  /\ T.a.open = S.a.open /\ T.a.closing = S.a.closing
  /\ T.a.error = S.a.error /\ T.a.sleeping = S.a.sleeping

\* Enqueue changes the current operation only.
LEMMA EnqueueFacts ==
  ASSUME NEW S \in States, NEW op \in Curs, NEW T, T = Enqueue(S, op)
  PROVE  /\ T \in States /\ SameFile(S, T) /\ SameSpace(S, T) /\ SameMode(S, T)
         /\ T.a.cur = op /\ T.a.length = S.a.length
  <1>1. S.a \in Appenders
    BY DEF States
  <1>2. [S.a EXCEPT !.cur = op] \in Appenders
    BY <1>1 DEF Appenders
  <1>3. T = [S EXCEPT !.a = [S.a EXCEPT !.cur = op]]
    BY DEF Enqueue, States
  <1>4. T \in States
    BY <1>2, <1>3 DEF States
  <1>5. SameFile(S, T) /\ SameSpace(S, T) /\ SameMode(S, T) /\ T.a.cur = op /\ T.a.length = S.a.length
    BY DEF Enqueue, States, Appenders, SameFile, SameSpace, SameMode
  <1>. QED  BY <1>4, <1>5

\* Reset forgets the chunk, the write id and the space.
LEMMA ResetFacts ==
  ASSUME NEW S \in States, NEW T, T = Reset(S)
  PROVE  /\ T \in States /\ SameFile(S, T) /\ SameMode(S, T) /\ T.a.lost = S.a.lost
         /\ T.a.cur = "none" /\ T.a.length = 0 /\ ~T.a.chunk /\ ~T.a.wid /\ T.a.space = 0
  <1>0. PICK x : x = [S.a EXCEPT !.chunk = FALSE, !.wid = FALSE, !.space = 0,
            !.cur = "none", !.length = 0, !.ask = 0, !.index = 1]
    OBVIOUS
  <1>1. S.a \in Appenders
    BY DEF States
  <1>2. x \in Appenders
    <2>1. 1 \in 1 .. NumServers /\ "none" \in Curs
      BY AppenderAssumption DEF Curs
    <2>. QED  BY <1>0, <1>1, <2>1, Zenon DEF Appenders
  <1>3. T = [S EXCEPT !.a = x]
    BY <1>0, Zenon DEF Reset, States
  <1>4. T \in States
    BY <1>2, <1>3 DEF States
  <1>5. T.a = x /\ T.srv = S.srv
    BY <1>3 DEF States
  <1>6. SameFile(S, T) /\ SameMode(S, T) /\ T.a.lost = S.a.lost
    BY <1>0, <1>1, <1>5 DEF Appenders, SameFile, SameMode
  <1>7. T.a.cur = "none" /\ T.a.length = 0 /\ T.a.space = 0
    BY <1>0, <1>1, <1>5 DEF Appenders
  <1>8. ~T.a.chunk /\ ~T.a.wid
    BY <1>0, <1>1, <1>5 DEF Appenders
  <1>. QED  BY <1>4, <1>6, <1>7, <1>8

\* What is said of the file looks at the records and the append only.
LEMMA SameKeepsFile ==
  ASSUME NEW S, NEW T, NEW f, NEW L, SameFile(S, T), T.a.error = S.a.error,
         Under(T) <=> Under(S), File(S, f, L)
  PROVE  File(T, f, L)
  BY Zenon DEF File, SameFile

\* And so does what is said of the place of the append.
LEMMA SameKeepsPlaced ==
  ASSUME NEW S, NEW T, SameFile(S, T), T.a.error = S.a.error, ~Under(T), ~Under(S), Placed(S)
  PROVE  Placed(T)
  BY Zenon DEF Placed, SameFile

\* A reservation, a release or a close is sent.
LEMMA ReadyQuiet ==
  ASSUME NEW S, NEW f, NEW L, Ready(S, f, L), S.a.wid, ~S.a.lost,
         NEW op \in {"reserve", "release", "close"}, NEW T, T = Enqueue(S, op)
  PROVE  Sound(T, f, L)
  <1>1. S \in States /\ op \in Curs
    BY DEF Ready, Curs
  <1>2. /\ T \in States /\ SameFile(S, T) /\ SameSpace(S, T) /\ SameMode(S, T)
        /\ T.a.cur = op /\ T.a.length = S.a.length
    BY <1>1, EnqueueFacts
  <1>3. ~Under(S) /\ ~Under(T)
    BY <1>2 DEF Ready, Under
  <1>4. File(T, f, L)
    BY <1>2, <1>3, SameKeepsFile, Zenon DEF SameMode, Ready
  <1>5. Placed(T)
    BY <1>2, <1>3, SameKeepsPlaced, Zenon DEF SameMode, Ready
  <1>6. Buffer(T)
    BY <1>2, <1>3, Zenon DEF SameFile, Buffer, Ready
  <1>7. Control(T)
    BY <1>2 DEF SameMode, Control, Ready
  <1>8. Space(T)
    <2>1. S.a.open /\ S.a.space <= S.srv.reserved /\ S.a.chunk /\ S.srv.op # "sent"
      BY <1>3 DEF Ready, Space
    <2>. QED  BY <1>2, <1>3, <2>1 DEF SameSpace, SameMode, SameFile, Space, Under
  <1>9. Driven(T)
    BY <1>2 DEF Driven
  <1>. QED  BY <1>2, <1>4, <1>5, <1>6, <1>7, <1>8, <1>9, Zenon DEF Sound

\* Nothing is done when nothing may be appended.
LEMMA ReadyIdle ==
  ASSUME NEW S, NEW f, NEW L, Ready(S, f, L), ~CanAppend(S)
  PROVE  Sound(S, f, L)
  <1>1. Control(S)
    BY DEF Ready, Control
  <1>. QED  BY <1>1, Zenon DEF Ready, Sound, Driven

\* The appender forgets the chunk.
LEMMA ReadyReset ==
  ASSUME NEW S, NEW f, NEW L, Ready(S, f, L), NEW T, T = Reset(S)
  PROVE  Ready(T, f, L) /\ (CanAppend(T) <=> CanAppend(S))
  <1>1. S \in States
    BY DEF Ready
  <1>2. /\ T \in States /\ SameFile(S, T) /\ SameMode(S, T) /\ T.a.lost = S.a.lost
        /\ T.a.cur = "none" /\ ~T.a.chunk /\ ~T.a.wid /\ T.a.space = 0
    BY <1>1, ResetFacts
  <1>3. ~Under(S) /\ ~Under(T)
    BY <1>2 DEF Ready, Under
  <1>4. File(T, f, L)
    BY <1>2, <1>3, SameKeepsFile, Zenon DEF SameMode, Ready
  <1>5. Placed(T)
    BY <1>2, <1>3, SameKeepsPlaced, Zenon DEF SameMode, Ready
  <1>6. Buffer(T)
    BY <1>2, <1>3, Zenon DEF SameFile, Buffer, Ready
  <1>7. Space(T)
    BY <1>2, <1>3 DEF Space, Under
  <1>8. CanAppend(T) <=> CanAppend(S)
    BY <1>2, Zenon DEF CanAppend, SameFile, SameMode
  <1>9. T.a.open /\ ~T.a.error /\ ~T.a.sleeping
    BY <1>2, Zenon DEF SameMode, Ready
  <1>. QED  BY <1>2, <1>4, <1>5, <1>6, <1>7, <1>8, <1>9, Zenon DEF Ready

\* A chunk is asked for (AllocateChunk).
LEMMA ReadyAlloc ==
  ASSUME NEW S, NEW f, NEW L, Ready(S, f, L), ~S.a.chunk, NEW T, T = AllocateChunk(S)
  PROVE  Sound(T, f, L)
  <1>0. PICK x : x = [S.a EXCEPT !.space = 0, !.noSpace = FALSE, !.cur = "alloc"]
    OBVIOUS
  <1>1. S \in States /\ S.a \in Appenders
    BY DEF Ready, States
  <1>2. x \in Appenders
    BY <1>0, <1>1, Zenon DEF Appenders, Curs
  <1>3. T = [S EXCEPT !.a = x]
    BY <1>0, <1>1, Zenon DEF AllocateChunk, Enqueue, States
  <1>4. T \in States /\ T.a = x /\ T.srv = S.srv
    BY <1>1, <1>2, <1>3 DEF States
  <1>5. SameFile(S, T) /\ SameMode(S, T) /\ T.a.lost = S.a.lost
    BY <1>0, <1>1, <1>4 DEF Appenders, SameFile, SameMode
  <1>6. T.a.cur = "alloc" /\ T.a.space = 0 /\ T.a.chunk = S.a.chunk /\ T.a.wid = S.a.wid
    BY <1>0, <1>1, <1>4 DEF Appenders
  <1>7. ~Under(S) /\ ~Under(T)
    BY <1>6 DEF Ready, Under
  <1>8. File(T, f, L)
    BY <1>5, <1>7, SameKeepsFile, Zenon DEF SameMode, Ready
  <1>9. Placed(T)
    BY <1>5, <1>7, SameKeepsPlaced, Zenon DEF SameMode, Ready
  <1>10. Buffer(T)
    BY <1>5, <1>7, Zenon DEF SameFile, Buffer, Ready
  <1>11. Control(T)
    BY <1>5, <1>6 DEF SameMode, Control, Ready
  <1>12. Space(T)
    <2>1. ~S.a.wid
      BY Zenon DEF Ready, Space
    <2>. QED  BY <1>6, <1>7, <2>1 DEF Space, Under
  <1>13. Driven(T)
    BY <1>6 DEF Driven
  <1>. QED  BY <1>4, <1>8, <1>9, <1>10, <1>11, <1>12, <1>13, Zenon DEF Sound

(* A closed appender is done (StartAppend).                                *)
Ended(S) == [S EXCEPT !.a.closing = FALSE, !.a.open = FALSE, !.a.lost = TRUE]

\* The close completes (StartAppend).
LEMMA ReadyEnded ==
  ASSUME NEW S, NEW f, NEW L, Ready(S, f, L), NEW T,
         T = ReportCompletion(Ended(S))
  PROVE  Sound(T, f, L)
  <1>0. PICK t \in BOOLEAN : t = TRUE
    BY Zenon
  <1>. DEFINE x == [S.a EXCEPT !.closing = FALSE, !.open = FALSE, !.lost = t,
                               !.retry = 0, !.restarts = 0]
  <1>1. S \in States /\ S.a \in Appenders
    BY DEF Ready, States
  <1>2. x \in Appenders
    <2>1. 0 \in 0 .. MaxRetryCount
      BY AppenderAssumption
    <2>. QED  BY <1>1, <2>1, Zenon DEF Appenders
  <1>3. T = [S EXCEPT !.a = x]
    <2>1. ~S.a.error
      BY DEF Ready
    <2>2. PICK R : R = Ended(S)
      OBVIOUS
    <2>3. /\ R.a.error = S.a.error /\ R.srv = S.srv /\ R = [a |-> R.a, srv |-> R.srv]
          /\ R.a = [S.a EXCEPT !.closing = FALSE, !.open = FALSE, !.lost = t]
      BY <1>0, <1>1, <2>2, Zenon DEF States, Appenders, Ended
    <2>4. T = [R EXCEPT !.a.retry = 0, !.a.restarts = 0]
      BY <1>0, <2>1, <2>2, <2>3 DEF ReportCompletion
    <2>5. x = [R.a EXCEPT !.retry = 0, !.restarts = 0]
      BY <1>1, <2>3 DEF Appenders
    <2>. QED  BY <1>1, <2>3, <2>4, <2>5, Zenon DEF States
  <1>4. T \in States /\ T.a = x /\ T.srv = S.srv
    BY <1>1, <1>2, <1>3 DEF States
  <1>5. SameFile(S, T) /\ T.a.error = S.a.error /\ T.a.sleeping = S.a.sleeping /\ T.a.cur = S.a.cur
    <2>1. SameFile(S, T) /\ T.a.cur = S.a.cur
      BY <1>1, <1>4 DEF Appenders, SameFile
    <2>2. T.a.error = S.a.error /\ T.a.sleeping = S.a.sleeping
      BY <1>1, <1>4 DEF Appenders
    <2>. QED  BY <2>1, <2>2
  <1>6. ~T.a.open /\ ~T.a.closing /\ T.a.lost
    BY <1>0, <1>1, <1>4 DEF Appenders
  <1>7. T.a.space = S.a.space /\ T.a.chunk = S.a.chunk /\ T.a.wid = S.a.wid
    <2>1. T.a.space = S.a.space
      BY <1>1, <1>4 DEF Appenders
    <2>2. T.a.chunk = S.a.chunk /\ T.a.wid = S.a.wid
      BY <1>1, <1>4 DEF Appenders
    <2>. QED  BY <2>1, <2>2
  <1>8. ~Under(S) /\ ~Under(T) /\ T.a.cur = "none"
    BY <1>5 DEF Ready, Under
  <1>9. File(T, f, L)
    BY <1>5, <1>8, SameKeepsFile, Zenon DEF Ready
  <1>10. Placed(T)
    BY <1>5, <1>8, SameKeepsPlaced, Zenon DEF Ready
  <1>11. Buffer(T)
    BY <1>5, <1>8, Zenon DEF SameFile, Buffer, Ready
  <1>12. Control(T)
    BY <1>5, <1>6, <1>8 DEF Control, Ready
  <1>13. Space(T)
    BY <1>5, <1>6, <1>7, <1>8 DEF Space, Ready, Under
  <1>14. Driven(T)
    BY <1>6, Zenon DEF Driven
  <1>. QED  BY <1>4, <1>9, <1>10, <1>11, <1>12, <1>13, <1>14, Zenon DEF Sound

\* Space is asked for; the number of bytes is not negative (ReserveSpace).
LEMMA ReadyReserve ==
  ASSUME NEW S, NEW f, NEW L, Ready(S, f, L), S.a.wid, ~S.a.lost, NEW T, T = SendReserve(S)
  PROVE  Sound(T, f, L)
  <1>. DEFINE least == IF S.a.closing THEN 0 ELSE DefaultSpaceReservationSize
              most  == Max({PreferredAppendSize, DefaultSpaceReservationSize})
              bytes == IF SpaceNeeded(S) <= S.a.space THEN 0
                       ELSE Max({least, SpaceNeeded(S), Min({most, S.a.size})}) - S.a.space
  <1>1. S \in States /\ S.a \in Appenders
    BY DEF Ready, States
  <1>2. PICK b : b = bytes
    OBVIOUS
  <1>3. b \in Nat
    <2>0. S.a.size \in Nat /\ S.a.space \in Nat /\ S.a.queue \in Queues
      BY <1>1 DEF Appenders
    <2>1. least \in Int
      BY AppenderAssumption
    <2>2. most \in Int
      <3>1. PICK x \in Int : x = PreferredAppendSize
        BY AppenderAssumption
      <3>2. PICK y \in Int : y = DefaultSpaceReservationSize
        BY AppenderAssumption
      <3>3. Max({x, y}) \in {x, y}
        BY MaxTwo
      <3>. QED  BY <3>1, <3>2, <3>3
    <2>3. SpaceNeeded(S) \in Int
      BY <2>0, AppenderAssumption, SumHead DEF SpaceNeeded
    <2>. HIDE DEF least, most
    <2>4. PICK m : m = Min({most, S.a.size})
      OBVIOUS
    <2>5. m \in Int
      <3>1. PICK x \in Int : x = most
        BY <2>2
      <3>2. PICK y \in Int : y = S.a.size
        BY <2>0
      <3>3. Min({x, y}) \in {x, y}
        BY MinTwo
      <3>. QED  BY <2>4, <3>1, <3>2, <3>3
    <2>6. PICK n \in Int : n = SpaceNeeded(S)
      BY <2>3
    <2>7. Max({least, n, m}) \in Int /\ Max({least, n, m}) >= n
      BY <2>1, <2>5, MaxThree
    <2>. QED  BY <1>2, <2>0, <2>4, <2>6, <2>7
  <1>. DEFINE x == [S.a EXCEPT !.ask = b, !.noSpace = FALSE, !.cur = "reserve"]
  <1>4. x \in Appenders
    BY <1>1, <1>3, Zenon DEF Appenders, Curs
  <1>5. T = [S EXCEPT !.a = x]
    <2>1. T = Enqueue([S EXCEPT !.a.ask = b, !.a.noSpace = FALSE], "reserve")
      BY <1>2, Zenon DEF SendReserve
    <2>. QED  BY <1>1, <2>1, Zenon DEF Enqueue, States
  <1>6. T \in States /\ T.a = x /\ T.srv = S.srv
    BY <1>1, <1>4, <1>5 DEF States
  <1>7. SameFile(S, T) /\ SameMode(S, T) /\ SameSpace(S, T) /\ T.a.cur = "reserve"
    BY <1>1, <1>6, Zenon DEF Appenders, SameFile, SameMode, SameSpace
  <1>8. ~Under(S) /\ ~Under(T)
    BY <1>7 DEF Ready, Under
  <1>9. File(T, f, L)
    BY <1>7, <1>8, SameKeepsFile, Zenon DEF SameMode, Ready
  <1>10. Placed(T)
    BY <1>7, <1>8, SameKeepsPlaced, Zenon DEF SameMode, Ready
  <1>11. Buffer(T)
    BY <1>7, <1>8, Zenon DEF SameFile, Buffer, Ready
  <1>12. Control(T)
    BY <1>7 DEF SameMode, Control, Ready
  <1>13. Space(T)
    <2>1. S.a.open /\ S.a.space <= S.srv.reserved /\ S.a.chunk /\ S.srv.op # "sent"
      BY <1>8 DEF Ready, Space
    <2>. QED  BY <1>7, <1>8, <2>1 DEF SameSpace, SameMode, SameFile, Space, Under
  <1>14. Driven(T)
    BY <1>7 DEF Driven
  <1>. QED  BY <1>6, <1>9, <1>10, <1>11, <1>12, <1>13, <1>14, Zenon DEF Sound

\* An append of the records at the front of the buffer: none is in the file, or
\* part of an append that may still be stored.
LEMMA FileSend ==
  ASSUME NEW S, NEW f, NEW L, Ready(S, f, L), NEW T \in States,
         T.a.first = S.a.first, T.a.done = S.a.done, Under(T),
         T.srv.op = "sent", T.srv.first = S.a.first
  PROVE  File(T, f, L)
  <1>1. File(S, f, L) /\ ~Under(S) /\ ~S.a.error
    BY DEF Ready, Under
  <1>2. /\ S.a.first \in Nat /\ T.a.first \in Nat /\ T.srv.length \in Nat
    BY DEF Ready, States, Appenders, Services
  <1>3. ASSUME NEW r \in 1 .. MaxRecords PROVE r >= S.a.first => f[r] = 0
    BY <1>1, <1>3 DEF File
  <1>4. ASSUME NEW r \in 1 .. MaxRecords, In(r, T.srv) PROVE f[r] = 0 /\ r >= S.a.first
    <2>1. r >= S.a.first
      BY <1>2, <1>4 DEF In
    <2>. QED  BY <1>3, <2>1
  <1>5. ASSUME NEW x \in L, Live(x) PROVE Apart(x, T.srv)
    <2>1. x.first \in Nat /\ x.length \in Nat /\ x.first + x.length <= S.a.first
      BY <1>1, <1>5 DEF File, Services
    <2>. QED  BY <1>2, <2>1 DEF Apart, In
  <1>6. ASSUME NEW r \in 1 .. MaxRecords
        PROVE  /\ f[r] \in {0, 1}
               /\ r \in T.a.done => f[r] = 1
               /\ r >= T.a.first /\ f[r] = 1 =>
                    (Under(T) \/ T.a.error) /\ T.srv.op = "ok" /\ In(r, T.srv)
               /\ In(r, T.srv) => /\ Live(T.srv) => f[r] = 0
                                  /\ Under(T) /\ T.srv.op = "ok" => f[r] = 1
    <2>1. f[r] \in {0, 1} /\ (r \in S.a.done => f[r] = 1)
      BY <1>1, Zenon DEF File
    <2>2. ~(r >= T.a.first /\ f[r] = 1)
      BY <1>3
    <2>. QED  BY <1>4, <2>1, <2>2
  <1>7. /\ \A r \in T.a.done : r < T.a.first
        /\ \A x \in L : x \in Services /\ x.op \in {"sent", "busy"}
    BY <1>1, Zenon DEF File
  <1>8. ASSUME NEW x \in L, Live(x)
        PROVE  /\ x.first + x.length <= T.a.first
               /\ \A r \in 1 .. MaxRecords : In(r, x) => f[r] = 0
               /\ \A y \in L : Live(y) => x = y \/ Apart(x, y)
    BY <1>1, <1>8, Zenon DEF File
  <1>. QED  BY <1>5, <1>6, <1>7, <1>8, Zenon DEF File

\* An append is sent, within the space that is reserved (Append).
LEMMA ReadySend ==
  ASSUME NEW S, NEW f, NEW L, Ready(S, f, L), S.a.wid, ~S.a.lost, S.a.queue # <<>>,
         Head(S.a.queue) <= S.a.space, NEW T, T = SendAppend(S)
  PROVE  Sound(T, f, L)
  <1>. DEFINE whole == /\ PreferredAppendSize < S.a.size
                       /\ S.a.size \div 2 < PreferredAppendSize
                       /\ S.a.size - PreferredAppendSize >= S.a.threshold
              want == IF whole THEN S.a.size ELSE PreferredAppendSize
  <1>1. /\ S \in States /\ S.a \in Appenders /\ S.srv \in Services
        /\ S.a.size \in Nat /\ S.a.space \in Nat /\ S.a.queue \in Queues /\ S.a.first \in Nat
    BY DEF Ready, States, Appenders
  <1>2. PICK m : m = Min({S.a.space, want})
    OBVIOUS
  <1>3. PICK k : k = Max({1, Fit(S.a.queue, m)})
    OBVIOUS
  <1>4. PICK n : n = PrefixSum(S.a.queue, k)
    OBVIOUS
  <1>5. PICK p : p = Joined(S.a.queue, k, n)
    OBVIOUS
  <1>6. m \in Nat /\ m <= S.a.space
    <2>1. PICK w \in Nat : w = want
      BY <1>1, AppenderAssumption
    <2>2. PICK s \in Nat : s = S.a.space
      BY <1>1
    <2>3. Min({s, w}) \in {s, w} /\ Min({s, w}) <= s
      <3>1. s \in Int /\ w \in Int
        OBVIOUS
      <3>. QED  BY <3>1, MinTwo, Zenon
    <2>4. m = Min({s, w})
      BY <1>2, <2>1, <2>2
    <2>. QED  BY <2>2, <2>3, <2>4
  <1>7. /\ p \in Queues /\ p # <<>> /\ Head(p) = n /\ n \in Nat \ {0}
        /\ n <= S.a.space /\ Sum(p) = Sum(S.a.queue)
    <2>1. PICK q \in Queues : q = S.a.queue
      BY <1>1
    <2>2. PICK s \in Nat : s = S.a.space
      BY <1>1
    <2>3. q # <<>> /\ Head(q) <= s /\ m <= s
      BY <1>6, <2>1, <2>2
    <2>4. k = Max({1, Fit(q, m)}) /\ n = PrefixSum(q, k) /\ p = Joined(q, k, n)
      BY <1>3, <1>4, <1>5, <2>1
    <2>5. /\ p \in Queues /\ p # <<>> /\ Head(p) = n /\ n \in Nat \ {0} /\ n <= s /\ Sum(p) = Sum(q)
      BY <1>6, <2>3, <2>4, QueueJoined
    <2>. QED  BY <2>1, <2>2, <2>5
  <1>. DEFINE x == [S.a EXCEPT !.queue = p, !.length = n, !.cur = "append"]
              y == [S.srv EXCEPT !.op = "sent", !.first = S.a.first, !.length = n]
  <1>8. x \in Appenders
    BY <1>1, <1>7, Zenon DEF Appenders, Curs
  <1>9. y \in Services
    BY <1>1, <1>7, Zenon DEF Services, Outcomes
  <1>10. T = [a |-> x, srv |-> y]
    <2>1. T = Enqueue([S EXCEPT !.a.queue = <<n>> \o SubSeq(@, k + 1, Len(@)), !.a.length = n,
                                !.srv.op = "sent", !.srv.first = S.a.first,
                                !.srv.length = n], "append")
      BY <1>2, <1>3, <1>4, Zenon DEF SendAppend
    <2>2. T = Enqueue([S EXCEPT !.a.queue = p, !.a.length = n,
                                !.srv.op = "sent", !.srv.first = S.a.first,
                                !.srv.length = n], "append")
      BY <1>1, <1>5, <2>1 DEF Joined, States, Appenders
    <2>. QED  BY <1>1, <2>2, Zenon DEF Enqueue, States
  <1>11. T \in States /\ T.a = x /\ T.srv = y
    BY <1>8, <1>9, <1>10 DEF States
  <1>. HIDE DEF want
  <1>12. /\ T.a.first = S.a.first /\ T.a.done = S.a.done /\ T.a.size = S.a.size
         /\ T.a.queue = p /\ T.a.length = n /\ T.a.cur = "append"
    BY <1>1, <1>11 DEF Appenders
  <1>13. SameMode(S, T) /\ SameSpace(S, T)
    BY <1>1, <1>11, Zenon DEF Appenders, SameMode, SameSpace
  <1>14. T.srv.op = "sent" /\ T.srv.first = S.a.first /\ T.srv.length = n /\ T.srv.reserved = S.srv.reserved
    BY <1>1, <1>11 DEF Services
  <1>15. Under(T) /\ ~Under(S)
    BY <1>12 DEF Under, Ready
  <1>16. File(T, f, L)
    BY <1>11, <1>12, <1>14, <1>15, FileSend, Zenon
  <1>17. Buffer(T)
    <2>1. S.a.size = Sum(S.a.queue)
      BY DEF Ready, Buffer
    <2>. QED  BY <1>7, <1>12, <2>1 DEF Buffer
  <1>18. Placed(T)
    <2>1. n <= T.a.size
      BY <1>7, <1>12, <1>17, SumHead DEF Buffer
    <2>. QED  BY <1>1, <1>7, <1>12, <1>14, <1>15, <2>1 DEF Placed
  <1>19. Control(T)
    BY <1>12, <1>13 DEF SameMode, Control, Ready
  <1>20. Space(T)
    <2>1. S.a.open /\ S.a.space <= S.srv.reserved /\ S.a.chunk
      BY <1>15 DEF Ready, Space
    <2>. QED  BY <1>7, <1>12, <1>13, <1>14, <1>15, <2>1 DEF SameSpace, SameMode, Space, Under
  <1>21. Driven(T)
    BY <1>12 DEF Driven
  <1>. QED  BY <1>11, <1>16, <1>17, <1>18, <1>19, <1>20, <1>21, Zenon DEF Sound

\* ReserveSpace reserves, waits or appends; it waits only if nothing may be appended.
LEMMA ReadyReserveSpace ==
  ASSUME NEW S, NEW f, NEW L, Ready(S, f, L), S.a.wid, ~S.a.lost,
         NEW idle \in BOOLEAN, NEW T, T = ReserveSpace(S, idle)
  PROVE  Sound(T, f, L)
  <1>1. CASE SpaceNeeded(S) > S.a.space \/ (CanAppend(S) /\ idle)
    <2>1. T = SendReserve(S)
      BY <1>1, Zenon DEF ReserveSpace
    <2>. QED  BY <2>1, ReadyReserve, Zenon
  <1>2. CASE ~(SpaceNeeded(S) > S.a.space) /\ ~CanAppend(S)
    <2>1. T = S
      BY <1>2, Zenon DEF ReserveSpace
    <2>. QED  BY <1>2, <2>1, ReadyIdle, Zenon
  <1>3. CASE ~(SpaceNeeded(S) > S.a.space) /\ CanAppend(S) /\ ~idle
    <2>1. T = SendAppend(S)
      BY <1>3, Zenon DEF ReserveSpace
    <2>2. S.a.queue # <<>> /\ SpaceNeeded(S) = Head(S.a.queue)
      BY <1>3, Zenon DEF CanAppend, SpaceNeeded
    <2>3. S.a.queue \in Queues /\ S.a.space \in Nat
      BY DEF Ready, States, Appenders
    <2>4. Head(S.a.queue) \in Nat
      BY <2>2, <2>3 DEF Queues
    <2>5. Head(S.a.queue) <= S.a.space
      BY <1>3, <2>2, <2>3, <2>4
    <2>. QED  BY <2>1, <2>2, <2>5, ReadySend, Zenon
  <1>. QED  BY <1>1, <1>2, <1>3, Zenon

\* The space is released, or the chunk closed (SpaceReleaseOrClose).
LEMMA ReadyRelease ==
  ASSUME NEW S, NEW f, NEW L, Ready(S, f, L), S.a.chunk, ~S.a.lost,
         NEW T, T = SpaceReleaseOrClose(S)
  PROVE  Sound(T, f, L)
  <1>1. S.a.wid
    BY DEF Ready, Space
  <1>2. PICK op : op = IF S.a.space > 0 THEN "release" ELSE "close"
    OBVIOUS
  <1>3. op \in {"reserve", "release", "close"} /\ T = Enqueue(S, op)
    BY <1>2, Zenon DEF SpaceReleaseOrClose
  <1>. QED  BY <1>1, <1>3, ReadyQuiet, Zenon

\* The appender starts over with another chunk.
LEMMA ReadyAgain ==
  ASSUME NEW S, NEW f, NEW L, Ready(S, f, L), NEW T, T = AllocateChunk(Reset(S))
  PROVE  Sound(T, f, L)
  <1>1. PICK R : R = Reset(S)
    OBVIOUS
  <1>2. Ready(R, f, L)
    BY <1>1, ReadyReset, Zenon
  <1>3. ~R.a.chunk
    BY <1>1, ResetFacts, Zenon DEF Ready
  <1>. QED  BY <1>1, <1>2, <1>3, ReadyAlloc, Zenon

(* StartAppend, when it does not return at once.                           *)
Started(S, idle) ==
  IF S.a.closing /\ S.a.queue = <<>>
  THEN IF S.a.chunk /\ ~S.a.lost THEN SpaceReleaseOrClose(S)
       ELSE ReportCompletion(Ended(S))
  ELSE IF (DefaultSpaceReservationSize <= 0 \/ ~PreAllocationFlag) /\ ~CanAppend(S)
  THEN S
  ELSE IF S.a.chunk /\ S.a.lost
  THEN IF CanAppend(S) THEN AllocateChunk(Reset(S)) ELSE Reset(S)
  ELSE IF S.a.chunk /\ S.a.noSpace THEN SpaceReleaseOrClose(S)
  ELSE IF S.a.chunk /\ S.a.wid THEN ReserveSpace(S, idle)
  ELSE AllocateChunk(Reset(S))

\* StartAppend, from any state with an operation that is over: no early return leaves
\* records behind that may be appended.
LEMMA StartAppendSound ==
  ASSUME NEW S0, NEW S, S = Enqueue(S0, "none"), NEW f, NEW L, Ready(S, f, L),
         S0.a.sleeping = S.a.sleeping, S0.a.error = S.a.error,
         NEW idle \in BOOLEAN, NEW T, T = StartAppend(S0, idle)
  PROVE  Sound(T, f, L)
  <1>1. ~S0.a.sleeping /\ ~S0.a.error
    BY Zenon DEF Ready
  <1>2. T = Started(S, idle)
    <2>1. S = [S0 EXCEPT !.a.cur = "none"]
      BY Zenon DEF Enqueue
    <2>2. T = Started([S0 EXCEPT !.a.cur = "none"], idle)
      BY <1>1, Zenon DEF StartAppend, Started, Ended
    <2>. QED  BY <2>1, <2>2, Zenon
  <1>3. CASE T = SpaceReleaseOrClose(S) /\ S.a.chunk /\ ~S.a.lost
    BY <1>3, ReadyRelease, Zenon
  <1>4. CASE T = ReportCompletion(Ended(S))
    BY <1>4, ReadyEnded, Zenon
  <1>5. CASE T = S /\ ~CanAppend(S)
    BY <1>5, ReadyIdle, Zenon
  <1>6. CASE T = AllocateChunk(Reset(S))
    BY <1>6, ReadyAgain, Zenon
  <1>7. CASE T = Reset(S) /\ ~CanAppend(S)
    BY <1>7, ReadyReset, ReadyIdle, Zenon
  <1>8. CASE T = ReserveSpace(S, idle) /\ S.a.wid /\ ~S.a.lost
    BY <1>8, ReadyReserveSpace, Zenon
  <1>9. S.a.wid => S.a.chunk
    BY Zenon DEF Ready, Space
  <1>. QED  BY <1>2, <1>3, <1>4, <1>5, <1>6, <1>7, <1>8, <1>9, Zenon DEF Started

\* The same when there was no operation.
LEMMA StartReady ==
  ASSUME NEW S, NEW f, NEW L, Ready(S, f, L), NEW idle \in BOOLEAN, NEW T, T = StartAppend(S, idle)
  PROVE  Sound(T, f, L)
  <1>1. S \in States /\ S.a \in Appenders /\ S.a.cur = "none"
    BY DEF Ready, States
  <1>2. S = [S EXCEPT !.a = [S.a EXCEPT !.cur = "none"]]
    <2>1. [S.a EXCEPT !.cur = "none"] = S.a
      BY <1>1 DEF Appenders
    <2>. QED  BY <1>1, <2>1 DEF States
  <1>3. S = Enqueue(S, "none")
    BY <1>1, <1>2 DEF Enqueue, States
  <1>. QED  BY <1>3, StartAppendSound, Zenon

\* The timer of a retry starts the next operation (Timeout).
LEMMA TimeoutSound ==
  ASSUME NEW S \in States, NEW f, NEW L, S.a.cur = "none", S.a.open, ~S.a.error,
         Buffer(S), Space(S), Placed(S), File(S, f, L), NEW T, T = Timeout(S)
  PROVE  Sound(T, f, L)
  <1>1. PICK R : R = [S EXCEPT !.a = [S.a EXCEPT !.sleeping = FALSE]]
    BY Zenon
  <1>2. S.a \in Appenders /\ [S.a EXCEPT !.sleeping = FALSE] \in Appenders
    BY Zenon DEF States, Appenders
  <1>3. R \in States /\ R.a = [S.a EXCEPT !.sleeping = FALSE] /\ R.srv = S.srv
    BY <1>1, <1>2, Zenon DEF States
  <1>4. SameFile(S, R) /\ SameSpace(S, R) /\ R.a.cur = "none"
    BY <1>2, <1>3 DEF Appenders, SameFile, SameSpace
  <1>5. R.a.open /\ ~R.a.error /\ ~R.a.sleeping /\ R.a.error = S.a.error
    BY <1>2, <1>3 DEF Appenders
  <1>6. ~Under(S) /\ ~Under(R)
    BY <1>4 DEF Under
  <1>7. File(R, f, L) /\ Placed(R)
    BY <1>4, <1>5, <1>6, SameKeepsFile, SameKeepsPlaced, Zenon
  <1>8. Buffer(R)
    BY <1>4, <1>6, Zenon DEF SameFile, Buffer
  <1>9. Space(R)
    BY <1>4, <1>5, <1>6 DEF Space, SameSpace, SameFile, Under
  <1>10. Ready(R, f, L)
    BY <1>3, <1>4, <1>5, <1>7, <1>8, <1>9, Zenon DEF Ready
  <1>11. T = StartAppend(R, FALSE)
    <2>1. R = [S EXCEPT !.a.sleeping = FALSE]
      BY <1>1 DEF States
    <2>2. R.a.cur # "status"
      BY <1>4
    <2>. QED  BY <2>1, <2>2, Zenon DEF Timeout
  <1>12. PICK idle \in BOOLEAN : idle = FALSE
    BY Zenon
  <1>. QED  BY <1>10, <1>11, <1>12, StartReady, Zenon

(* An operation is over and is found to have failed: what was reserved is not known *)
(* any more.                                                               *)
Failing(S, f, L) ==
  /\ S \in States /\ S.a.cur \in {"alloc", "writeid", "reserve", "append"}
  /\ S.a.open /\ ~S.a.error /\ ~S.a.sleeping
  /\ ~S.a.wid => S.a.space = 0
  /\ S.a.wid => S.a.chunk
  /\ Under(S) => S.a.length <= S.a.space
  /\ Buffer(S) /\ Placed(S) /\ File(S, f, L)

\* The appender gives up (FatalError).  What may still be stored is not sent again.
LEMMA FatalSound ==
  ASSUME NEW S, NEW f, NEW L, Failing(S, f, L), NEW T, T = ReportCompletion(FatalError(S))
  PROVE  Sound(T, f, L)
  <1>0. PICK t \in BOOLEAN : t = TRUE
    BY Zenon
  <1>. DEFINE x == [S.a EXCEPT !.error = t, !.open = FALSE, !.closing = FALSE, !.cur = "none"]
  <1>1. /\ S \in States /\ S.a \in Appenders /\ S.srv.first \in Nat /\ S.srv.length \in Nat
        /\ S.a.first \in Nat /\ S.a.size \in Nat
    BY DEF Failing, States, Appenders, Services
  <1>2. x \in Appenders
    BY <1>1, Zenon DEF Appenders, Curs
  <1>3. T = [S EXCEPT !.a = x]
    <2>1. PICK R : R = FatalError(S)
      OBVIOUS
    <2>2. R = [S EXCEPT !.a = x]
      BY <1>0, <1>1, <2>1, Zenon DEF FatalError, States
    <2>3. R.a = x
      BY <1>1, <2>2 DEF States
    <2>4. R.a.error
      BY <1>0, <1>1, <2>3 DEF Appenders
    <2>5. T = R
      BY <2>1, <2>4, Zenon DEF ReportCompletion
    <2>. QED  BY <2>2, <2>5
  <1>4. T \in States /\ T.a = x /\ T.srv = S.srv
    BY <1>1, <1>2, <1>3 DEF States
  <1>5. SameFile(S, T) /\ SameSpace(S, T) /\ T.a.cur = "none" /\ T.a.sleeping = S.a.sleeping
    BY <1>1, <1>4 DEF Appenders, SameFile, SameSpace
  <1>6. T.a.error /\ ~T.a.open /\ ~T.a.closing
    BY <1>0, <1>1, <1>4 DEF Appenders
  <1>7. ~Under(T)
    BY <1>5 DEF Under
  <1>8. File(T, f, L)
    <2>1. File(S, f, L)
      BY DEF Failing
    <2>. QED  BY <1>5, <1>6, <1>7, <2>1, Zenon DEF File, SameFile
  <1>9. Placed(T)
    <2>1. Placed(S)
      BY DEF Failing
    <2>2. /\ T.srv.first = S.srv.first /\ T.srv.length = S.srv.length /\ T.srv.op = S.srv.op
          /\ T.a.first = S.a.first /\ T.a.size = S.a.size /\ (Live(T.srv) <=> Live(S.srv))
      BY <1>5, Zenon DEF SameFile
    <2>3. Live(S.srv) \/ S.srv.op = "ok" => S.srv.first + S.srv.length <= S.a.first + S.a.size
      BY <1>1, <2>1 DEF Placed
    <2>. QED  BY <1>6, <1>7, <2>2, <2>3 DEF Placed
  <1>10. Buffer(T)
    <2>1. Buffer(S)
      BY DEF Failing
    <2>. QED  BY <1>5, <1>7, <2>1, Zenon DEF SameFile, Buffer
  <1>11. Control(T)
    BY <1>5, <1>6 DEF Control, Failing
  <1>12. Space(T)
    BY <1>5, <1>6, <1>7 DEF Space, SameSpace, Failing
  <1>13. Driven(T)
    BY <1>6, Zenon DEF Driven
  <1>. QED  BY <1>4, <1>8, <1>9, <1>10, <1>11, <1>12, <1>13, Zenon DEF Sound

\* The status of the append is asked for (StartRecovery).
LEMMA RecoverySound ==
  ASSUME NEW S, NEW f, NEW L, Failing(S, f, L), S.a.cur = "append", S.a.retry < MaxRetryCount,
         NEW status, NEW slow \in BOOLEAN, NEW T, T = StartRecovery(S, status, slow)
  PROVE  Sound(T, f, L)
  <1>1. /\ S \in States /\ S.a \in Appenders /\ Under(S)
        /\ S.a.length \in Nat /\ S.a.space \in Nat /\ S.a.retry \in 0 .. MaxRetryCount
    BY DEF Failing, States, Appenders, Under
  <1>2. PICK d : d = S.a.retry + 1
    OBVIOUS
  <1>3. d \in 0 .. MaxRetryCount /\ 1 \in 1 .. NumServers
    BY <1>1, <1>2, AppenderAssumption
  <1>4. PICK s \in BOOLEAN : s = IF status = "again" /\ slow THEN TRUE ELSE S.a.sleeping
    <2>1. S.a.sleeping \in BOOLEAN
      BY <1>1 DEF Appenders
    <2>. QED  BY <2>1, Zenon
  <1>. DEFINE x == [S.a EXCEPT !.retry = d, !.index = 1, !.cur = "status", !.sleeping = s]
  <1>5. x \in Appenders
    BY <1>1, <1>3, Zenon DEF Appenders, Curs
  <1>6. T = [S EXCEPT !.a = x]
    <2>1. PICK R : R = [S EXCEPT !.a.retry = @ + 1, !.a.index = 1]
      OBVIOUS
    <2>2. /\ R.a = [S.a EXCEPT !.retry = d, !.index = 1] /\ R.srv = S.srv
          /\ R = [a |-> R.a, srv |-> R.srv]
      BY <1>1, <1>2, <2>1, Zenon DEF States, Appenders
    <2>3. [S EXCEPT !.a = x] = [a |-> x, srv |-> S.srv]
      BY <1>1 DEF States
    <2>4. CASE status = "again" /\ slow
      <3>1. T = [R EXCEPT !.a.cur = "status", !.a.sleeping = TRUE]
        BY <2>1, <2>4, Zenon DEF StartRecovery
      <3>2. T = [R EXCEPT !.a.cur = "status", !.a.sleeping = s]
        BY <1>4, <2>4, <3>1, Zenon
      <3>3. x = [R.a EXCEPT !.cur = "status", !.sleeping = s]
        BY <1>1, <2>2 DEF Appenders
      <3>. QED  BY <2>2, <2>3, <3>2, <3>3, Zenon
    <2>5. CASE ~(status = "again" /\ slow)
      <3>1. T = [R EXCEPT !.a.cur = "status"]
        BY <2>1, <2>5, Zenon DEF StartRecovery, GetLastRecordAppendOpStatus, Enqueue
      <3>2. s = S.a.sleeping
        BY <1>4, <2>5, Zenon
      <3>3. x = [R.a EXCEPT !.cur = "status"]
        BY <1>1, <2>2, <3>2, Zenon DEF Appenders
      <3>. QED  BY <2>2, <2>3, <3>1, <3>3
    <2>. QED  BY <2>4, <2>5, Zenon
  <1>7. T \in States /\ T.a = x /\ T.srv = S.srv
    BY <1>1, <1>5, <1>6 DEF States
  <1>8. SameFile(S, T) /\ SameSpace(S, T) /\ T.a.cur = "status" /\ T.a.length = S.a.length
    BY <1>1, <1>7 DEF Appenders, SameFile, SameSpace
  <1>9. T.a.error = S.a.error /\ T.a.open = S.a.open /\ T.a.closing = S.a.closing
    BY <1>1, <1>7 DEF Appenders
  <1>10. Under(T)
    BY <1>8 DEF Under
  <1>11. File(T, f, L)
    BY <1>1, <1>8, <1>9, <1>10, SameKeepsFile, Zenon DEF Failing
  <1>12. Placed(T)
    <2>1. Placed(S)
      BY Zenon DEF Failing
    <2>. QED  BY <1>1, <1>8, <1>9, <1>10, <2>1, Zenon DEF Placed, SameFile
  <1>13. Buffer(S) /\ Buffer(T)
    <2>1. Buffer(S)
      BY Zenon DEF Failing
    <2>. QED  BY <1>1, <1>8, <1>10, <2>1, Zenon DEF SameFile, Buffer
  <1>14. Control(T)
    BY <1>8, <1>9 DEF Control, Failing
  <1>15. Space(T)
    <2>1. /\ S.a.length <= S.a.space /\ S.a.length >= 1
          /\ (~S.a.wid => S.a.space = 0) /\ (S.a.wid => S.a.chunk)
      <3>1. S.a.queue \in Queues
        BY <1>1 DEF Appenders
      <3>. QED  BY <1>1, <1>13, <3>1 DEF Failing, Buffer, Queues
    <2>2. S.a.wid
      BY <1>1, <2>1
    <2>. QED  BY <1>8, <1>10, <2>1, <2>2 DEF Space, SameSpace, SameFile
  <1>16. Driven(T)
    BY <1>8 DEF Driven
  <1>. QED  BY <1>7, <1>11, <1>12, <1>13, <1>14, <1>15, <1>16, Zenon DEF Sound

\* An operation is given up; an append only when it is not stored and will not be.
LEMMA FailingReset ==
  ASSUME NEW S, NEW f, NEW L, Failing(S, f, L), NEW T, T = Reset(S),
         Under(S) => ~Live(S.srv) /\ S.srv.op # "ok"
  PROVE  Ready(T, f, L)
  <1>1. S \in States /\ Buffer(S) /\ Placed(S) /\ File(S, f, L)
    BY Zenon DEF Failing
  <1>2. /\ T \in States /\ SameFile(S, T) /\ SameMode(S, T)
        /\ T.a.cur = "none" /\ ~T.a.chunk /\ ~T.a.wid /\ T.a.space = 0
    BY <1>1, ResetFacts
  <1>3. ~Under(T)
    BY <1>2 DEF Under
  <1>4. /\ T.srv = S.srv /\ T.a.first = S.a.first /\ T.a.done = S.a.done
        /\ ~T.a.error /\ ~S.a.error /\ T.a.open /\ ~T.a.sleeping
    BY <1>2, Zenon DEF SameFile, SameMode, Failing
  <1>5. File(T, f, L)
    BY <1>1, <1>3, <1>4, Zenon DEF File
  <1>6. Placed(T)
    BY <1>1, <1>3, <1>4, Zenon DEF Placed
  <1>7. Buffer(T)
    BY <1>1, <1>2, <1>3, Zenon DEF SameFile, Buffer
  <1>8. Space(T)
    BY <1>2, <1>3 DEF Space
  <1>. QED  BY <1>2, <1>4, <1>5, <1>6, <1>7, <1>8, Zenon DEF Ready

\* A retry waits for its timer.
LEMMA SleepSound ==
  ASSUME NEW S, NEW f, NEW L, Ready(S, f, L), NEW T, T = [S EXCEPT !.a.sleeping = TRUE]
  PROVE  Sound(T, f, L)
  <1>0. PICK t \in BOOLEAN : t = TRUE
    BY Zenon
  <1>. DEFINE x == [S.a EXCEPT !.sleeping = t]
  <1>1. S \in States /\ S.a \in Appenders /\ x \in Appenders
    BY DEF Ready, States, Appenders
  <1>2. T = [S EXCEPT !.a = x]
    <2>1. T = [S EXCEPT !.a.sleeping = t]
      BY <1>0, Zenon
    <2>. QED  BY <1>1, <2>1, Zenon DEF States
  <1>3. T \in States /\ T.a = x /\ T.srv = S.srv
    BY <1>1, <1>2, Zenon DEF States
  <1>4. SameFile(S, T) /\ SameSpace(S, T) /\ T.a.cur = S.a.cur
    BY <1>1, <1>3 DEF Appenders, SameFile, SameSpace
  <1>5. /\ T.a.open = S.a.open /\ T.a.closing = S.a.closing /\ T.a.error = S.a.error
        /\ T.a.sleeping
    BY <1>0, <1>1, <1>3 DEF Appenders
  <1>6. ~Under(S) /\ ~Under(T) /\ T.a.cur = "none"
    BY <1>4 DEF Under, Ready
  <1>7. File(T, f, L) /\ Placed(T)
    BY <1>4, <1>5, <1>6, SameKeepsFile, SameKeepsPlaced, Zenon DEF Ready
  <1>8. Buffer(T)
    BY <1>4, <1>6, Zenon DEF SameFile, Buffer, Ready
  <1>9. Control(T)
    BY <1>5, <1>6, Zenon DEF Control, Ready
  <1>10. Space(T)
    BY <1>4, <1>5, <1>6, Zenon DEF Space, SameSpace, SameFile, Ready
  <1>11. Driven(T)
    BY <1>5, Zenon DEF Driven
  <1>. QED  BY <1>3, <1>7, <1>8, <1>9, <1>10, <1>11, Zenon DEF Sound

(* The counters of a retry.                                                *)
Retried(S, n, b) == [S EXCEPT !.a.retry = @ + 1, !.a.restarts = n, !.a.noSpace = b]

\* Counting a retry changes nothing else.
LEMMA RetryFailing ==
  ASSUME NEW S, NEW f, NEW L, Failing(S, f, L), S.a.retry < MaxRetryCount, NEW n \in Nat,
         NEW b \in BOOLEAN, NEW T, T = Retried(S, n, b)
  PROVE  Failing(T, f, L) /\ T.srv = S.srv /\ (Under(T) <=> Under(S))
  <1>1. S \in States /\ S.a \in Appenders /\ S.a.retry \in 0 .. MaxRetryCount
    BY DEF Failing, States, Appenders
  <1>2. PICK d : d = S.a.retry + 1
    OBVIOUS
  <1>3. d \in 0 .. MaxRetryCount
    BY <1>1, <1>2, AppenderAssumption
  <1>. DEFINE x == [S.a EXCEPT !.retry = d, !.restarts = n, !.noSpace = b]
  <1>4. x \in Appenders
    BY <1>1, <1>3, Zenon DEF Appenders
  <1>5. T = [S EXCEPT !.a = x]
    BY <1>1, <1>2, Zenon DEF States, Retried
  <1>6. T \in States /\ T.a = x /\ T.srv = S.srv
    BY <1>1, <1>4, <1>5 DEF States
  <1>7. /\ SameFile(S, T) /\ SameSpace(S, T) /\ SameMode(S, T)
        /\ T.a.cur = S.a.cur /\ T.a.length = S.a.length
    BY <1>1, <1>6 DEF Appenders, SameFile, SameSpace, SameMode
  <1>8. Under(T) <=> Under(S)
    BY <1>7, Zenon DEF Under
  <1>9. File(T, f, L)
    BY <1>7, <1>8, SameKeepsFile, Zenon DEF Failing, SameMode
  <1>10. Placed(T) /\ Buffer(T)
    BY <1>7, <1>8, Zenon DEF SameFile, SameMode, Failing, Placed, Buffer
  <1>. QED  BY <1>6, <1>7, <1>8, <1>9, <1>10, Zenon DEF Failing, SameSpace, SameMode

\* A restart from chunk allocation, at once or later (HandleError).
LEMMA RetrySound ==
  ASSUME NEW S, NEW f, NEW L, Failing(S, f, L), S.a.retry < MaxRetryCount,
         Under(S) => ~Live(S.srv) /\ S.srv.op # "ok",
         NEW slow \in BOOLEAN, NEW T, T = Retry(S, slow)
  PROVE  Sound(T, f, L)
  <1>. DEFINE restart == S.a.cur \in {"writeid", "append", "reserve"}
              again == IF restart THEN S.a.restarts + 1 ELSE S.a.restarts
              force == restart /\ again \in {2, 5, 15}
  <1>1. PICK n \in Nat : n = again
    BY DEF Failing, States, Appenders
  <1>2. PICK b \in BOOLEAN : b = (S.a.noSpace \/ force)
    <2>1. (S.a.noSpace \/ force) \in BOOLEAN
      BY Zenon
    <2>. QED  BY <2>1, Zenon
  <1>3. PICK U : U = Retried(S, n, b)
    OBVIOUS
  <1>4. PICK R : R = Reset(U)
    OBVIOUS
  <1>5. Failing(U, f, L) /\ U.srv = S.srv /\ (Under(U) <=> Under(S))
    BY <1>3, RetryFailing, Zenon
  <1>6. Ready(R, f, L)
    BY <1>4, <1>5, FailingReset, Zenon
  <1>7. T = [R EXCEPT !.a.sleeping = TRUE] \/ T = Timeout(R)
    <2>1. U = [S EXCEPT !.a.retry = @ + 1, !.a.restarts = again, !.a.noSpace = @ \/ force]
      BY <1>1, <1>2, <1>3, Zenon DEF Retried
    <2>. QED  BY <1>4, <2>1, Zenon DEF Retry
  <1>8. CASE T = [R EXCEPT !.a.sleeping = TRUE]
    BY <1>6, <1>8, SleepSound, Zenon
  <1>9. CASE T = Timeout(R)
    BY <1>6, <1>9, TimeoutSound, Zenon DEF Ready
  <1>. QED  BY <1>7, <1>8, <1>9, Zenon

\* HandleError: the records are sent again only when the failed append is not stored
\* and will not be; otherwise its status is asked for.
LEMMA HandleErrorSound ==
  ASSUME NEW S, NEW f, NEW L, Failing(S, f, L), NEW status, NEW slow \in BOOLEAN,
         Under(S) /\ status \notin {"again", "cut"} => ~Live(S.srv) /\ S.srv.op # "ok",
         NEW T, T = HandleError(S, status, slow)
  PROVE  Sound(T, f, L)
  <1>1. CASE S.a.retry >= MaxRetryCount
    <2>1. T = ReportCompletion(FatalError(S))
      BY <1>1, Zenon DEF HandleError
    <2>. QED  BY <2>1, FatalSound, Zenon
  <1>2. CASE ~(S.a.retry >= MaxRetryCount)
    <2>1. S.a.retry < MaxRetryCount
      BY <1>2, AppenderAssumption DEF Failing, States, Appenders
    <2>2. CASE S.a.cur = "append" /\ status \in {"again", "cut"}
      <3>1. T = StartRecovery(S, status, slow)
        BY <1>2, <2>2, Zenon DEF HandleError
      <3>. QED  BY <2>1, <2>2, <3>1, RecoverySound, Zenon
    <2>3. CASE ~(S.a.cur = "append" /\ status \in {"again", "cut"})
      <3>1. T = Retry(S, slow)
        BY <1>2, <2>3, Zenon DEF HandleError
      <3>2. Under(S) => ~Live(S.srv) /\ S.srv.op # "ok"
        BY <2>3 DEF Failing, Under
      <3>. QED  BY <2>1, <3>1, <3>2, RetrySound, Zenon
    <2>. QED  BY <2>2, <2>3, Zenon
  <1>. QED  BY <1>1, <1>2, Zenon

\* The records of an append that succeeded leave the buffer (Done(RecordAppendOp)).
LEMMA FileAppended ==
  ASSUME NEW S, NEW f, NEW L, Failing(S, f, L), S.a.cur = "append", S.srv.op = "ok",
         NEW T \in States, T.srv = S.srv, ~Under(T), ~T.a.error,
         T.a.first = S.a.first + S.a.length,
         T.a.done = S.a.done \cup S.a.first .. S.a.first + S.a.length - 1
  PROVE  File(T, f, L) /\ Placed(T)
  <1>1. File(S, f, L) /\ Placed(S) /\ Under(S) /\ ~Live(S.srv)
    BY DEF Failing, Under, Live
  <1>2. /\ S.a.first \in Nat /\ S.a.length \in Nat /\ S.srv.first = S.a.first
        /\ S.srv.length = S.a.length /\ S.a.done \in SUBSET Nat
    BY <1>1 DEF Failing, States, Appenders, Placed
  <1>3. ASSUME NEW r \in 1 .. MaxRecords
        PROVE  /\ f[r] \in {0, 1}
               /\ r \in T.a.done => f[r] = 1
               /\ ~(r >= T.a.first /\ f[r] = 1)
    <2>1. /\ f[r] \in {0, 1} /\ (r \in S.a.done => f[r] = 1)
          /\ (r >= S.a.first /\ f[r] = 1 => In(r, S.srv))
          /\ (In(r, S.srv) => f[r] = 1)
      BY <1>1, Zenon DEF File
    <2>2. In(r, S.srv) <=> r \in S.a.first .. S.a.first + S.a.length - 1
      BY <1>2 DEF In
    <2>3. ASSUME r >= T.a.first PROVE r >= S.a.first /\ ~In(r, S.srv)
      BY <1>2, <2>3 DEF In
    <2>. QED  BY <2>1, <2>2, <2>3
  <1>4. \A r \in T.a.done : r < T.a.first
    <2>1. \A r \in S.a.done : r < S.a.first
      BY <1>1, Zenon DEF File
    <2>. QED  BY <1>2, <2>1
  <1>5. ASSUME NEW x \in L, Live(x) PROVE x.first + x.length <= T.a.first
    <2>1. x.first \in Nat /\ x.length \in Nat /\ x.first + x.length <= S.a.first
      BY <1>1, <1>5 DEF File, Services
    <2>. QED  BY <1>2, <2>1
  <1>6. File(T, f, L)
    <2>1. ASSUME NEW x \in L, Live(x)
          PROVE  /\ \A r \in 1 .. MaxRecords : In(r, x) => f[r] = 0
                 /\ \A y \in L : Live(y) => x = y \/ Apart(x, y)
      BY <1>1, <2>1, Zenon DEF File
    <2>2. \A x \in L : x \in Services /\ x.op \in {"sent", "busy"}
      BY <1>1, Zenon DEF File
    <2>. QED  BY <1>1, <1>3, <1>4, <1>5, <2>1, <2>2, Zenon DEF File
  <1>7. Placed(T)
    BY <1>2 DEF Placed
  <1>. QED  BY <1>6, <1>7

(* The buffer without the records that were appended.                      *)
Appended(S, p) ==
  [S EXCEPT !.a.first = @ + S.a.length, !.a.size = @ - S.a.length,
            !.a.space = @ - S.a.length, !.a.length = 0,
            !.a.done = @ \cup S.a.first .. S.a.first + S.a.length - 1, !.a.queue = p]

\* What Done(RecordAppendOp) changes.
LEMMA AppendedFacts ==
  ASSUME NEW S, NEW f, NEW L, Failing(S, f, L), S.a.cur = "append",
         NEW p \in Queues, Sum(S.a.queue) = Sum(p) + S.a.length,
         NEW T, T = ReportCompletion(Appended(S, p))
  PROVE  /\ T \in States /\ SameMode(S, T) /\ T.srv = S.srv
         /\ T.a.first = S.a.first + S.a.length
         /\ T.a.done = S.a.done \cup S.a.first .. S.a.first + S.a.length - 1
         /\ T.a.size = Sum(T.a.queue) /\ T.a.space = S.a.space - S.a.length
         /\ T.a.chunk = S.a.chunk /\ T.a.wid = S.a.wid /\ T.a.lost = S.a.lost
  <1>1. /\ S \in States /\ S.a \in Appenders /\ ~S.a.error
        /\ S.a.first \in Nat /\ S.a.size \in Nat /\ S.a.length \in Nat /\ S.a.space \in Nat
        /\ S.a.done \in SUBSET Nat
    BY DEF Failing, States, Appenders
  <1>2. PICK fi \in Nat : fi = S.a.first + S.a.length
    BY <1>1
  <1>3. PICK sz \in Nat : sz = S.a.size - S.a.length /\ sz = Sum(p)
    <2>1. Sum(p) \in Nat
      <3>1. CASE p = <<>>
        BY <3>1, SumEmpty
      <3>2. CASE p # <<>>
        BY <3>2, SumHead
      <3>. QED  BY <3>1, <3>2
    <2>2. S.a.size = Sum(p) + S.a.length
      BY Zenon DEF Failing, Buffer
    <2>3. Sum(p) = S.a.size - S.a.length
      BY <1>1, <2>1, <2>2
    <2>. QED  BY <2>1, <2>3
  <1>4. PICK sp \in Nat : sp = S.a.space - S.a.length
    <2>1. S.a.length <= S.a.space
      BY DEF Failing, Under
    <2>. QED  BY <1>1, <2>1
  <1>5. PICK dn \in SUBSET Nat : dn = S.a.done \cup S.a.first .. S.a.first + S.a.length - 1
    <2>1. \A m, l \in Nat : m .. m + l - 1 \subseteq Nat
      OBVIOUS
    <2>2. S.a.first .. S.a.first + S.a.length - 1 \subseteq Nat
      BY <1>1, <2>1, Zenon
    <2>3. \A s : s \subseteq Nat => S.a.done \cup s \in SUBSET Nat
      BY <1>1, Zenon
    <2>. QED  BY <2>2, <2>3, Zenon
  <1>. DEFINE x == [S.a EXCEPT !.first = fi, !.size = sz, !.space = sp, !.length = 0, !.done = dn,
                               !.queue = p, !.retry = 0, !.restarts = 0]
  <1>6. x \in Appenders
    <2>1. 0 \in 0 .. MaxRetryCount
      BY AppenderAssumption
    <2>. QED  BY <1>1, <2>1, Zenon DEF Appenders
  <1>7. T = [S EXCEPT !.a = x]
    <2>1. PICK R : R = Appended(S, p)
      OBVIOUS
    <2>2. /\ R.srv = S.srv /\ R = [a |-> R.a, srv |-> R.srv]
          /\ R.a = [S.a EXCEPT !.first = fi, !.size = sz, !.space = sp, !.length = 0, !.done = dn,
                               !.queue = p]
      BY <1>1, <1>2, <1>3, <1>4, <1>5, <2>1, Zenon DEF States, Appenders, Appended
    <2>3. R.a.error = S.a.error
      BY <1>1, <2>2 DEF Appenders
    <2>4. T = [R EXCEPT !.a.retry = 0, !.a.restarts = 0]
      BY <1>1, <2>1, <2>3, Zenon DEF ReportCompletion
    <2>5. x = [R.a EXCEPT !.retry = 0, !.restarts = 0]
      BY <1>1, <2>2 DEF Appenders
    <2>6. T = [a |-> x, srv |-> S.srv]
      BY <2>2, <2>4, <2>5, Zenon
    <2>. QED  BY <1>1, <2>6 DEF States
  <1>8. T \in States /\ T.a = x /\ T.srv = S.srv
    BY <1>1, <1>6, <1>7 DEF States
  <1>9. SameMode(S, T) /\ T.a.chunk = S.a.chunk /\ T.a.wid = S.a.wid /\ T.a.lost = S.a.lost
    BY <1>1, <1>8 DEF Appenders, SameMode
  <1>10. T.a.first = fi /\ T.a.size = sz /\ T.a.space = sp /\ T.a.done = dn /\ T.a.queue = p
    BY <1>1, <1>8 DEF Appenders
  <1>. QED  BY <1>2, <1>3, <1>4, <1>5, <1>8, <1>9, <1>10, Zenon

\* An append that was stored is reported, and the next operation started
\* (Done(RecordAppendOp)).
LEMMA CompletedSound ==
  ASSUME NEW S, NEW f, NEW L, Failing(S, f, L), S.a.cur = "append", S.srv.op = "ok",
         NEW recovered \in BOOLEAN, NEW slow \in BOOLEAN,
         recovered \/ (~S.a.lost /\ S.a.space - S.a.length <= S.srv.reserved),
         NEW T, T = AppendCompleted(S, "ok", recovered, slow)
  PROVE  Sound(T, f, L)
  <1>1. /\ S \in States /\ S.a.queue \in Queues /\ S.a.queue # <<>> /\ S.a.length \in Nat
        /\ S.a.length \in 1 .. Head(S.a.queue) /\ S.a.length <= S.a.space /\ S.a.space \in Nat
        /\ ~S.a.error /\ S.a.open /\ ~S.a.sleeping
    BY DEF Failing, Under, Buffer, States, Appenders
  <1>2. S.a.wid /\ S.a.chunk
    <2>1. \A l \in 1 .. Head(S.a.queue) : l >= 1
      BY <1>1, SumHead
    <2>2. S.a.space # 0
      BY <1>1, <2>1
    <2>. QED  BY <2>2, Zenon DEF Failing
  <1>. DEFINE P == Remainder(S.a.queue, S.a.length)
              Done(p) == ReportCompletion(Appended(S, p))
  <1>3. T = StartAppend(IF recovered THEN Reset(Done(P)) ELSE Done(P), FALSE)
    BY Zenon DEF AppendCompleted, Appended, Remainder
  <1>6. PICK p : p = P
    OBVIOUS
  <1>7. p \in Queues /\ Sum(S.a.queue) = Sum(p) + S.a.length
    <2>1. PICK q \in Queues : q = S.a.queue
      BY <1>1
    <2>2. PICK l \in 1 .. Head(q) : l = S.a.length
      BY <1>1, <2>1
    <2>3. q # <<>> /\ p = Remainder(q, l)
      BY <1>1, <1>6, <2>1, <2>2, Zenon
    <2>4. p \in Queues /\ Sum(q) = Sum(p) + l
      BY <2>3, QueueAppended, Zenon
    <2>. QED  BY <2>1, <2>2, <2>4
  <1>8. PICK V : V = ReportCompletion(Appended(S, p))
    OBVIOUS
  <1>9. T = StartAppend(IF recovered THEN Reset(V) ELSE V, FALSE)
    <2>. HIDE DEF P
    <2>1. V = Done(P)
      BY <1>6, <1>8, Zenon
    <2>. HIDE DEF Done
    <2>. QED  BY <1>3, <2>1, Zenon
  <1>10. /\ V \in States /\ SameMode(S, V) /\ V.srv = S.srv
         /\ V.a.first = S.a.first + S.a.length
         /\ V.a.done = S.a.done \cup S.a.first .. S.a.first + S.a.length - 1
         /\ V.a.size = Sum(V.a.queue) /\ V.a.space = S.a.space - S.a.length
         /\ V.a.chunk = S.a.chunk /\ V.a.wid = S.a.wid /\ V.a.lost = S.a.lost
    BY <1>7, <1>8, AppendedFacts
  <1>11. ASSUME NEW W \in States, W.a.cur = "none", SameMode(V, W), SameFile(V, W), Space(W)
         PROVE  Ready(W, f, L)
    <2>1. ~Under(W) /\ ~W.a.error /\ W.a.open /\ ~W.a.sleeping
      BY <1>1, <1>10, <1>11 DEF Under, SameMode
    <2>2. W.srv = S.srv /\ W.a.first = S.a.first + S.a.length /\ W.a.size = Sum(W.a.queue)
          /\ W.a.done = S.a.done \cup S.a.first .. S.a.first + S.a.length - 1
      BY <1>10, <1>11, Zenon DEF SameFile
    <2>3. File(W, f, L) /\ Placed(W)
      BY <2>1, <2>2, FileAppended, Zenon
    <2>4. Buffer(W)
      BY <2>1, <2>2, Zenon DEF Buffer
    <2>. QED  BY <1>11, <2>1, <2>3, <2>4, Zenon DEF Ready
  <1>12. PICK idle \in BOOLEAN : idle = FALSE
    BY Zenon
  <1>13. CASE recovered
    <2>1. PICK W : W = Reset(V)
      OBVIOUS
    <2>2. /\ W \in States /\ SameFile(V, W) /\ SameMode(V, W)
          /\ W.a.cur = "none" /\ ~W.a.chunk /\ ~W.a.wid /\ W.a.space = 0
      BY <1>10, <2>1, ResetFacts
    <2>3. Space(W)
      BY <2>2 DEF Space, Under
    <2>4. Ready(W, f, L)
      BY <1>11, <2>2, <2>3, Zenon
    <2>. QED  BY <1>9, <1>12, <1>13, <2>1, <2>4, StartReady, Zenon
  <1>14. CASE ~recovered
    <2>0. PICK c \in Curs : c = "none"
      BY DEF Curs
    <2>1. PICK W : W = Enqueue(V, c)
      OBVIOUS
    <2>2. W \in States /\ SameFile(V, W) /\ SameSpace(V, W) /\ SameMode(V, W) /\ W.a.cur = c
      BY <1>10, <2>1, EnqueueFacts, Zenon
    <2>3. Space(W)
      <3>1. /\ W.a.wid /\ W.a.chunk /\ W.a.open /\ W.a.space <= W.srv.reserved /\ ~Under(W)
            /\ W.srv.op # "sent"
        BY <1>1, <1>2, <1>10, <1>14, <2>0, <2>2 DEF SameSpace, SameMode, SameFile, Under
      <3>. QED  BY <2>0, <2>2, <3>1 DEF Space
    <2>4. Ready(W, f, L)
      BY <1>11, <2>0, <2>2, <2>3, Zenon
    <2>5. V.a.sleeping = W.a.sleeping /\ V.a.error = W.a.error
      BY <2>2, Zenon DEF SameMode
    <2>. QED  BY <1>9, <1>12, <1>14, <2>0, <2>1, <2>4, <2>5, StartAppendSound, Zenon
  <1>. QED  BY <1>13, <1>14, Zenon

\* Only the last operation counts.
LEMMA EnqueueTwice ==
  ASSUME NEW S \in States, NEW c \in Curs, NEW d \in Curs
  PROVE  Enqueue(Enqueue(S, c), d) = Enqueue(S, d)
  BY Zenon DEF Enqueue, States, Appenders

\* An open appender without an operation may start one.
LEMMA SoundReady ==
  ASSUME NEW S, NEW f, NEW L, Sound(S, f, L), S.a.cur = "none", S.a.open, ~S.a.sleeping
  PROVE  Ready(S, f, L)
  <1>1. ~S.a.error
    BY DEF Sound, Control
  <1>. QED  BY <1>1, Zenon DEF Sound, Ready

\* Any of these operations may fail.
LEMMA SoundFailing ==
  ASSUME NEW S, NEW f, NEW L, Sound(S, f, L), S.a.cur \in {"alloc", "writeid", "reserve", "append"}
  PROVE  Failing(S, f, L)
  <1>1. S.a.open /\ ~S.a.error /\ ~S.a.sleeping
    BY DEF Sound, Control
  <1>. QED  BY <1>1, Zenon DEF Sound, Failing, Space

(* The same append, records and error.                                     *)
SameRecords(S, T) ==
  /\ T.srv.op = S.srv.op /\ T.srv.first = S.srv.first /\ T.srv.length = S.srv.length
  /\ T.srv.ro = S.srv.ro /\ T.a.first = S.a.first /\ T.a.done = S.a.done /\ T.a.error = S.a.error

\* Then what is said of the file and of the place of the append is the same.
LEMMA RecordsKept ==
  ASSUME NEW S \in States, NEW T \in States, NEW f, NEW L, SameRecords(S, T), File(S, f, L), Placed(S),
         Under(T) <=> Under(S), Under(T) => T.a.length = S.a.length, T.a.size >= S.a.size
  PROVE  File(T, f, L) /\ Placed(T)
  <1>1. (Live(T.srv) <=> Live(S.srv)) /\ \A r : In(r, T.srv) <=> In(r, S.srv)
    BY Zenon DEF SameRecords, Live, In
  <1>2. \A x : Apart(x, T.srv) <=> Apart(x, S.srv)
    BY <1>1, Zenon DEF Apart
  <1>3. File(T, f, L)
    BY <1>1, <1>2, Zenon DEF File, SameRecords
  <1>4. Placed(T)
    <2>1. /\ S.a.first \in Nat /\ S.a.size \in Nat /\ T.a.size \in Nat
          /\ S.srv.first \in Nat /\ S.srv.length \in Nat
      BY DEF States, Appenders, Services
    <2>2. S.a.first + S.a.size <= S.a.first + T.a.size
      BY <2>1
    <2>. QED  BY <1>1, <2>1, <2>2 DEF Placed, SameRecords
  <1>. QED  BY <1>3, <1>4

\* An operation other than an append is over.
LEMMA MadeReady ==
  ASSUME NEW S, NEW f, NEW L, Sound(S, f, L), ~Under(S), NEW R \in States, SameRecords(S, R),
         R.a.size = S.a.size, R.a.queue = S.a.queue, R.a.cur = "none", R.a.open, ~R.a.error,
         ~R.a.sleeping, Space(R)
  PROVE  Ready(R, f, L)
  <1>1. ~Under(R)
    BY DEF Under
  <1>2. S \in States /\ File(S, f, L) /\ Placed(S) /\ Buffer(S)
    BY Zenon DEF Sound
  <1>3. R.a.size >= S.a.size
    BY <1>2 DEF States, Appenders
  <1>4. File(R, f, L) /\ Placed(R)
    BY <1>1, <1>2, <1>3, RecordsKept, Zenon
  <1>5. Buffer(R)
    BY <1>1, <1>2, Zenon DEF Buffer
  <1>. QED  BY <1>4, <1>5, Zenon DEF Ready

(* The user changed the buffer or a flag, and nothing else.                *)
Touched(S, R) ==
  /\ R \in States /\ R.srv = S.srv /\ SameSpace(S, R) /\ R.a.cur = S.a.cur /\ R.a.length = S.a.length
  /\ R.a.first = S.a.first /\ R.a.done = S.a.done /\ R.a.open = S.a.open /\ R.a.error = S.a.error
  /\ R.a.sleeping = S.a.sleeping /\ R.a.size >= S.a.size /\ Buffer(R) /\ (R.a.closing => R.a.open)

\* All but Driven is kept.
LEMMA TouchedKept ==
  ASSUME NEW S, NEW f, NEW L, Sound(S, f, L), NEW R, Touched(S, R)
  PROVE  R \in States /\ Buffer(R) /\ Control(R) /\ Space(R) /\ Placed(R) /\ File(R, f, L)
  <1>1. S \in States /\ File(S, f, L) /\ Placed(S) /\ Control(S) /\ Space(S)
    BY Zenon DEF Sound
  <1>2. R \in States /\ Buffer(R) /\ (Under(R) <=> Under(S)) /\ SameRecords(S, R)
    BY Zenon DEF Touched, Under, SameRecords
  <1>3. File(R, f, L) /\ Placed(R)
    BY <1>1, <1>2, RecordsKept, Zenon DEF Touched
  <1>4. Control(R)
    BY <1>1, Zenon DEF Control, Touched
  <1>5. Space(R)
    BY <1>1, <1>2, Zenon DEF Space, Touched, SameSpace
  <1>. QED  BY <1>2, <1>3, <1>4, <1>5

\* An idle appender is started after the change; another goes on.
LEMMA Kicked ==
  ASSUME NEW S, NEW f, NEW L, Sound(S, f, L), S.a.open, NEW R, Touched(S, R), NEW idle \in BOOLEAN,
         NEW T, T = IF S.a.cur = "none" THEN StartAppend(R, idle) ELSE R
  PROVE  Sound(T, f, L)
  <1>1. R \in States /\ Buffer(R) /\ Control(R) /\ Space(R) /\ Placed(R) /\ File(R, f, L)
    BY TouchedKept, Zenon
  <1>2. R.a.cur = S.a.cur /\ R.a.open
    BY Zenon DEF Touched
  <1>3. ~R.a.error
    BY <1>1, <1>2, Zenon DEF Control
  <1>4. CASE R.a.cur = "none" /\ ~R.a.sleeping
    <2>1. Ready(R, f, L)
      BY <1>1, <1>2, <1>3, <1>4, Zenon DEF Ready
    <2>. QED  BY <1>2, <1>4, <2>1, StartReady, Zenon
  <1>5. CASE ~(R.a.cur = "none" /\ ~R.a.sleeping)
    <2>1. T = R
      <3>1. R.a.sleeping => StartAppend(R, idle) = R
        BY Zenon DEF StartAppend
      <3>. QED  BY <1>2, <1>5, <3>1, Zenon
    <2>2. Driven(R)
      BY <1>5, Zenon DEF Driven
    <2>. QED  BY <1>1, <2>1, <2>2, Zenon DEF Sound
  <1>. QED  BY <1>4, <1>5, Zenon

(* The invariant of the specification.                                     *)
IInv == Sound(State, stored, late) /\ stored \in [1 .. MaxRecords -> {0, 1}]

\* An event that leaves a sound state keeps the invariant.
LEMMA Applied ==
  ASSUME NEW T, Apply(T), Sound(T, stored, late)', stored' \in [1 .. MaxRecords -> {0, 1}]
  PROVE  IInv'
  <1>1. T \in States
    BY Zenon DEF Sound
  <1>2. State' = T
    <2>1. T = [a |-> T.a, srv |-> T.srv]
      BY <1>1 DEF States
    <2>. QED  BY <2>1 DEF Apply, State
  <1>. QED  BY <1>2, Zenon DEF IInv

\* The same, when the file is left alone.
LEMMA QuietlyApplied ==
  ASSUME IInv, NEW T, Apply(T), UNCHANGED <<stored, late>>, Sound(T, stored, late)
  PROVE  IInv'
  <1>1. Sound(T, stored, late)' /\ stored' \in [1 .. MaxRecords -> {0, 1}]
    BY Zenon DEF IInv
  <1>. QED  BY <1>1, Applied, Zenon

(* The flags Open sets.                                                    *)
Opened(S) == [S EXCEPT !.a.open = TRUE, !.a.noSpace = FALSE]

\* An appender just opened may start.
LEMMA OpenedReady ==
  ASSUME NEW S, NEW f, NEW L, Sound(S, f, L), ~S.a.open, ~S.a.error, ~S.a.sleeping,
         NEW R, R = ReportCompletion(Opened(S))
  PROVE  Ready(R, f, L)
  <1>0. PICK t \in BOOLEAN : t = TRUE
    BY Zenon
  <1>1. S \in States /\ S.a \in Appenders /\ S.a.cur = "none" /\ Space(S)
    BY DEF Sound, States, Control
  <1>. DEFINE x == [S.a EXCEPT !.open = t, !.noSpace = FALSE, !.retry = 0, !.restarts = 0]
  <1>2. x \in Appenders
    <2>1. 0 \in 0 .. MaxRetryCount
      BY AppenderAssumption
    <2>. QED  BY <1>1, <2>1, Zenon DEF Appenders
  <1>3. R = [S EXCEPT !.a = x]
    <2>1. PICK Q : Q = Opened(S)
      OBVIOUS
    <2>2. Q.srv = S.srv /\ Q = [a |-> Q.a, srv |-> Q.srv] /\ Q.a = [S.a EXCEPT !.open = t, !.noSpace = FALSE]
      BY <1>0, <1>1, <2>1, Zenon DEF States, Opened
    <2>3. ~Q.a.error
      BY <1>1, <2>2 DEF Appenders
    <2>4. R = [Q EXCEPT !.a.retry = 0, !.a.restarts = 0]
      BY <2>1, <2>3, Zenon DEF ReportCompletion
    <2>5. x = [Q.a EXCEPT !.retry = 0, !.restarts = 0]
      BY <1>1, <2>2 DEF Appenders
    <2>6. R = [a |-> x, srv |-> S.srv]
      BY <2>2, <2>4, <2>5, Zenon
    <2>. QED  BY <1>1, <2>6 DEF States
  <1>4. R \in States /\ R.a = x /\ R.srv = S.srv
    BY <1>1, <1>2, <1>3 DEF States
  <1>5. /\ R.a.first = S.a.first /\ R.a.done = S.a.done /\ R.a.size = S.a.size
        /\ R.a.queue = S.a.queue /\ R.a.cur = S.a.cur /\ R.a.error = S.a.error
        /\ R.a.sleeping = S.a.sleeping /\ SameSpace(S, R)
    BY <1>1, <1>4 DEF Appenders, SameSpace
  <1>6. R.a.open
    BY <1>0, <1>1, <1>4 DEF Appenders
  <1>7. SameRecords(S, R)
    BY <1>4, <1>5, Zenon DEF SameRecords
  <1>8. ~Under(S) /\ ~Under(R)
    BY <1>1, <1>5 DEF Under
  <1>9. Space(R)
    <2>1. ~(S.a.wid /\ ~S.a.lost)
      BY <1>1, <1>8 DEF Space
    <2>. QED  BY <1>1, <1>5, <1>8, <2>1 DEF Space, SameSpace
  <1>. QED  BY <1>1, <1>4, <1>5, <1>6, <1>7, <1>8, <1>9, MadeReady, Zenon

\* Open.
LEMMA OpenKeeps ==
  ASSUME IInv, Open
  PROVE  IInv'
  <1>1. PICK S : S = State
    OBVIOUS
  <1>2. /\ Sound(S, stored, late) /\ ~S.a.open /\ ~S.a.error /\ ~S.a.sleeping
    BY <1>1 DEF Open, IInv, State
  <1>3. PICK R : R = ReportCompletion(Opened(S))
    OBVIOUS
  <1>4. PICK T : T = StartAppend(R, FALSE)
    BY Zenon
  <1>5. Apply(T) /\ UNCHANGED <<stored, late>>
    BY <1>1, <1>3, <1>4, Zenon DEF Open, Opened
  <1>6. Ready(R, stored, late)
    BY <1>2, <1>3, OpenedReady, Zenon
  <1>7. PICK idle \in BOOLEAN : idle = FALSE
    BY Zenon
  <1>8. Sound(T, stored, late)
    BY <1>4, <1>6, <1>7, StartReady, Zenon
  <1>. QED  BY <1>5, <1>8, QuietlyApplied, Zenon

(* mWriteQueue with another record.                                        *)
Longer(q) ==
  IF q = <<>> \/ q[Len(q)] > MinWriteQueueEntrySize THEN q \o <<1>> ELSE [q EXCEPT ![Len(q)] = @ + 1]

\* The record is added once.
LEMMA LongerFacts ==
  ASSUME NEW q \in Queues, NEW p, p = Longer(q)
  PROVE  p \in Queues /\ p # <<>> /\ Sum(p) = Sum(q) + 1 /\ (q # <<>> => Head(q) <= Head(p))
  <1>1. CASE q = <<>> \/ q[Len(q)] > MinWriteQueueEntrySize
    <2>1. p = q \o << 1 >>
      BY <1>1, Zenon DEF Longer
    <2>2. q # <<>> => Head(q) = Head(p) /\ Head(q) \in Nat
      BY <2>1 DEF Queues
    <2>3. q # <<>> => Head(q) <= Head(p)
      BY <2>2
    <2>. QED  BY <2>1, <2>3, SumPush, Zenon
  <1>2. CASE ~(q = <<>> \/ q[Len(q)] > MinWriteQueueEntrySize)
    <2>1. q # <<>> /\ p = [q EXCEPT ![Len(q)] = @ + 1]
      BY <1>2, Zenon DEF Longer
    <2>. QED  BY <2>1, SumGrow, Zenon
  <1>. QED  BY <1>1, <1>2, Zenon

(* The buffer with another record.                                         *)
Lengthened(S) == [S EXCEPT !.a.size = @ + 1, !.a.queue = Longer(S.a.queue)]

\* A record at the back does not disturb an append under way.
LEMMA LongerTouched ==
  ASSUME NEW S, NEW f, NEW L, Sound(S, f, L), S.a.open, ~S.a.closing,
         NEW R, R = Lengthened(S)
  PROVE  Touched(S, R)
  <1>1. /\ S \in States /\ S.a \in Appenders /\ S.a.size \in Nat /\ S.a.queue \in Queues
        /\ S.a.size = Sum(S.a.queue) /\ S.a.length \in Nat
    BY DEF Sound, States, Appenders, Buffer
  <1>2. PICK p : p = Longer(S.a.queue)
    OBVIOUS
  <1>3. /\ p \in Queues /\ p # <<>> /\ Sum(p) = Sum(S.a.queue) + 1
        /\ S.a.queue # <<>> => Head(S.a.queue) <= Head(p)
    BY <1>1, <1>2, LongerFacts, Zenon
  <1>4. PICK n \in Nat : n = S.a.size + 1 /\ n >= S.a.size
    BY <1>1
  <1>. DEFINE x == [S.a EXCEPT !.size = n, !.queue = p]
  <1>5. x \in Appenders
    BY <1>1, <1>3, Zenon DEF Appenders
  <1>6. R = [S EXCEPT !.a = x]
    <2>1. R = [S EXCEPT !.a.size = n, !.a.queue = p]
      BY <1>2, <1>4, Zenon DEF Lengthened
    <2>. QED  BY <1>1, <2>1, Zenon DEF States
  <1>7. R \in States /\ R.a = x /\ R.srv = S.srv
    BY <1>1, <1>5, <1>6 DEF States
  <1>8. /\ SameSpace(S, R) /\ SameMode(S, R) /\ R.a.cur = S.a.cur /\ R.a.length = S.a.length
        /\ R.a.first = S.a.first /\ R.a.done = S.a.done /\ R.a.size = n /\ R.a.queue = p
    BY <1>1, <1>7, Zenon DEF Appenders, SameSpace, SameMode
  <1>9. Buffer(R)
    <2>1. R.a.size = Sum(R.a.queue)
      BY <1>1, <1>3, <1>4, <1>8
    <2>2. ASSUME Under(R) PROVE R.a.queue # <<>> /\ R.a.length \in 1 .. Head(R.a.queue)
      <3>1. Under(S)
        BY <1>8, <2>2, Zenon DEF Under
      <3>2. S.a.queue # <<>> /\ S.a.length \in 1 .. Head(S.a.queue)
        BY <3>1, Zenon DEF Sound, Buffer
      <3>3. Head(S.a.queue) \in Nat /\ Head(p) \in Nat
        BY <1>1, <1>3, <3>2, SumHead, Zenon
      <3>4. PICK m, k \in Nat : m = Head(S.a.queue) /\ k = Head(p) /\ m <= k
        BY <1>3, <3>2, <3>3, Zenon
      <3>5. S.a.length \in 1 .. k
        BY <3>2, <3>4
      <3>. QED  BY <1>3, <1>8, <3>4, <3>5, Zenon
    <2>. QED  BY <2>1, <2>2, Zenon DEF Buffer
  <1>. QED  BY <1>4, <1>7, <1>8, <1>9, Zenon DEF Touched, SameMode

\* Append, the user's call.
LEMMA AppendRecordKeeps ==
  ASSUME IInv, NEW idle \in BOOLEAN, AppendRecord(idle)
  PROVE  IInv'
  <1>1. PICK S : S = State
    OBVIOUS
  <1>2. Sound(S, stored, late) /\ S.a.open /\ ~S.a.closing /\ S.a = a
    BY <1>1 DEF AppendRecord, IInv, State
  <1>3. PICK R : R = Lengthened(S)
    OBVIOUS
  <1>4. PICK T : T = IF S.a.cur = "none" THEN StartAppend(R, idle) ELSE R
    OBVIOUS
  <1>5. Apply(T) /\ UNCHANGED <<stored, late>>
    <2>1. R = [State EXCEPT !.a.size = @ + 1, !.a.queue = Longer(a.queue)]
      BY <1>1, <1>2, <1>3, Zenon DEF Lengthened
    <2>2. T = IF a.cur = "none" THEN StartAppend(R, idle) ELSE R
      BY <1>2, <1>4, Zenon
    <2>. QED  BY <2>1, <2>2, Zenon DEF AppendRecord, Longer
  <1>6. Touched(S, R)
    BY <1>2, <1>3, LongerTouched, Zenon
  <1>7. Sound(T, stored, late)
    BY <1>2, <1>4, <1>6, Kicked, Zenon
  <1>. QED  BY <1>5, <1>7, QuietlyApplied, Zenon

(* The flags SetWriteThreshold and Close set.                              *)
Marked(S, n, c) == [S EXCEPT !.a = [S.a EXCEPT !.threshold = n, !.closing = c]]

\* The flags are all that changes.
LEMMA MarkedTouched ==
  ASSUME NEW S, NEW f, NEW L, Sound(S, f, L), NEW n \in Int, NEW c \in BOOLEAN, c => S.a.open,
         NEW R, R = Marked(S, n, c)
  PROVE  Touched(S, R) /\ R.a.threshold = n /\ R.a.closing = c /\ R.a.queue = S.a.queue /\ R.a.size = S.a.size
  <1>1. S \in States /\ S.a \in Appenders /\ Buffer(S) /\ S.a.size \in Nat
    BY DEF Sound, States, Appenders
  <1>. DEFINE x == [S.a EXCEPT !.threshold = n, !.closing = c]
  <1>2. x \in Appenders
    BY <1>1, Zenon DEF Appenders
  <1>3. R \in States /\ R.a = x /\ R.srv = S.srv
    BY <1>1, <1>2 DEF States, Marked
  <1>4. /\ SameSpace(S, R) /\ R.a.cur = S.a.cur /\ R.a.length = S.a.length
        /\ R.a.first = S.a.first /\ R.a.done = S.a.done /\ R.a.size = S.a.size /\ R.a.queue = S.a.queue
        /\ R.a.open = S.a.open /\ R.a.error = S.a.error /\ R.a.sleeping = S.a.sleeping
    BY <1>1, <1>3 DEF Appenders, SameSpace
  <1>5. R.a.threshold = n /\ R.a.closing = c
    BY <1>1, <1>3 DEF Appenders
  <1>6. Buffer(R)
    BY <1>1, <1>4, Zenon DEF Buffer, Under
  <1>7. R.a.size >= S.a.size
    BY <1>1, <1>4
  <1>. QED  BY <1>3, <1>4, <1>5, <1>6, <1>7, Zenon DEF Touched

\* SetWriteThreshold: a lower threshold starts an idle appender.
LEMMA ThresholdKeeps ==
  ASSUME IInv, NEW n \in Thresholds, NEW idle \in BOOLEAN, SetWriteThreshold(n, idle)
  PROVE  IInv'
  <1>1. PICK S : S = State
    OBVIOUS
  <1>2. Sound(S, stored, late) /\ S.a = a /\ S \in States /\ S.a \in Appenders
    BY <1>1 DEF IInv, State, Sound, States
  <1>3. /\ n \in Int /\ S.a.closing \in BOOLEAN /\ S.a.threshold \in Int /\ S.a.size \in Nat
        /\ S.a.closing => S.a.open
    BY <1>2, AppenderAssumption DEF Appenders, Sound, Control
  <1>0. PICK c \in BOOLEAN : c = S.a.closing
    BY <1>3
  <1>4. PICK R : R = Marked(S, n, c)
    OBVIOUS
  <1>5. PICK T : T = IF n < S.a.threshold /\ S.a.cur = "none" /\ S.a.open /\ S.a.queue # <<>>
                     THEN StartAppend(R, idle) ELSE R
    OBVIOUS
  <1>6. R = [State EXCEPT !.a.threshold = n]
    <2>1. [S.a EXCEPT !.threshold = n, !.closing = S.a.closing] = [S.a EXCEPT !.threshold = n]
      BY <1>2, Zenon DEF Appenders
    <2>. QED  BY <1>0, <1>1, <1>2, <1>4, <2>1, Zenon DEF Marked, States
  <1>7. Apply(T) /\ UNCHANGED <<stored, late>>
    BY <1>2, <1>5, <1>6, Zenon DEF SetWriteThreshold
  <1>8. /\ Touched(S, R) /\ R.a.threshold = n /\ R.a.closing = S.a.closing
        /\ R.a.queue = S.a.queue /\ R.a.size = S.a.size
    <2>1. c => S.a.open
      BY <1>0, <1>3
    <2>2. Touched(S, R) /\ R.a.threshold = n /\ R.a.closing = c /\ R.a.queue = S.a.queue
          /\ R.a.size = S.a.size
      <3>1. n \in Int
        BY <1>3, Zenon
      <3>2. Sound(S, stored, late)
        BY <1>2, Zenon
      <3>. QED  BY <1>4, <2>1, <3>1, <3>2, MarkedTouched
    <2>. QED  BY <1>0, <2>2, Zenon
  <1>9. CASE n < S.a.threshold /\ S.a.cur = "none" /\ S.a.open /\ S.a.queue # <<>>
    <2>1. T = IF S.a.cur = "none" THEN StartAppend(R, idle) ELSE R
      BY <1>5, <1>9, Zenon
    <2>. QED  BY <1>2, <1>7, <1>8, <1>9, <2>1, Kicked, QuietlyApplied, Zenon
  <1>10. CASE ~(n < S.a.threshold /\ S.a.cur = "none" /\ S.a.open /\ S.a.queue # <<>>)
    <2>1. Driven(R)
      <3>. SUFFICES ASSUME R.a.open, R.a.cur = "none", ~R.a.sleeping, CanAppend(R) PROVE FALSE
        BY Zenon DEF Driven
      <3>1. S.a.open /\ S.a.cur = "none" /\ ~S.a.sleeping /\ S.a.queue # <<>>
        BY <1>8, Zenon DEF Touched, CanAppend
      <3>2. ~(n < S.a.threshold)
        BY <1>10, <3>1, Zenon
      <3>3. S.a.closing \/ S.a.size >= n
        BY <1>8, Zenon DEF CanAppend
      <3>4. S.a.closing \/ S.a.size >= S.a.threshold
        BY <1>3, <3>2, <3>3
      <3>. QED  BY <1>2, <3>1, <3>4, Zenon DEF CanAppend, Driven, Sound
    <2>2. T = R
      BY <1>5, <1>10, Zenon
    <2>3. Sound(T, stored, late)
      BY <1>2, <1>8, <2>1, <2>2, TouchedKept, Zenon DEF Sound
    <2>. QED  BY <1>7, <2>3, QuietlyApplied, Zenon
  <1>. QED  BY <1>9, <1>10, Zenon

\* Close.
LEMMA CloseKeeps ==
  ASSUME IInv, NEW idle \in BOOLEAN, Close(idle)
  PROVE  IInv'
  <1>0. PICK t \in BOOLEAN : t = TRUE
    BY Zenon
  <1>1. PICK S : S = State
    OBVIOUS
  <1>2. Sound(S, stored, late) /\ S.a = a /\ S \in States /\ S.a \in Appenders
    BY <1>1 DEF IInv, State, Sound, States
  <1>3. S.a.open /\ S.a.threshold \in Int
    BY <1>2 DEF Close, Appenders
  <1>4. PICK R : R = Marked(S, S.a.threshold, t)
    OBVIOUS
  <1>5. PICK T : T = IF S.a.cur = "none" THEN StartAppend(R, idle) ELSE R
    OBVIOUS
  <1>6. R = [State EXCEPT !.a.closing = TRUE]
    <2>1. [S.a EXCEPT !.threshold = S.a.threshold, !.closing = t] = [S.a EXCEPT !.closing = t]
      BY <1>2, Zenon DEF Appenders
    <2>2. R = [S EXCEPT !.a.closing = t]
      BY <1>2, <1>4, <2>1 DEF Marked, States
    <2>. QED  BY <1>0, <1>1, <2>2, Zenon
  <1>7. Apply(T) /\ UNCHANGED <<stored, late>>
    BY <1>2, <1>5, <1>6, Zenon DEF Close
  <1>8. Touched(S, R)
    BY <1>2, <1>3, <1>4, MarkedTouched, Zenon
  <1>9. Sound(T, stored, late)
    BY <1>2, <1>3, <1>5, <1>8, Kicked, Zenon
  <1>. QED  BY <1>7, <1>9, QuietlyApplied, Zenon

(* The appender after Shutdown.                                            *)
Stopped(S) ==
  [Reset(S).a EXCEPT !.open = FALSE, !.closing = FALSE, !.error = FALSE, !.sleeping = FALSE,
                     !.queue = <<>>, !.first = @ + S.a.size, !.size = 0]

\* Shutdown drops the records, so that an append that is stored later is of records
\* before the buffer.
LEMMA StoppedSound ==
  ASSUME NEW S, NEW f, NEW L, Sound(S, f, L), NEW T, T = [a |-> Stopped(S), srv |-> S.srv]
  PROVE  Sound(T, f, L)
  <1>1. /\ S \in States /\ S.srv \in Services /\ S.a.first \in Nat /\ S.a.size \in Nat
        /\ S.srv.first \in Nat /\ S.srv.length \in Nat /\ File(S, f, L) /\ Placed(S)
        /\ S.a.done \in SUBSET Nat
    BY DEF Sound, States, Appenders, Services
  <1>2. PICK R : R = Reset(S)
    OBVIOUS
  <1>3. /\ R \in States /\ R.a \in Appenders /\ R.a.first = S.a.first /\ R.a.done = S.a.done
        /\ R.a.cur = "none" /\ ~R.a.chunk /\ ~R.a.wid /\ R.a.space = 0
    BY <1>1, <1>2, ResetFacts DEF SameFile, States
  <1>4. PICK n \in Nat : n = S.a.first + S.a.size
    BY <1>1
  <1>5. PICK q : q = <<>> /\ q \in Queues /\ Sum(q) = 0
    BY SumEmpty
  <1>. DEFINE x == [R.a EXCEPT !.open = FALSE, !.closing = FALSE, !.error = FALSE, !.sleeping = FALSE,
                               !.queue = q, !.first = n, !.size = 0]
  <1>6. x \in Appenders
    BY <1>3, <1>5, Zenon DEF Appenders
  <1>7. Stopped(S) = x
    <2>1. Stopped(S) = [R.a EXCEPT !.open = FALSE, !.closing = FALSE, !.error = FALSE,
                                   !.sleeping = FALSE, !.queue = <<>>, !.first = R.a.first + S.a.size,
                                   !.size = 0]
      BY <1>2, Zenon DEF Stopped
    <2>2. R.a.first + S.a.size = n
      BY <1>3, <1>4
    <2>. QED  BY <1>5, <2>1, <2>2, Zenon
  <1>8. T \in States /\ T.a = x /\ T.srv = S.srv
    BY <1>1, <1>6, <1>7 DEF States
  <1>9. /\ ~T.a.open /\ ~T.a.closing /\ ~T.a.error /\ ~T.a.sleeping /\ T.a.queue = q
        /\ T.a.first = n /\ T.a.size = 0 /\ T.a.done = S.a.done /\ T.a.cur = "none"
    BY <1>3, <1>8, Zenon DEF Appenders
  <1>10. ~T.a.chunk /\ ~T.a.wid /\ T.a.space = 0
    BY <1>3, <1>8, Zenon DEF Appenders
  <1>11. ~Under(T) /\ Control(T) /\ Driven(T)
    BY <1>9 DEF Under, Control, Driven
  <1>12. Buffer(T)
    BY <1>5, <1>9, <1>11, Zenon DEF Buffer
  <1>13. Space(T)
    BY <1>9, <1>10, <1>11 DEF Space
  <1>14. Live(S.srv) \/ S.srv.op = "ok" => S.srv.first + S.srv.length <= n
    BY <1>1, <1>4 DEF Placed
  <1>15. Placed(T)
    BY <1>8, <1>9, <1>11, <1>14, Zenon DEF Placed
  <1>16. S.a.first <= n
    BY <1>1, <1>4
  <1>17. File(T, f, L)
    <2>1. ASSUME NEW r \in 1 .. MaxRecords
          PROVE  /\ f[r] \in {0, 1} /\ (r \in T.a.done => f[r] = 1)
                 /\ ~(r >= T.a.first /\ f[r] = 1)
                 /\ In(r, T.srv) /\ Live(T.srv) => f[r] = 0
      <3>1. /\ f[r] \in {0, 1} /\ (r \in S.a.done => f[r] = 1)
            /\ In(r, S.srv) /\ Live(S.srv) => f[r] = 0
            /\ r >= S.a.first /\ f[r] = 1 => S.srv.op = "ok" /\ In(r, S.srv)
        BY <1>1, Zenon DEF File
      <3>2. r \in Int
        BY AppenderAssumption
      <3>3. ~(r >= n /\ f[r] = 1)
        BY <1>1, <1>14, <1>16, <3>1, <3>2 DEF In
      <3>. QED  BY <1>8, <1>9, <3>1, <3>3, Zenon
    <2>2. \A r \in T.a.done : r < T.a.first
      <3>. SUFFICES ASSUME NEW r \in S.a.done PROVE r < n
        BY <1>9, Zenon
      <3>1. r < S.a.first
        BY <1>1, Zenon DEF File
      <3>. QED  BY <1>1, <1>16, <3>1
    <2>3. ASSUME NEW y \in L, Live(y)
          PROVE  y.first + y.length <= T.a.first
      <3>1. y.first + y.length <= S.a.first /\ y \in Services
        BY <1>1, <2>3, Zenon DEF File
      <3>2. y.first + y.length \in Nat
        BY <3>1 DEF Services
      <3>. QED  BY <1>1, <1>9, <1>16, <3>1, <3>2
    <2>. QED  BY <1>1, <1>8, <1>11, <2>1, <2>2, <2>3, Zenon DEF File
  <1>. QED  BY <1>8, <1>11, <1>12, <1>13, <1>15, <1>17, Zenon DEF Sound

\* Shutdown.
LEMMA ShutdownKeeps ==
  ASSUME IInv, Shutdown
  PROVE  IInv'
  <1>1. PICK S : S = State
    OBVIOUS
  <1>2. Sound(S, stored, late) /\ S.a = a /\ S.srv = srv
    BY <1>1 DEF IInv, State
  <1>3. PICK T : T = [a |-> Stopped(S), srv |-> S.srv]
    BY Zenon
  <1>4. a' = Stopped(S) /\ UNCHANGED <<srv, stored, late>>
    BY <1>1, <1>2, Zenon DEF Shutdown, Stopped
  <1>5. Apply(T)
    BY <1>2, <1>3, <1>4 DEF Apply
  <1>6. Sound(T, stored, late)
    BY <1>2, <1>3, StoppedSound, Zenon
  <1>. QED  BY <1>4, <1>5, <1>6, QuietlyApplied, Zenon

\* The timer resumes a recovery or a retry.
LEMMA WokenSound ==
  ASSUME NEW S, NEW f, NEW L, Sound(S, f, L), S.a.sleeping, NEW T, T = Timeout(S)
  PROVE  Sound(T, f, L)
  <1>1. /\ S \in States /\ S.a \in Appenders /\ S.a.open /\ ~S.a.error /\ S.a.cur \in {"none", "status"}
        /\ Buffer(S) /\ Space(S) /\ Placed(S) /\ File(S, f, L)
    BY DEF Sound, States, Control
  <1>2. CASE S.a.cur = "none"
    BY <1>1, <1>2, TimeoutSound, Zenon
  <1>3. CASE S.a.cur = "status"
    <2>. DEFINE x == [S.a EXCEPT !.sleeping = FALSE]
    <2>1. x \in Appenders
      BY <1>1, Zenon DEF Appenders
    <2>2. x.cur = "status" /\ x = [x EXCEPT !.cur = "status"]
      BY <1>1, <1>3, Zenon DEF Appenders
    <2>3. T = [S EXCEPT !.a = x]
      <3>1. PICK R : R = [S EXCEPT !.a.sleeping = FALSE]
        BY Zenon
      <3>2. R = [S EXCEPT !.a = x] /\ R.a = x
        BY <1>1, <3>1 DEF States
      <3>3. T = GetLastRecordAppendOpStatus(R)
        BY <2>2, <3>1, <3>2, Zenon DEF Timeout
      <3>4. T = [R EXCEPT !.a = [x EXCEPT !.cur = "status"]]
        BY <3>2, <3>3, Zenon DEF GetLastRecordAppendOpStatus, Enqueue
      <3>5. T = [R EXCEPT !.a = x]
        BY <2>2, <3>4, Zenon
      <3>. QED  BY <1>1, <3>2, <3>5, Zenon DEF States
    <2>4. T \in States /\ T.a = x /\ T.srv = S.srv
      BY <1>1, <2>1, <2>3, Zenon DEF States
    <2>5. /\ SameFile(S, T) /\ SameSpace(S, T) /\ T.a.cur = S.a.cur /\ T.a.length = S.a.length
          /\ T.a.open = S.a.open /\ T.a.closing = S.a.closing /\ T.a.error = S.a.error /\ ~T.a.sleeping
      BY <1>1, <2>4, Zenon DEF Appenders, SameFile, SameSpace
    <2>6. Under(S) /\ Under(T)
      BY <1>3, <2>5 DEF Under
    <2>7. File(T, f, L)
      BY <1>1, <2>5, <2>6, SameKeepsFile, Zenon
    <2>8. Placed(T) /\ Buffer(T) /\ Space(T)
      BY <1>1, <2>5, <2>6, Zenon DEF Placed, Buffer, Space, SameFile, SameSpace
    <2>9. Control(T) /\ Driven(T)
      BY <1>1, <1>3, <2>5 DEF Control, Driven
    <2>. QED  BY <2>4, <2>7, <2>8, <2>9, Zenon DEF Sound
  <1>. QED  BY <1>1, <1>2, <1>3

\* The timer (Timeout).
LEMMA TimerKeeps ==
  ASSUME IInv, SleepTimeout
  PROVE  IInv'
  <1>1. PICK S : S = State
    OBVIOUS
  <1>2. Sound(S, stored, late) /\ S.a.sleeping
    BY <1>1 DEF IInv, State, SleepTimeout
  <1>3. PICK T : T = Timeout(S)
    OBVIOUS
  <1>4. Apply(T) /\ UNCHANGED <<stored, late>>
    BY <1>1, <1>3, Zenon DEF SleepTimeout
  <1>. QED  BY <1>2, <1>3, <1>4, WokenSound, QuietlyApplied, Zenon

(* The connection is closed while idle.                                    *)
Dropped(S) == [S EXCEPT !.a.lost = TRUE, !.srv.reserved = 0]

\* The appender knows that the space is gone.
LEMMA DroppedSound ==
  ASSUME NEW S, NEW f, NEW L, Sound(S, f, L), S.a.wid, S.a.cur = "none", NEW T, T = Dropped(S)
  PROVE  Sound(T, f, L)
  <1>0. PICK t \in BOOLEAN : t = TRUE
    BY Zenon
  <1>1. /\ S \in States /\ S.a \in Appenders /\ S.srv \in Services /\ S.a.size \in Nat
        /\ Buffer(S) /\ Control(S) /\ Space(S) /\ Placed(S) /\ File(S, f, L) /\ Driven(S)
    BY DEF Sound, States, Appenders
  <1>. DEFINE x == [S.a EXCEPT !.lost = t]
              y == [S.srv EXCEPT !.reserved = 0]
  <1>2. x \in Appenders /\ y \in Services
    BY <1>1 DEF Appenders, Services
  <1>3. T = [a |-> x, srv |-> y]
    <2>1. T = [S EXCEPT !.a.lost = t, !.srv.reserved = 0]
      BY <1>0, Zenon DEF Dropped
    <2>. QED  BY <1>1, <2>1, Zenon DEF States
  <1>4. T \in States /\ T.a = x /\ T.srv = y
    BY <1>2, <1>3 DEF States
  <1>5. /\ T.a.first = S.a.first /\ T.a.done = S.a.done /\ T.a.size = S.a.size /\ T.a.queue = S.a.queue
        /\ T.a.cur = S.a.cur /\ T.a.threshold = S.a.threshold /\ SameMode(S, T)
        /\ T.a.wid = S.a.wid /\ T.a.chunk = S.a.chunk
    <2>. HIDE DEF y
    <2>1. /\ T.a.first = S.a.first /\ T.a.done = S.a.done /\ T.a.size = S.a.size
          /\ T.a.queue = S.a.queue /\ T.a.cur = S.a.cur /\ T.a.threshold = S.a.threshold
      BY <1>1, <1>4 DEF Appenders
    <2>2. /\ x.open = S.a.open /\ x.closing = S.a.closing /\ x.error = S.a.error
          /\ x.sleeping = S.a.sleeping /\ x.wid = S.a.wid /\ x.chunk = S.a.chunk
      BY <1>1, Zenon DEF Appenders
    <2>. HIDE DEF x
    <2>3. SameMode(S, T) /\ T.a.wid = S.a.wid /\ T.a.chunk = S.a.chunk
      BY <1>4, <2>2, Zenon DEF SameMode
    <2>. QED  BY <2>1, <2>3
  <1>6. T.a.lost
    BY <1>0, <1>1, <1>4 DEF Appenders
  <1>7. SameRecords(S, T)
    BY <1>1, <1>4, <1>5 DEF Services, SameRecords, SameMode
  <1>8. ~Under(S) /\ ~Under(T)
    BY <1>5 DEF Under
  <1>9. T.a.size >= S.a.size
    BY <1>1, <1>5
  <1>10. File(T, f, L) /\ Placed(T)
    BY <1>1, <1>4, <1>7, <1>8, <1>9, RecordsKept, Zenon
  <1>11. Buffer(T) /\ Control(T)
    BY <1>1, <1>5, <1>8, Zenon DEF Buffer, Control, SameMode
  <1>12. Driven(T)
    BY <1>1, <1>5, Zenon DEF Driven, CanAppend, SameMode
  <1>13. Space(T)
    BY <1>1, <1>5, <1>6, <1>8, Zenon DEF Space
  <1>. QED  BY <1>4, <1>10, <1>11, <1>12, <1>13, Zenon DEF Sound

\* The idle connection is closed.
LEMMA DisconnectKeeps ==
  ASSUME IInv, Disconnect
  PROVE  IInv'
  <1>1. PICK S : S = State
    OBVIOUS
  <1>2. Sound(S, stored, late) /\ S.a.wid /\ S.a.cur = "none"
    BY <1>1 DEF IInv, State, Disconnect
  <1>3. PICK T : T = Dropped(S)
    OBVIOUS
  <1>4. Apply(T) /\ UNCHANGED <<stored, late>>
    BY <1>1, <1>3, Zenon DEF Disconnect, Dropped
  <1>. QED  BY <1>2, <1>3, <1>4, DroppedSound, QuietlyApplied, Zenon
\* One operation other than an append follows another.
LEMMA MadeSound ==
  ASSUME NEW S, NEW f, NEW L, Sound(S, f, L), ~Under(S), NEW R \in States, SameRecords(S, R),
         R.a.size = S.a.size, R.a.queue = S.a.queue, ~Under(R), Control(R), Space(R), Driven(R)
  PROVE  Sound(R, f, L)
  <1>1. S \in States /\ File(S, f, L) /\ Placed(S) /\ Buffer(S)
    BY Zenon DEF Sound
  <1>2. R.a.size >= S.a.size
    BY <1>1 DEF States, Appenders
  <1>3. File(R, f, L) /\ Placed(R)
    BY <1>1, <1>2, RecordsKept, Zenon
  <1>4. Buffer(R)
    BY <1>1, Zenon DEF Buffer
  <1>. QED  BY <1>3, <1>4, Zenon DEF Sound

\* An operation other than an append fails.
LEMMA FailedSound ==
  ASSUME NEW S, NEW f, NEW L, Sound(S, f, L), S.a.cur \in {"alloc", "writeid", "reserve"},
         NEW slow \in BOOLEAN, NEW T, T = HandleError(S, "failed", slow)
  PROVE  Sound(T, f, L)
  <1>1. ~Under(S) /\ S.a.cur \in {"alloc", "writeid", "reserve", "append"}
    BY DEF Under
  <1>2. Failing(S, f, L)
    BY <1>1, SoundFailing, Zenon
  <1>3. PICK status : status = "failed"
    OBVIOUS
  <1>. QED  BY <1>1, <1>2, <1>3, HandleErrorSound, Zenon

(* A chunk is allocated.                                                   *)
Allocated(S) == [S EXCEPT !.a.chunk = TRUE]

\* The write id is asked for next.
LEMMA AllocatedSound ==
  ASSUME NEW S, NEW f, NEW L, Sound(S, f, L), S.a.cur = "alloc",
         NEW R, R = Enqueue(Allocated(S), "writeid")
  PROVE  Sound(R, f, L)
  <1>0. PICK t \in BOOLEAN : t = TRUE
    BY Zenon
  <1>1. S \in States /\ S.a \in Appenders /\ Space(S) /\ Control(S)
    BY DEF Sound, States
  <1>. DEFINE x == [S.a EXCEPT !.chunk = t, !.cur = "writeid"]
  <1>2. x \in Appenders
    BY <1>1, Zenon DEF Appenders, Curs
  <1>3. R = [S EXCEPT !.a = x]
    <2>1. R = Enqueue([S EXCEPT !.a.chunk = t], "writeid")
      BY <1>0, Zenon DEF Allocated
    <2>. QED  BY <1>1, <2>1, Zenon DEF States, Enqueue
  <1>4. R \in States /\ R.a = x /\ R.srv = S.srv
    BY <1>1, <1>2, <1>3 DEF States
  <1>5. /\ R.a.first = S.a.first /\ R.a.done = S.a.done /\ R.a.size = S.a.size
        /\ R.a.queue = S.a.queue /\ R.a.error = S.a.error /\ R.a.open = S.a.open
        /\ R.a.sleeping = S.a.sleeping /\ R.a.closing = S.a.closing /\ R.a.wid = S.a.wid
        /\ R.a.lost = S.a.lost /\ R.a.space = S.a.space /\ R.a.cur = "writeid"
    BY <1>1, <1>4, Zenon DEF Appenders
  <1>6. R.a.chunk
    BY <1>0, <1>1, <1>4, Zenon DEF Appenders
  <1>7. SameRecords(S, R)
    BY <1>4, <1>5, Zenon DEF SameRecords
  <1>8. ~Under(S) /\ ~Under(R)
    BY <1>5 DEF Under
  <1>9. Control(R)
    BY <1>1, <1>5 DEF Control
  <1>10. Space(R)
    BY <1>1, <1>5, <1>6, <1>8, Zenon DEF Space
  <1>11. Driven(R)
    BY <1>5 DEF Driven
  <1>. QED  BY <1>4, <1>5, <1>7, <1>8, <1>9, <1>10, <1>11, MadeSound, Zenon

\* Done(AllocOp), with a chunk or with an error.
LEMMA AllocKeeps ==
  ASSUME IInv, NEW ok \in BOOLEAN, NEW slow \in BOOLEAN, AllocDone(ok, slow)
  PROVE  IInv'
  <1>1. PICK S : S = State
    OBVIOUS
  <1>2. Sound(S, stored, late) /\ S.a.cur = "alloc" /\ S.a.cur \in {"alloc", "writeid", "reserve"}
    BY <1>1 DEF AllocDone, IInv, State
  <1>3. PICK T : T = IF ok THEN Enqueue(Allocated(S), "writeid") ELSE HandleError(S, "failed", slow)
    OBVIOUS
  <1>4. Apply(T) /\ UNCHANGED <<stored, late>>
    BY <1>1, <1>3, Zenon DEF AllocDone, Allocated
  <1>5. Sound(T, stored, late)
    <2>1. CASE ok
      BY <1>2, <1>3, <2>1, AllocatedSound, Zenon
    <2>2. CASE ~ok
      BY <1>2, <1>3, <2>2, FailedSound, Zenon
    <2>. QED  BY <2>1, <2>2, Zenon
  <1>. QED  BY <1>4, <1>5, QuietlyApplied, Zenon

\* StartAppend after an operation with the write id.
LEMMA Restarted ==
  ASSUME NEW S, NEW f, NEW L, Sound(S, f, L), ~Under(S), NEW R \in States, SameRecords(S, R),
         R.a.size = S.a.size, R.a.queue = S.a.queue, R.a.open, ~R.a.error, ~R.a.sleeping,
         R.a.wid, R.a.chunk, R.a.space <= R.srv.reserved, R.srv.op # "sent",
         NEW M, M = Enqueue(R, "none")
  PROVE  Ready(M, f, L) /\ M.a.sleeping = R.a.sleeping /\ M.a.error = R.a.error
         /\ M.a.space = R.a.space /\ SameSpace(R, M)
  <1>1. "none" \in Curs
    BY DEF Curs
  <1>2. /\ M \in States /\ SameFile(R, M) /\ SameSpace(R, M) /\ SameMode(R, M) /\ M.a.cur = "none"
    BY <1>1, EnqueueFacts, Zenon
  <1>3. SameRecords(S, M) /\ M.a.size = S.a.size /\ M.a.queue = S.a.queue
    BY <1>2, Zenon DEF SameRecords, SameFile, SameMode
  <1>4. M.a.open /\ ~M.a.error /\ ~M.a.sleeping
    BY <1>2, Zenon DEF SameMode
  <1>5. Space(M)
    BY <1>2, <1>4, Zenon DEF Space, SameSpace, SameFile, Under
  <1>6. Ready(M, f, L)
    BY <1>2, <1>3, <1>4, <1>5, MadeReady, Zenon
  <1>. QED  BY <1>2, <1>6, Zenon DEF SameMode, SameSpace
(* Space is reserved.                                                      *)
Reserved(S) == [S EXCEPT !.a.space = @ + S.a.ask, !.a.ask = 0, !.srv.reserved = @ + S.a.ask]

\* The appender counts on the space the server has added (Done(SpaceReserveOp)).
LEMMA ReservedSound ==
  ASSUME NEW S, NEW f, NEW L, Sound(S, f, L), S.a.cur = "reserve",
         NEW T, T = StartAppend(Reserved(S), FALSE)
  PROVE  Sound(T, f, L)
  <1>1. /\ S \in States /\ S.a \in Appenders /\ S.srv \in Services /\ Space(S) /\ Control(S)
        /\ S.a.space \in Nat /\ S.a.ask \in Nat /\ S.srv.reserved \in Nat
    BY DEF Sound, States, Appenders, Services
  <1>2. ~Under(S) /\ S.a.open /\ ~S.a.error /\ ~S.a.sleeping
    BY <1>1 DEF Under, Control
  <1>3. S.a.wid /\ ~S.a.lost /\ S.a.chunk /\ S.a.space <= S.srv.reserved /\ S.srv.op # "sent"
    BY <1>1, <1>2 DEF Space
  <1>4. PICK n \in Nat : n = S.a.space + S.a.ask
    BY <1>1
  <1>5. PICK m \in Nat : m = S.srv.reserved + S.a.ask
    BY <1>1
  <1>6. n <= m
    BY <1>1, <1>3, <1>4, <1>5
  <1>. DEFINE x == [S.a EXCEPT !.space = n, !.ask = 0]
              y == [S.srv EXCEPT !.reserved = m]
  <1>7. x \in Appenders /\ y \in Services
    BY <1>1, Zenon DEF Appenders, Services
  <1>8. PICK R : R = Reserved(S)
    OBVIOUS
  <1>9. R = [a |-> x, srv |-> y]
    <2>1. R = [S EXCEPT !.a.space = n, !.a.ask = 0, !.srv.reserved = m]
      BY <1>4, <1>5, <1>8, Zenon DEF Reserved
    <2>. QED  BY <1>1, <2>1, Zenon DEF States
  <1>10. R \in States /\ R.a = x /\ R.srv = y
    BY <1>7, <1>9 DEF States
  <1>11. /\ R.a.first = S.a.first /\ R.a.done = S.a.done /\ R.a.size = S.a.size
         /\ R.a.queue = S.a.queue /\ R.a.space = n
    BY <1>1, <1>10 DEF Appenders
  <1>12. /\ R.a.error = S.a.error /\ R.a.open = S.a.open /\ R.a.sleeping = S.a.sleeping
         /\ R.a.wid = S.a.wid /\ R.a.chunk = S.a.chunk
    BY <1>1, <1>10 DEF Appenders
  <1>13. /\ R.srv.op = S.srv.op /\ R.srv.first = S.srv.first /\ R.srv.length = S.srv.length
         /\ R.srv.ro = S.srv.ro /\ R.srv.reserved = m
    BY <1>1, <1>10 DEF Services
  <1>. HIDE DEF x, y
  <1>14. SameRecords(S, R)
    BY <1>11, <1>12, <1>13, Zenon DEF SameRecords
  <1>15. PICK M : M = Enqueue(R, "none")
    OBVIOUS
  <1>16. R.a.open /\ ~R.a.error /\ ~R.a.sleeping /\ R.a.wid /\ R.a.chunk
    BY <1>2, <1>3, <1>12, Zenon
  <1>17. R.a.space <= R.srv.reserved /\ R.srv.op # "sent"
    BY <1>3, <1>6, <1>11, <1>13, Zenon
  <1>18. Ready(M, f, L) /\ M.a.sleeping = R.a.sleeping /\ M.a.error = R.a.error
    BY <1>2, <1>10, <1>11, <1>14, <1>15, <1>16, <1>17, Restarted, Zenon
  <1>19. PICK idle \in BOOLEAN : idle = FALSE
    BY Zenon
  <1>. QED  BY <1>8, <1>15, <1>18, <1>19, StartAppendSound, Zenon

(* There is no space in the chunk.                                         *)
Denied(S) == [S EXCEPT !.a.noSpace = TRUE]

\* The chunk is left (Done(SpaceReserveOp) with -ENOSPC).
LEMMA DeniedSound ==
  ASSUME NEW S, NEW f, NEW L, Sound(S, f, L), S.a.cur = "reserve",
         NEW T, T = SpaceReleaseOrClose(Denied(S))
  PROVE  Sound(T, f, L)
  <1>0. PICK t \in BOOLEAN : t = TRUE
    BY Zenon
  <1>1. S \in States /\ S.a \in Appenders /\ Space(S) /\ Control(S)
    BY DEF Sound, States
  <1>2. ~Under(S) /\ S.a.open /\ ~S.a.error /\ ~S.a.sleeping
    BY <1>1 DEF Under, Control
  <1>3. S.a.wid /\ ~S.a.lost /\ S.a.chunk /\ S.a.space <= S.srv.reserved /\ S.srv.op # "sent"
    BY <1>1, <1>2 DEF Space
  <1>. DEFINE x == [S.a EXCEPT !.noSpace = t]
  <1>4. x \in Appenders
    BY <1>1 DEF Appenders
  <1>5. PICK R : R = Denied(S)
    OBVIOUS
  <1>6. R = [S EXCEPT !.a = x]
    <2>1. R = [S EXCEPT !.a.noSpace = t]
      BY <1>0, <1>5, Zenon DEF Denied
    <2>. QED  BY <1>1, <2>1 DEF States
  <1>7. R \in States /\ R.a = x /\ R.srv = S.srv
    BY <1>1, <1>4, <1>6 DEF States
  <1>8. /\ R.a.first = S.a.first /\ R.a.done = S.a.done /\ R.a.size = S.a.size
        /\ R.a.queue = S.a.queue /\ R.a.space = S.a.space
    BY <1>1, <1>7 DEF Appenders
  <1>9. /\ R.a.error = S.a.error /\ R.a.open = S.a.open /\ R.a.sleeping = S.a.sleeping
        /\ R.a.wid = S.a.wid /\ R.a.chunk = S.a.chunk /\ R.a.lost = S.a.lost
    BY <1>1, <1>7 DEF Appenders
  <1>. HIDE DEF x
  <1>10. SameRecords(S, R)
    BY <1>7, <1>8, <1>9, Zenon DEF SameRecords
  <1>11. PICK M : M = Enqueue(R, "none")
    OBVIOUS
  <1>12. R.a.open /\ ~R.a.error /\ ~R.a.sleeping /\ R.a.wid /\ R.a.chunk
    BY <1>2, <1>3, <1>9, Zenon
  <1>13. R.a.space <= R.srv.reserved /\ R.srv.op # "sent"
    BY <1>3, <1>7, <1>8, Zenon
  <1>14. Ready(M, f, L) /\ M.a.space = R.a.space /\ SameSpace(R, M)
    BY <1>2, <1>7, <1>8, <1>10, <1>11, <1>12, <1>13, Restarted, Zenon
  <1>15. M.a.chunk /\ ~M.a.lost
    BY <1>3, <1>9, <1>14, Zenon DEF SameSpace
  <1>16. T = SpaceReleaseOrClose(M)
    <2>1. \A d \in Curs : Enqueue(M, d) = Enqueue(R, d)
      BY <1>7, <1>11, EnqueueTwice DEF Curs
    <2>2. "release" \in Curs /\ "close" \in Curs
      BY DEF Curs
    <2>3. CASE R.a.space > 0
      BY <1>5, <1>14, <2>1, <2>2, <2>3, Zenon DEF SpaceReleaseOrClose
    <2>4. CASE ~(R.a.space > 0)
      BY <1>5, <1>14, <2>1, <2>2, <2>4, Zenon DEF SpaceReleaseOrClose
    <2>. QED  BY <2>3, <2>4, Zenon
  <1>. QED  BY <1>14, <1>15, <1>16, ReadyRelease, Zenon

\* Done(SpaceReserveOp), with each of its outcomes.
LEMMA ReserveKeeps ==
  ASSUME IInv, NEW result \in {"ok", "denied", "failed"}, NEW slow \in BOOLEAN,
         SpaceReserveDone(result, slow)
  PROVE  IInv'
  <1>1. PICK S : S = State
    OBVIOUS
  <1>2. Sound(S, stored, late) /\ S.a.cur = "reserve" /\ S.a.cur \in {"alloc", "writeid", "reserve"}
        /\ a = S.a
    BY <1>1 DEF SpaceReserveDone, IInv, State
  <1>3. PICK T : T = CASE result = "ok" -> StartAppend(Reserved(S), FALSE)
                       [] result = "denied" -> SpaceReleaseOrClose(Denied(S))
                       [] OTHER -> HandleError(S, "failed", slow)
    BY Zenon
  <1>4. Apply(T) /\ UNCHANGED <<stored, late>>
    BY <1>1, <1>2, <1>3, Zenon DEF SpaceReserveDone, Reserved, Denied
  <1>5. Sound(T, stored, late)
    <2>1. CASE result = "ok"
      <3>1. T = StartAppend(Reserved(S), FALSE)
        BY <1>3, <2>1
      <3>. QED  BY <1>2, <3>1, ReservedSound, Zenon
    <2>2. CASE result = "denied"
      <3>1. T = SpaceReleaseOrClose(Denied(S))
        BY <1>3, <2>2
      <3>. QED  BY <1>2, <3>1, DeniedSound, Zenon
    <2>3. CASE result = "failed"
      <3>1. T = HandleError(S, "failed", slow)
        BY <1>3, <2>3
      <3>. QED  BY <1>2, <3>1, FailedSound, Zenon
    <2>. QED  BY <2>1, <2>2, <2>3, Zenon
  <1>. QED  BY <1>4, <1>5, QuietlyApplied, Zenon
(* The space is released.                                                  *)
Released(S) == [S EXCEPT !.a.space = 0, !.srv.reserved = @ - S.a.space]

\* Neither side counts on it any more.
LEMMA ReleasedSound ==
  ASSUME NEW S, NEW f, NEW L, Sound(S, f, L), S.a.cur = "release",
         NEW T, T = StartAppend(Released(S), FALSE)
  PROVE  Sound(T, f, L)
  <1>1. /\ S \in States /\ S.a \in Appenders /\ S.srv \in Services /\ Space(S) /\ Control(S)
        /\ S.a.space \in Nat /\ S.srv.reserved \in Nat
    BY DEF Sound, States, Appenders, Services
  <1>2. ~Under(S) /\ S.a.open /\ ~S.a.error /\ ~S.a.sleeping
    BY <1>1 DEF Under, Control
  <1>3. S.a.wid /\ ~S.a.lost /\ S.a.chunk /\ S.a.space <= S.srv.reserved /\ S.srv.op # "sent"
    BY <1>1, <1>2 DEF Space
  <1>4. PICK m \in Nat : m = S.srv.reserved - S.a.space
    BY <1>1, <1>3
  <1>. DEFINE x == [S.a EXCEPT !.space = 0]
              y == [S.srv EXCEPT !.reserved = m]
  <1>5. x \in Appenders /\ y \in Services
    BY <1>1 DEF Appenders, Services
  <1>6. PICK R : R = Released(S)
    OBVIOUS
  <1>7. R = [a |-> x, srv |-> y]
    <2>1. R = [S EXCEPT !.a.space = 0, !.srv.reserved = m]
      BY <1>4, <1>6, Zenon DEF Released
    <2>. QED  BY <1>1, <2>1, Zenon DEF States
  <1>8. R \in States /\ R.a = x /\ R.srv = y
    BY <1>5, <1>7 DEF States
  <1>9. /\ R.a.first = S.a.first /\ R.a.done = S.a.done /\ R.a.size = S.a.size
        /\ R.a.queue = S.a.queue /\ R.a.space = 0
    BY <1>1, <1>8 DEF Appenders
  <1>10. /\ R.a.error = S.a.error /\ R.a.open = S.a.open /\ R.a.sleeping = S.a.sleeping
         /\ R.a.wid = S.a.wid /\ R.a.chunk = S.a.chunk
    BY <1>1, <1>8 DEF Appenders
  <1>11. /\ R.srv.op = S.srv.op /\ R.srv.first = S.srv.first /\ R.srv.length = S.srv.length
         /\ R.srv.ro = S.srv.ro /\ R.srv.reserved = m
    BY <1>1, <1>8 DEF Services
  <1>. HIDE DEF x, y
  <1>12. SameRecords(S, R)
    BY <1>9, <1>10, <1>11, Zenon DEF SameRecords
  <1>13. PICK M : M = Enqueue(R, "none")
    OBVIOUS
  <1>14. R.a.open /\ ~R.a.error /\ ~R.a.sleeping /\ R.a.wid /\ R.a.chunk
    BY <1>2, <1>3, <1>10, Zenon
  <1>15. R.a.space <= R.srv.reserved /\ R.srv.op # "sent"
    <2>1. 0 <= m
      BY <1>4
    <2>. QED  BY <1>3, <1>9, <1>11, <2>1, Zenon
  <1>16. Ready(M, f, L) /\ M.a.sleeping = R.a.sleeping /\ M.a.error = R.a.error
    BY <1>2, <1>8, <1>9, <1>12, <1>13, <1>14, <1>15, Restarted, Zenon
  <1>17. PICK idle \in BOOLEAN : idle = FALSE
    BY Zenon
  <1>. QED  BY <1>6, <1>13, <1>16, <1>17, StartAppendSound, Zenon

\* The chunk is forgotten after a failed release, or a close.
LEMMA StartedOver ==
  ASSUME NEW S, NEW f, NEW L, Sound(S, f, L), S.a.cur \in {"release", "close"},
         NEW T, T = StartAppend(Reset(S), FALSE)
  PROVE  Sound(T, f, L)
  <1>1. S \in States /\ Control(S)
    BY DEF Sound
  <1>2. ~Under(S) /\ S.a.open /\ ~S.a.error /\ ~S.a.sleeping
    BY <1>1 DEF Under, Control
  <1>3. PICK R : R = Reset(S)
    OBVIOUS
  <1>4. /\ R \in States /\ SameFile(S, R) /\ SameMode(S, R) /\ R.a.lost = S.a.lost
        /\ R.a.cur = "none" /\ R.a.length = 0 /\ ~R.a.chunk /\ ~R.a.wid /\ R.a.space = 0
    BY <1>1, <1>3, ResetFacts, Zenon
  <1>5. SameRecords(S, R) /\ R.a.size = S.a.size /\ R.a.queue = S.a.queue
    BY <1>4, Zenon DEF SameRecords, SameFile, SameMode
  <1>6. R.a.open /\ ~R.a.error /\ ~R.a.sleeping
    BY <1>2, <1>4, Zenon DEF SameMode
  <1>7. Space(R)
    BY <1>4 DEF Space, Under
  <1>8. Ready(R, f, L)
    BY <1>2, <1>4, <1>5, <1>6, <1>7, MadeReady, Zenon
  <1>9. PICK idle \in BOOLEAN : idle = FALSE
    BY Zenon
  <1>. QED  BY <1>3, <1>8, <1>9, StartReady, Zenon

\* Done(SpaceReleaseOp).
LEMMA ReleaseKeeps ==
  ASSUME IInv, NEW ok \in BOOLEAN, SpaceReleaseDone(ok)
  PROVE  IInv'
  <1>1. PICK S : S = State
    OBVIOUS
  <1>2. Sound(S, stored, late) /\ S.a.cur = "release" /\ S.a.cur \in {"release", "close"} /\ a = S.a
    BY <1>1 DEF SpaceReleaseDone, IInv, State
  <1>3. PICK T : T = StartAppend(IF ok THEN Released(S) ELSE Reset(S), FALSE)
    BY Zenon
  <1>4. Apply(T) /\ UNCHANGED <<stored, late>>
    BY <1>1, <1>2, <1>3, Zenon DEF SpaceReleaseDone, Released
  <1>5. Sound(T, stored, late)
    <2>1. CASE ok
      <3>1. T = StartAppend(Released(S), FALSE)
        BY <1>3, <2>1, Zenon
      <3>. QED  BY <1>2, <3>1, ReleasedSound, Zenon
    <2>2. CASE ~ok
      <3>1. T = StartAppend(Reset(S), FALSE)
        BY <1>3, <2>2, Zenon
      <3>. QED  BY <1>2, <3>1, StartedOver, Zenon
    <2>. QED  BY <2>1, <2>2, Zenon
  <1>. QED  BY <1>4, <1>5, QuietlyApplied, Zenon

\* Done(CloseOp), whatever its outcome.
LEMMA CloseDoneKeeps ==
  ASSUME IInv, CloseDone
  PROVE  IInv'
  <1>1. PICK S : S = State
    OBVIOUS
  <1>2. Sound(S, stored, late) /\ S.a.cur \in {"release", "close"}
    BY <1>1 DEF CloseDone, IInv, State
  <1>3. PICK T : T = StartAppend(Reset(S), FALSE)
    BY Zenon
  <1>4. Apply(T) /\ UNCHANGED <<stored, late>>
    BY <1>1, <1>3, Zenon DEF CloseDone
  <1>5. Sound(T, stored, late)
    BY <1>2, <1>3, StartedOver, Zenon
  <1>. QED  BY <1>4, <1>5, QuietlyApplied, Zenon
(* A new write id; the append of the one before is moved to the late ones. *)
Known(S) == [a |-> [S.a EXCEPT !.wid = TRUE, !.lost = FALSE], srv |-> NewWriteId]
Unreserved(x) == [x EXCEPT !.reserved = 0]
Dropping(x, L) == IF x.op \in {"sent", "busy"} THEN L \cup {Unreserved(x)} ELSE L

\* An append of the write id before has no record that is still in the buffer, so
\* that nothing sent from now on has one of its records.
LEMMA KnownFile ==
  ASSUME NEW S, NEW f, NEW L, Sound(S, f, L), ~Under(S), ~S.a.error, NEW M \in States,
         M.srv.op = "none", ~Under(M), M.a.first = S.a.first, M.a.done = S.a.done,
         NEW K, K = Dropping(S.srv, L)
  PROVE  File(M, f, K) /\ Placed(M)
  <1>1. S \in States /\ S.srv \in Services /\ File(S, f, L) /\ Placed(S)
    BY DEF Sound, States
  <1>2. PICK y : y = Unreserved(S.srv)
    OBVIOUS
  <1>3. /\ y \in Services /\ y.op = S.srv.op /\ y.first = S.srv.first /\ y.length = S.srv.length
        /\ y.ro = S.srv.ro
    BY <1>1, <1>2 DEF Unreserved, Services
  <1>4. (Live(y) <=> Live(S.srv)) /\ (\A r : In(r, y) <=> In(r, S.srv)) /\ ~Live(M.srv)
    <2>1. "none" # "busy" /\ "none" # "sent"
      OBVIOUS
    <2>. QED  BY <1>3, <2>1, Zenon DEF Live, In
  <1>5. \A x : (Apart(x, y) <=> Apart(x, S.srv)) /\ (Apart(y, x) <=> Apart(x, S.srv))
    BY <1>4, Zenon DEF Apart
  <1>6. \A x \in K : x \in L \/ (x = y /\ S.srv.op \in {"sent", "busy"})
    BY <1>2 DEF Dropping
  <1>7. \A r \in 1 .. MaxRecords :
          /\ f[r] \in {0, 1}
          /\ r \in M.a.done => f[r] = 1
          /\ ~(r >= M.a.first /\ f[r] = 1)
    BY <1>1, Zenon DEF File
  <1>8. \A r \in M.a.done : r < M.a.first
    BY <1>1, Zenon DEF File
  <1>9. \A x \in K : x \in Services /\ x.op \in {"sent", "busy"}
    BY <1>1, <1>3, <1>6, Zenon DEF File
  <1>10. \A x \in L : Live(x) =>
            /\ x.first + x.length <= S.a.first
            /\ \A r \in 1 .. MaxRecords : In(r, x) => f[r] = 0
            /\ Live(S.srv) => Apart(x, S.srv)
            /\ \A z \in L : Live(z) => x = z \/ Apart(x, z)
    BY <1>1, Zenon DEF File
  <1>11. Live(y) => y.first + y.length <= S.a.first /\ \A r \in 1 .. MaxRecords : In(r, y) => f[r] = 0
    BY <1>1, <1>3, <1>4, Zenon DEF Placed, File
  <1>12. ASSUME NEW x \in K, Live(x)
         PROVE  /\ x.first + x.length <= M.a.first
                /\ \A r \in 1 .. MaxRecords : In(r, x) => f[r] = 0
                /\ \A z \in K : Live(z) => x = z \/ Apart(x, z)
    <2>1. CASE x = y
      <3>1. \A z \in K : Live(z) => x = z \/ Apart(x, z)
        BY <1>4, <1>5, <1>6, <1>10, <1>12, <2>1, Zenon
      <3>. QED  BY <1>11, <1>12, <2>1, <3>1, Zenon
    <2>2. CASE x \in L
      <3>1. \A z \in K : Live(z) => x = z \/ Apart(x, z)
        BY <1>4, <1>5, <1>6, <1>10, <1>12, <2>2, Zenon
      <3>. QED  BY <1>10, <1>12, <2>2, <3>1, Zenon
    <2>. QED  BY <1>6, <1>12, <2>1, <2>2, Zenon
  <1>13. File(M, f, K)
    BY <1>4, <1>7, <1>8, <1>9, <1>12, Zenon DEF File
  <1>14. Placed(M)
    <2>1. "none" # "ok"
      OBVIOUS
    <2>. QED  BY <1>4, <2>1, Zenon DEF Placed
  <1>. QED  BY <1>13, <1>14

\* The write id is known.
LEMMA KnownReady ==
  ASSUME NEW S, NEW f, NEW L, Sound(S, f, L), S.a.cur = "writeid", NEW R, R = Known(S),
         NEW M, M = Enqueue(R, "none"), NEW K, K = Dropping(S.srv, L)
  PROVE  /\ R \in States /\ Ready(M, f, K) /\ M.a.sleeping = R.a.sleeping /\ M.a.error = R.a.error
         /\ M.a.wid /\ ~M.a.lost /\ SameFile(R, M) /\ M.a.closing = R.a.closing /\ M.a.space = R.a.space
  <1>0. PICK t \in BOOLEAN : t = TRUE
    BY Zenon
  <1>1. S \in States /\ S.a \in Appenders /\ Space(S) /\ Control(S) /\ Buffer(S)
    BY DEF Sound, States
  <1>2. ~Under(S) /\ S.a.open /\ ~S.a.error /\ ~S.a.sleeping /\ S.a.chunk /\ S.a.space = 0
    BY <1>1 DEF Under, Control, Space
  <1>. DEFINE x == [S.a EXCEPT !.wid = t, !.lost = FALSE]
  <1>3. x \in Appenders /\ NewWriteId \in Services
    BY <1>1, Zenon DEF Appenders, NewWriteId, Services, Outcomes
  <1>4. R = [a |-> x, srv |-> NewWriteId]
    BY <1>0, Zenon DEF Known
  <1>5. R \in States /\ R.a = x /\ R.srv = NewWriteId
    BY <1>3, <1>4 DEF States
  <1>6. R.srv.op = "none" /\ R.srv.reserved = 0
    BY <1>5 DEF NewWriteId
  <1>7. /\ R.a.first = S.a.first /\ R.a.done = S.a.done /\ R.a.size = S.a.size
        /\ R.a.queue = S.a.queue /\ R.a.space = S.a.space
    BY <1>1, <1>5 DEF Appenders
  <1>8. /\ R.a.error = S.a.error /\ R.a.open = S.a.open /\ R.a.sleeping = S.a.sleeping
        /\ R.a.chunk = S.a.chunk
    BY <1>1, <1>5 DEF Appenders
  <1>9. R.a.wid = t /\ ~R.a.lost
    BY <1>1, <1>5 DEF Appenders
  <1>. HIDE DEF x
  <1>10. "none" \in Curs
    BY DEF Curs
  <1>11. /\ M \in States /\ SameFile(R, M) /\ SameSpace(R, M) /\ SameMode(R, M) /\ M.a.cur = "none"
    BY <1>5, <1>10, EnqueueFacts, Zenon
  <1>12. /\ M.a.first = S.a.first /\ M.a.done = S.a.done /\ M.a.size = S.a.size
         /\ M.a.queue = S.a.queue /\ M.srv.op = "none" /\ M.srv.reserved = 0
    BY <1>6, <1>7, <1>11, Zenon DEF SameFile
  <1>13. M.a.open /\ ~M.a.error /\ ~M.a.sleeping /\ M.a.closing = R.a.closing
    BY <1>2, <1>8, <1>11, Zenon DEF SameMode
  <1>14. M.a.wid /\ ~M.a.lost /\ M.a.chunk /\ M.a.space = 0
    BY <1>0, <1>2, <1>7, <1>8, <1>9, <1>11, Zenon DEF SameSpace
  <1>15. ~Under(M)
    BY <1>11 DEF Under
  <1>16. File(M, f, K) /\ Placed(M)
    BY <1>2, <1>11, <1>12, <1>15, KnownFile, Zenon
  <1>17. Buffer(M)
    BY <1>1, <1>12, <1>15, Zenon DEF Buffer
  <1>18. Space(M)
    <2>1. M.a.cur \notin {"alloc", "writeid"} /\ M.a.cur \notin {"reserve", "append", "release"}
      BY <1>11
    <2>2. M.a.cur # "writeid" /\ M.a.cur # "append"
      BY <1>11
    <2>3. M.a.space <= M.srv.reserved /\ M.srv.op # "sent"
      BY <1>12, <1>14
    <2>. QED  BY <1>13, <1>14, <1>15, <2>1, <2>2, <2>3, Zenon DEF Space
  <1>19. Ready(M, f, K)
    BY <1>11, <1>13, <1>16, <1>17, <1>18, Zenon DEF Ready
  <1>. QED  BY <1>2, <1>5, <1>7, <1>8, <1>11, <1>13, <1>14, <1>19, Zenon DEF SameMode, SameSpace
(* A reservation is sent, and an append is.                                *)
Requested(S, b) == Enqueue([S EXCEPT !.a.ask = b, !.a.noSpace = FALSE], "reserve")
Submitted(S, q, n, m) ==
  Enqueue([S EXCEPT !.a.queue = q, !.a.length = n,
                    !.srv.op = "sent", !.srv.first = m, !.srv.length = n], "append")

\* The fields a reservation sets.
LEMMA RequestedIs ==
  ASSUME NEW G \in States, NEW b, NEW t, t = FALSE
  PROVE  Requested(G, b) = [a |-> [G.a EXCEPT !.ask = b, !.noSpace = t, !.cur = "reserve"], srv |-> G.srv]
  <1>1. Requested(G, b) = Enqueue([G EXCEPT !.a.ask = b, !.a.noSpace = t], "reserve")
    BY Zenon DEF Requested
  <1>. QED  BY <1>1, Zenon DEF Enqueue, States, Appenders

(* The two halves of an append that is sent.                               *)
Sending(x, q, n) == [x EXCEPT !.queue = q, !.length = n, !.cur = "append"]
SentFrom(w, n, m) == [w EXCEPT !.op = "sent", !.first = m, !.length = n]

\* The fields an append sets.
LEMMA SubmittedIs ==
  ASSUME NEW G \in States, NEW q, NEW n, NEW m
  PROVE  Submitted(G, q, n, m) = [a |-> Sending(G.a, q, n), srv |-> SentFrom(G.srv, n, m)]
  <1>. DEFINE u == [G.a EXCEPT !.queue = q, !.length = n]
              v == SentFrom(G.srv, n, m)
  <1>1. PICK H : H = [G EXCEPT !.a.queue = q, !.a.length = n,
                             !.srv.op = "sent", !.srv.first = m, !.srv.length = n]
    OBVIOUS
  <1>2. H = [a |-> u, srv |-> v]
    BY <1>1, Zenon DEF States, Appenders, Services, SentFrom
  <1>3. Submitted(G, q, n, m) = Enqueue(H, "append")
    BY <1>1, Zenon DEF Submitted
  <1>4. [u EXCEPT !.cur = "append"] = Sending(G.a, q, n)
    BY DEF States, Appenders, Sending
  <1>5. Enqueue(H, "append") = [a |-> [u EXCEPT !.cur = "append"], srv |-> v]
    <2>. HIDE DEF u, v
    <2>. QED  BY <1>2 DEF Enqueue
  <1>. QED  BY <1>3, <1>4, <1>5, Zenon

\* What is sent depends on these fields only.
LEMMA SubmittedSame ==
  ASSUME NEW G \in States, NEW H \in States, H.srv = G.srv, NEW q, NEW n, NEW m,
         Sending(H.a, q, n) = Sending(G.a, q, n)
  PROVE  Submitted(H, q, n, m) = Submitted(G, q, n, m)
  <1>1. Submitted(G, q, n, m) = [a |-> Sending(G.a, q, n), srv |-> SentFrom(G.srv, n, m)]
    BY SubmittedIs, Zenon
  <1>2. Submitted(H, q, n, m) = [a |-> Sending(H.a, q, n), srv |-> SentFrom(H.srv, n, m)]
    BY SubmittedIs, Zenon
  <1>. QED  BY <1>1, <1>2, Zenon

\* What is sent does not depend on the operation that is over.
LEMMA SameRequests ==
  ASSUME NEW R \in States, NEW M, M = Enqueue(R, "none")
  PROVE  /\ SpaceNeeded(M) = SpaceNeeded(R) /\ (CanAppend(M) <=> CanAppend(R)) /\ M.a.space = R.a.space
         /\ SendReserve(M) = SendReserve(R) /\ SendAppend(M) = SendAppend(R)
  <1>1. "none" \in Curs
    BY DEF Curs
  <1>2. /\ M \in States /\ SameFile(R, M) /\ SameSpace(R, M) /\ SameMode(R, M)
    BY <1>1, EnqueueFacts, Zenon
  <1>3. /\ M.a.queue = R.a.queue /\ M.a.size = R.a.size /\ M.a.space = R.a.space
        /\ M.a.threshold = R.a.threshold /\ M.a.first = R.a.first /\ M.a.closing = R.a.closing
    BY <1>2, Zenon DEF SameFile, SameSpace, SameMode
  <1>4. SpaceNeeded(M) = SpaceNeeded(R)
    BY <1>3, Zenon DEF SpaceNeeded
  <1>5. CanAppend(M) <=> CanAppend(R)
    BY <1>3, Zenon DEF CanAppend
  <1>10. PICK y \in Appenders : y = R.a
    BY DEF States
  <1>11. PICK z \in Appenders : z = [y EXCEPT !.cur = "none"]
    BY <1>1, Zenon DEF Appenders
  <1>12. M.a = z /\ M.srv = R.srv
    BY <1>10, <1>11 DEF States, Enqueue
  <1>13. PICK t : t = FALSE
    BY Zenon
  <1>6. ASSUME NEW b PROVE Requested(M, b) = Requested(R, b)
    <2>1. [z EXCEPT !.ask = b, !.noSpace = t, !.cur = "reserve"]
            = [y EXCEPT !.ask = b, !.noSpace = t, !.cur = "reserve"]
      BY <1>11, Zenon DEF Appenders
    <2>2. Requested(R, b) = [a |-> [y EXCEPT !.ask = b, !.noSpace = t, !.cur = "reserve"], srv |-> R.srv]
      BY <1>10, <1>13, RequestedIs, Zenon
    <2>3. Requested(M, b) = [a |-> [z EXCEPT !.ask = b, !.noSpace = t, !.cur = "reserve"], srv |-> R.srv]
      <3>1. Requested(M, b) = [a |-> [M.a EXCEPT !.ask = b, !.noSpace = t, !.cur = "reserve"], srv |-> M.srv]
        BY <1>2, <1>13, RequestedIs, Zenon
      <3>. QED  BY <1>12, <3>1, Zenon
    <2>. QED  BY <2>1, <2>2, <2>3, Zenon
  <1>7. ASSUME NEW q, NEW n, NEW i PROVE Submitted(M, q, n, i) = Submitted(R, q, n, i)
    <2>1. Sending(z, q, n) = Sending(y, q, n)
      BY <1>11, Zenon DEF Appenders, Sending
    <2>2. M \in States /\ M.srv = R.srv
      BY <1>2, <1>12, Zenon
    <2>3. Sending(M.a, q, n) = Sending(R.a, q, n)
      BY <1>10, <1>12, <2>1, Zenon
    <2>. QED  BY <2>2, <2>3, SubmittedSame
  <1>8. SendReserve(M) = SendReserve(R)
    <2>. DEFINE least == IF R.a.closing THEN 0 ELSE DefaultSpaceReservationSize
                most  == Max({PreferredAppendSize, DefaultSpaceReservationSize})
                bytes == IF SpaceNeeded(R) <= R.a.space THEN 0
                         ELSE Max({least, SpaceNeeded(R), Min({most, R.a.size})}) - R.a.space
    <2>1. SendReserve(R) = Requested(R, bytes)
      BY Zenon DEF SendReserve, Requested
    <2>2. SendReserve(M) = Requested(M, bytes)
      BY <1>3, <1>4, Zenon DEF SendReserve, Requested
    <2>. QED  BY <1>6, <2>1, <2>2, Zenon
  <1>9. SendAppend(M) = SendAppend(R)
    <2>. DEFINE whole == /\ PreferredAppendSize < R.a.size
                         /\ R.a.size \div 2 < PreferredAppendSize
                         /\ R.a.size - PreferredAppendSize >= R.a.threshold
                limit == Min({R.a.space, IF whole THEN R.a.size ELSE PreferredAppendSize})
                k     == Max({1, Fit(R.a.queue, limit)})
                n     == PrefixSum(R.a.queue, k)
                q     == <<n>> \o SubSeq(R.a.queue, k + 1, Len(R.a.queue))
    <2>1. SendAppend(R) = Submitted(R, q, n, R.a.first)
      BY Zenon DEF SendAppend, Submitted
    <2>2. SendAppend(M) = Submitted(M, q, n, R.a.first)
      BY <1>3, Zenon DEF SendAppend, Submitted
    <2>. QED  BY <1>7, <2>1, <2>2, Zenon
  <1>. QED  BY <1>3, <1>4, <1>5, <1>8, <1>9, Zenon

\* Done(WriteIdAllocOp): reserve or append, or start again when there is nothing to
\* do.
LEMMA KnownSound ==
  ASSUME NEW S, NEW f, NEW L, Sound(S, f, L), S.a.cur = "writeid", NEW R, R = Known(S),
         NEW K, K = Dropping(S.srv, L),
         NEW T, T = IF ReserveSpace(R, FALSE) = R THEN StartAppend(R, FALSE) ELSE ReserveSpace(R, FALSE)
  PROVE  Sound(T, f, K)
  <1>1. PICK M : M = Enqueue(R, "none")
    OBVIOUS
  <1>2. /\ R \in States /\ Ready(M, f, K) /\ M.a.sleeping = R.a.sleeping /\ M.a.error = R.a.error
        /\ M.a.wid /\ ~M.a.lost
    BY <1>1, KnownReady
  <1>3. /\ SpaceNeeded(M) = SpaceNeeded(R) /\ (CanAppend(M) <=> CanAppend(R)) /\ M.a.space = R.a.space
        /\ SendReserve(M) = SendReserve(R) /\ SendAppend(M) = SendAppend(R)
    BY <1>1, <1>2, SameRequests, Zenon
  <1>4. PICK idle \in BOOLEAN : idle = FALSE
    BY Zenon
  <1>5. CASE ReserveSpace(R, FALSE) = R
    <2>1. T = StartAppend(R, idle)
      BY <1>4, <1>5, Zenon
    <2>. QED  BY <1>1, <1>2, <2>1, StartAppendSound, Zenon
  <1>6. CASE ReserveSpace(R, FALSE) # R
    <2>1. T = ReserveSpace(R, idle) /\ ReserveSpace(R, idle) # R
      BY <1>4, <1>6, Zenon
    <2>2. ReserveSpace(R, idle) = ReserveSpace(M, idle)
      <3>1. CASE SpaceNeeded(R) > R.a.space
        BY <1>3, <3>1, Zenon DEF ReserveSpace
      <3>2. CASE ~(SpaceNeeded(R) > R.a.space)
        <4>1. CanAppend(R)
          BY <2>1, <3>2, Zenon DEF ReserveSpace
        <4>. QED  BY <1>3, <3>2, <4>1, Zenon DEF ReserveSpace
      <3>. QED  BY <3>1, <3>2, Zenon
    <2>3. T = ReserveSpace(M, idle)
      BY <2>1, <2>2, Zenon
    <2>. QED  BY <1>2, <2>3, ReadyReserveSpace, Zenon
  <1>. QED  BY <1>5, <1>6, Zenon

\* Done(WriteIdAllocOp), with a write id or with an error.
LEMMA WriteIdKeeps ==
  ASSUME IInv, NEW ok \in BOOLEAN, NEW slow \in BOOLEAN, WriteIdAllocDone(ok, slow)
  PROVE  IInv'
  <1>1. PICK S : S = State
    OBVIOUS
  <1>2. Sound(S, stored, late) /\ S.a.cur = "writeid" /\ S.a.cur \in {"alloc", "writeid", "reserve"}
        /\ a = S.a /\ srv = S.srv /\ stored' = stored /\ stored \in [1 .. MaxRecords -> {0, 1}]
    BY <1>1 DEF WriteIdAllocDone, IInv, State
  <1>3. PICK R : R = Known(S)
    OBVIOUS
  <1>4. CASE ok
    <2>1. PICK T : T = IF ReserveSpace(R, FALSE) = R THEN StartAppend(R, FALSE) ELSE ReserveSpace(R, FALSE)
      BY Zenon
    <2>2. Apply(T)
      BY <1>2, <1>3, <1>4, <2>1, Zenon DEF WriteIdAllocDone, Known
    <2>3. late' = Dropping(S.srv, late)
      BY <1>2, <1>4, Zenon DEF WriteIdAllocDone, Dropping, Unreserved
    <2>4. PICK K : K = Dropping(S.srv, late)
      OBVIOUS
    <2>5. Sound(T, stored, K)
      BY <1>2, <1>3, <2>1, <2>4, KnownSound, Zenon
    <2>6. Sound(T, stored, late)' /\ stored' \in [1 .. MaxRecords -> {0, 1}]
      BY <1>2, <2>3, <2>4, <2>5, Zenon
    <2>. QED  BY <2>2, <2>6, Applied, Zenon
  <1>5. CASE ~ok
    <2>1. PICK T : T = HandleError(S, "failed", slow)
      OBVIOUS
    <2>2. Apply(T) /\ UNCHANGED <<stored, late>>
      BY <1>1, <1>5, <2>1, Zenon DEF WriteIdAllocDone
    <2>3. Sound(T, stored, late)
      BY <1>2, <2>1, FailedSound, Zenon
    <2>. QED  BY <2>2, <2>3, QuietlyApplied, Zenon
  <1>. QED  BY <1>4, <1>5, Zenon
\* An append that can no longer be stored, or is still where it was.
LEMMA OutcomeKept ==
  ASSUME NEW S \in States, NEW R \in States, NEW f, NEW L, File(S, f, L), Placed(S),
         R.srv.first = S.srv.first, R.srv.length = S.srv.length, R.a.first = S.a.first,
         R.a.done = S.a.done, R.a.error = S.a.error, R.a.size = S.a.size, R.a.length = S.a.length,
         Under(R) <=> Under(S), R.srv.op = "ok" <=> S.srv.op = "ok", Live(R.srv) => Live(S.srv)
  PROVE  File(R, f, L) /\ Placed(R)
  <1>1. \A r : In(r, R.srv) <=> In(r, S.srv)
    BY Zenon DEF In
  <1>2. \A x : Apart(x, R.srv) <=> Apart(x, S.srv)
    BY <1>1, Zenon DEF Apart
  <1>3. File(R, f, L)
    BY <1>1, <1>2, Zenon DEF File
  <1>4. Placed(R)
    BY Zenon DEF Placed
  <1>. QED  BY <1>3, <1>4

\* Done(RecordAppendOp) with an answer of the server.
LEMMA RecordAppendKeeps ==
  ASSUME IInv, NEW slow \in BOOLEAN, RecordAppendDone(slow)
  PROVE  IInv'
  <1>1. PICK S : S = State
    OBVIOUS
  <1>2. Sound(S, stored, late) /\ S.a.cur = "append" /\ S.srv.op # "sent" /\ a = S.a /\ srv = S.srv
    BY <1>1 DEF RecordAppendDone, IInv, State
  <1>3. S.a.cur \in {"alloc", "writeid", "reserve", "append"} /\ Space(S) /\ S \in States
    BY <1>2 DEF Sound
  <1>4. Failing(S, stored, late)
    BY <1>2, <1>3, SoundFailing, Zenon
  <1>5. PICK status : status = CASE S.srv.op = "ok" -> "ok"
                                 [] S.srv.op \in {"busy", "bad"} -> "again"
                                 [] OTHER -> "refused"
    OBVIOUS
  <1>6. PICK T : T = AppendCompleted(S, status, FALSE, slow)
    BY Zenon
  <1>7. Apply(T) /\ UNCHANGED <<stored, late>>
    BY <1>1, <1>2, <1>5, <1>6, Zenon DEF RecordAppendDone
  <1>8. CASE S.srv.op = "ok"
    <2>1. status = "ok"
      BY <1>5, <1>8
    <2>2. ~S.a.lost /\ S.a.space - S.a.length <= S.srv.reserved
      BY <1>2, <1>3, <1>8 DEF Space
    <2>3. PICK recovered \in BOOLEAN : recovered = FALSE
      BY Zenon
    <2>4. Sound(T, stored, late)
      BY <1>2, <1>4, <1>6, <1>8, <2>1, <2>2, <2>3, CompletedSound, Zenon
    <2>. QED  BY <1>7, <2>4, QuietlyApplied, Zenon
  <1>9. CASE S.srv.op # "ok"
    <2>1. status # "ok" /\ (status \notin {"again", "cut"} => S.srv.op \notin {"busy", "bad"})
      BY <1>5, <1>9
    <2>2. status \notin {"again", "cut"} => ~Live(S.srv) /\ S.srv.op # "ok"
      BY <1>2, <1>9, <2>1 DEF Live
    <2>3. T = HandleError(S, status, slow)
      BY <1>6, <2>1, Zenon DEF AppendCompleted
    <2>4. Sound(T, stored, late)
      BY <1>4, <2>2, <2>3, HandleErrorSound, Zenon
    <2>. QED  BY <1>7, <2>4, QuietlyApplied, Zenon
  <1>. QED  BY <1>8, <1>9, Zenon

(* The connection breaks under an append.                                  *)
Cut(S, o) == [S EXCEPT !.a.lost = TRUE, !.srv.op = o]

\* What was not sent entirely is not stored.
LEMMA CutFailing ==
  ASSUME NEW S, NEW f, NEW L, Sound(S, f, L), S.a.cur = "append", NEW o \in Outcomes,
         o = S.srv.op \/ (o = "none" /\ S.srv.op = "sent"), NEW R, R = Cut(S, o)
  PROVE  Failing(R, f, L) /\ R.a.cur = "append" /\ R.srv.op = o
  <1>0. PICK t \in BOOLEAN : t = TRUE
    BY Zenon
  <1>1. S \in States /\ S.a \in Appenders /\ S.srv \in Services /\ Space(S) /\ File(S, f, L) /\ Placed(S)
        /\ Buffer(S) /\ S.a.cur \in {"alloc", "writeid", "reserve", "append"} /\ Control(S)
    BY DEF Sound, States
  <1>. DEFINE x == [S.a EXCEPT !.lost = t]
              y == [S.srv EXCEPT !.op = o]
  <1>2. x \in Appenders /\ y \in Services
    BY <1>1 DEF Appenders, Services
  <1>3. R = [a |-> x, srv |-> y]
    <2>1. R = [S EXCEPT !.a.lost = t, !.srv.op = o]
      BY <1>0, Zenon DEF Cut
    <2>. QED  BY <1>1, <2>1, Zenon DEF States
  <1>4. R \in States /\ R.a = x /\ R.srv = y
    BY <1>2, <1>3 DEF States
  <1>5. /\ R.a.first = S.a.first /\ R.a.done = S.a.done /\ R.a.size = S.a.size
        /\ R.a.queue = S.a.queue /\ R.a.space = S.a.space /\ R.a.length = S.a.length
        /\ R.a.cur = S.a.cur
    BY <1>1, <1>4 DEF Appenders
  <1>6. /\ R.a.error = S.a.error /\ R.a.open = S.a.open /\ R.a.sleeping = S.a.sleeping
        /\ R.a.wid = S.a.wid /\ R.a.chunk = S.a.chunk
    BY <1>1, <1>4 DEF Appenders
  <1>7. /\ R.srv.op = o /\ R.srv.first = S.srv.first /\ R.srv.length = S.srv.length
        /\ R.srv.ro = S.srv.ro
    BY <1>1, <1>4 DEF Services
  <1>. HIDE DEF x, y
  <1>8. Under(R) <=> Under(S)
    BY <1>5, Zenon DEF Under
  <1>9. (R.srv.op = "ok" <=> S.srv.op = "ok") /\ (Live(R.srv) => Live(S.srv))
    BY <1>7 DEF Live
  <1>10. File(R, f, L) /\ Placed(R)
    BY <1>1, <1>4, <1>5, <1>6, <1>7, <1>8, <1>9, OutcomeKept, Zenon
  <1>11. Buffer(R)
    BY <1>1, <1>5, <1>8, Zenon DEF Buffer
  <1>12. R.a.open /\ ~R.a.error /\ ~R.a.sleeping
    <2>1. S.a.open /\ ~S.a.error /\ ~S.a.sleeping
      BY <1>1 DEF Control
    <2>. QED  BY <1>6, <2>1, Zenon
  <1>13. /\ ~R.a.wid => R.a.space = 0
         /\ R.a.wid => R.a.chunk
         /\ Under(R) => R.a.length <= R.a.space
    BY <1>1, <1>5, <1>6, <1>8, Zenon DEF Space
  <1>14. R.a.cur \in {"alloc", "writeid", "reserve", "append"} /\ R.a.cur = "append" /\ R.srv.op = o
    BY <1>1, <1>5, <1>7, Zenon
  <1>. QED  BY <1>4, <1>10, <1>11, <1>12, <1>13, <1>14, Zenon DEF Failing

\* The connection breaks under an append, or it times out.
LEMMA CutKeeps ==
  ASSUME IInv, NEW allSent \in BOOLEAN, NEW slow \in BOOLEAN, RecordAppendCut(allSent, slow)
  PROVE  IInv'
  <1>1. PICK S : S = State
    OBVIOUS
  <1>2. /\ Sound(S, stored, late) /\ S.a.cur = "append" /\ (allSent \/ S.srv.op = "sent")
        /\ S.srv.op \in Outcomes
    BY <1>1 DEF RecordAppendCut, IInv, State, Sound, States, Services
  <1>3. PICK o : o = IF allSent THEN S.srv.op ELSE "none"
    OBVIOUS
  <1>4. o \in Outcomes /\ (o = S.srv.op \/ (o = "none" /\ S.srv.op = "sent"))
    BY <1>2, <1>3 DEF Outcomes
  <1>5. PICK R : R = Cut(S, o)
    OBVIOUS
  <1>6. PICK status : status = IF allSent THEN "cut" ELSE "failed"
    OBVIOUS
  <1>7. PICK T : T = HandleError(R, status, slow)
    OBVIOUS
  <1>8. Apply(T) /\ UNCHANGED <<stored, late>>
    BY <1>1, <1>3, <1>5, <1>6, <1>7, Zenon DEF RecordAppendCut, Cut
  <1>9. Failing(R, stored, late) /\ R.a.cur = "append" /\ R.srv.op = o
    BY <1>2, <1>4, <1>5, CutFailing
  <1>10. status \notin {"again", "cut"} => ~Live(R.srv) /\ R.srv.op # "ok"
    BY <1>3, <1>6, <1>9 DEF Live
  <1>11. Sound(T, stored, late)
    BY <1>7, <1>9, <1>10, HandleErrorSound, Zenon
  <1>. QED  BY <1>8, <1>11, QuietlyApplied, Zenon
(* The status of an append is asked for.                                   *)
Inquiring(S, f, L) ==
  /\ S \in States /\ S.a.cur = "status" /\ S.a.open /\ ~S.a.error /\ ~S.a.sleeping
  /\ S.a.wid /\ S.a.chunk /\ S.a.length <= S.a.space
  /\ Buffer(S) /\ Placed(S) /\ File(S, f, L)

\* A recovery that is not asleep.
LEMMA SoundInquiring ==
  ASSUME NEW S, NEW f, NEW L, Sound(S, f, L), S.a.cur = "status", ~S.a.sleeping
  PROVE  Inquiring(S, f, L)
  <1>1. /\ S \in States /\ Buffer(S) /\ Placed(S) /\ File(S, f, L) /\ Space(S) /\ Control(S)
        /\ S.a.length \in Nat /\ S.a.space \in Nat
    BY DEF Sound, States, Appenders
  <1>2. Under(S)
    BY DEF Under
  <1>3. S.a.open /\ ~S.a.error
    BY <1>1 DEF Control
  <1>4. S.a.length <= S.a.space /\ S.a.length >= 1
    <2>1. S.a.length \in 1 .. Head(S.a.queue)
      BY <1>1, <1>2, Zenon DEF Buffer
    <2>. QED  BY <1>1, <1>2, <2>1 DEF Space
  <1>5. S.a.wid /\ S.a.chunk
    BY <1>1, <1>4 DEF Space
  <1>. QED  BY <1>1, <1>3, <1>4, <1>5, Zenon DEF Inquiring

\* An inquiry changes nothing of the append but its chance to be stored.
LEMMA InquiringKept ==
  ASSUME NEW S, NEW f, NEW L, Inquiring(S, f, L), NEW R \in States, SameSpace(S, R), SameMode(S, R),
         R.srv.first = S.srv.first, R.srv.length = S.srv.length, R.a.first = S.a.first,
         R.a.done = S.a.done, R.a.size = S.a.size, R.a.queue = S.a.queue, R.a.length = S.a.length,
         R.srv.op = "ok" <=> S.srv.op = "ok", Live(R.srv) => Live(S.srv),
         NEW c \in {"append", "status"}, R.a.cur = c
  PROVE  /\ R.a.open /\ ~R.a.error /\ ~R.a.sleeping /\ R.a.wid /\ R.a.chunk /\ R.a.length <= R.a.space
         /\ Buffer(R) /\ Placed(R) /\ File(R, f, L)
  <1>1. Under(S) /\ Under(R)
    BY DEF Under, Inquiring
  <1>2. S \in States /\ File(S, f, L) /\ Placed(S) /\ R.a.error = S.a.error
    BY Zenon DEF Inquiring, SameMode
  <1>3. File(R, f, L) /\ Placed(R)
    BY <1>1, <1>2, OutcomeKept, Zenon
  <1>4. Buffer(R)
    BY <1>1, Zenon DEF Buffer, Inquiring
  <1>. QED  BY <1>3, <1>4, Zenon DEF Inquiring, SameSpace, SameMode

(* Back to Done(RecordAppendOp).                                           *)
Returned(S, n) == [S EXCEPT !.a.retry = n, !.a.cur = "append"]

\* The recovered status is handled as the answer to the append would be.
LEMMA ReturnedFailing ==
  ASSUME NEW S, NEW f, NEW L, Inquiring(S, f, L), NEW n \in 0 .. MaxRetryCount,
         NEW R, R = Returned(S, n)
  PROVE  Failing(R, f, L) /\ R.a.cur = "append" /\ R.srv = S.srv
  <1>1. S \in States /\ S.a \in Appenders
    BY DEF Inquiring, States
  <1>. DEFINE x == [S.a EXCEPT !.retry = n, !.cur = "append"]
  <1>2. x \in Appenders
    BY <1>1, Zenon DEF Appenders, Curs
  <1>3. R = [S EXCEPT !.a = x]
    BY <1>1, Zenon DEF States, Returned
  <1>4. R \in States /\ R.a = x /\ R.srv = S.srv
    BY <1>1, <1>2, <1>3 DEF States
  <1>5. /\ R.a.first = S.a.first /\ R.a.done = S.a.done /\ R.a.size = S.a.size
        /\ R.a.queue = S.a.queue /\ R.a.length = S.a.length /\ R.a.cur = "append"
    BY <1>1, <1>4 DEF Appenders
  <1>6. /\ R.a.chunk = S.a.chunk /\ R.a.wid = S.a.wid /\ R.a.lost = S.a.lost /\ R.a.space = S.a.space
        /\ R.a.open = S.a.open /\ R.a.closing = S.a.closing /\ R.a.error = S.a.error
        /\ R.a.sleeping = S.a.sleeping
    BY <1>1, <1>4 DEF Appenders
  <1>. HIDE DEF x
  <1>7. SameSpace(S, R) /\ SameMode(S, R)
    BY <1>6, Zenon DEF SameSpace, SameMode
  <1>8. PICK c \in {"append", "status"} : c = "append"
    OBVIOUS
  <1>9. R.srv.first = S.srv.first /\ R.srv.length = S.srv.length /\ R.a.cur = c
        /\ (R.srv.op = "ok" <=> S.srv.op = "ok") /\ (Live(R.srv) => Live(S.srv))
    BY <1>4, <1>5, <1>8, Zenon
  <1>10. /\ R.a.open /\ ~R.a.error /\ ~R.a.sleeping /\ R.a.wid /\ R.a.chunk /\ R.a.length <= R.a.space
         /\ Buffer(R) /\ Placed(R) /\ File(R, f, L)
    BY <1>4, <1>5, <1>7, <1>9, InquiringKept, Zenon
  <1>11. R.a.cur \in {"alloc", "writeid", "reserve", "append"}
    BY <1>5
  <1>. QED  BY <1>4, <1>5, <1>10, <1>11, Zenon DEF Failing

(* The next server of the chain.                                           *)
Further(S, i) == [S EXCEPT !.a.index = i]

\* The next server is asked, or another round begins, until the retries are used up.
LEMMA NextServerSound ==
  ASSUME NEW S, NEW f, NEW L, Inquiring(S, f, L), NEW slow \in BOOLEAN, NEW T, T = NextServer(S, slow)
  PROVE  Sound(T, f, L)
  <1>1. S \in States /\ S.a \in Appenders /\ S.a.index \in 1 .. NumServers /\ S.a.retry \in 0 .. MaxRetryCount
        /\ S.a.cur = "status"
    BY DEF Inquiring, States, Appenders
  <1>2. CASE S.a.index < NumServers
    <2>1. PICK i \in 1 .. NumServers : i = S.a.index + 1
      BY <1>1, <1>2, AppenderAssumption
    <2>. DEFINE x == [S.a EXCEPT !.index = i]
    <2>2. x \in Appenders
      BY <1>1 DEF Appenders
    <2>3. T = [S EXCEPT !.a = x]
      <3>1. T = Enqueue(Further(S, i), "status")
        BY <1>2, <2>1, Zenon DEF NextServer, GetLastRecordAppendOpStatus, Further
      <3>2. Further(S, i) = [S EXCEPT !.a = x]
        BY <1>1 DEF Further, States
      <3>3. [x EXCEPT !.cur = "status"] = x
        BY <1>1, Zenon DEF Appenders
      <3>4. PICK U \in States : U = [S EXCEPT !.a = x]
        BY <1>1, <2>2, Zenon DEF States
      <3>5. U.a = x
        BY <1>1, <3>4 DEF States
      <3>. HIDE DEF x
      <3>6. Enqueue(U, "status") = U
        BY <3>3, <3>5 DEF Enqueue, States
      <3>. QED  BY <3>1, <3>2, <3>4, <3>6, Zenon
    <2>4. T \in States /\ T.a = x /\ T.srv = S.srv
      BY <1>1, <2>2, <2>3 DEF States
    <2>5. /\ T.a.first = S.a.first /\ T.a.done = S.a.done /\ T.a.size = S.a.size
          /\ T.a.queue = S.a.queue /\ T.a.length = S.a.length /\ T.a.cur = "status"
      BY <1>1, <2>4 DEF Appenders
    <2>6. /\ T.a.chunk = S.a.chunk /\ T.a.wid = S.a.wid /\ T.a.lost = S.a.lost /\ T.a.space = S.a.space
          /\ T.a.open = S.a.open /\ T.a.closing = S.a.closing /\ T.a.error = S.a.error
          /\ T.a.sleeping = S.a.sleeping
      BY <1>1, <2>4 DEF Appenders
    <2>. HIDE DEF x
    <2>7. SameSpace(S, T) /\ SameMode(S, T)
      BY <2>6, Zenon DEF SameSpace, SameMode
    <2>8. PICK c \in {"append", "status"} : c = "status"
      OBVIOUS
    <2>9. T.srv.first = S.srv.first /\ T.srv.length = S.srv.length /\ T.a.cur = c
          /\ (T.srv.op = "ok" <=> S.srv.op = "ok") /\ (Live(T.srv) => Live(S.srv))
      BY <2>4, <2>5, <2>8, Zenon
    <2>10. /\ T.a.open /\ ~T.a.error /\ ~T.a.sleeping /\ T.a.wid /\ T.a.chunk /\ T.a.length <= T.a.space
           /\ Buffer(T) /\ Placed(T) /\ File(T, f, L)
      BY <2>4, <2>5, <2>7, <2>9, InquiringKept, Zenon
    <2>11. Under(T) /\ Control(T) /\ Driven(T)
      BY <2>5, <2>10, Zenon DEF Under, Control, Driven
    <2>12. Space(T)
      BY <2>5, <2>10, <2>11, Zenon DEF Space
    <2>. QED  BY <2>4, <2>10, <2>11, <2>12, Zenon DEF Sound
  <1>3. CASE ~(S.a.index < NumServers)
    <2>1. PICK R : R = Returned(S, S.a.retry)
      OBVIOUS
    <2>2. R = [S EXCEPT !.a.cur = "append"]
      <3>1. [S.a EXCEPT !.retry = S.a.retry, !.cur = "append"] = [S.a EXCEPT !.cur = "append"]
        BY <1>1, Zenon DEF Appenders
      <3>. QED  BY <1>1, <2>1, <3>1, Zenon DEF Returned, States
    <2>3. PICK status : status = "again"
      OBVIOUS
    <2>4. T = HandleError(R, status, slow)
      <3>1. T = AppendCompleted(R, status, TRUE, slow) /\ status # "ok"
        BY <1>3, <2>2, <2>3, Zenon DEF NextServer
      <3>. QED  BY <3>1, Zenon DEF AppendCompleted
    <2>5. Failing(R, f, L)
      BY <1>1, <2>1, ReturnedFailing, Zenon
    <2>6. status \in {"again", "cut"}
      BY <2>3
    <2>. QED  BY <2>4, <2>5, <2>6, HandleErrorSound, Zenon
  <1>. QED  BY <1>2, <1>3, Zenon
\* Done(GetRecordAppendOpStatusOp) with an error.
LEMMA StatusFailedKeeps ==
  ASSUME IInv, NEW slow \in BOOLEAN, StatusFailed(slow)
  PROVE  IInv'
  <1>1. PICK S : S = State
    OBVIOUS
  <1>2. Sound(S, stored, late) /\ S.a.cur = "status" /\ ~S.a.sleeping
    BY <1>1 DEF StatusFailed, IInv, State
  <1>3. PICK T : T = NextServer(S, slow)
    OBVIOUS
  <1>4. Apply(T) /\ UNCHANGED <<stored, late>>
    BY <1>1, <1>3, Zenon DEF StatusFailed
  <1>5. Inquiring(S, stored, late)
    BY <1>2, SoundInquiring, Zenon
  <1>6. Sound(T, stored, late)
    BY <1>3, <1>5, NextServerSound, Zenon
  <1>. QED  BY <1>4, <1>6, QuietlyApplied, Zenon

(* GetOpStatus at the server: the write id is read only from now on.       *)
Answered(S, o) == [S EXCEPT !.srv.ro = TRUE, !.srv.reserved = 0, !.srv.op = o]

\* An append that had not arrived will not be accepted any more.
LEMMA AnsweredInquiring ==
  ASSUME NEW S, NEW f, NEW L, Inquiring(S, f, L), NEW o \in Outcomes,
         o = S.srv.op \/ (o = "bad" /\ S.srv.op = "busy"), NEW R, R = Answered(S, o)
  PROVE  Inquiring(R, f, L) /\ R.srv.ro /\ R.srv.op = o /\ R.a = S.a
  <1>0. PICK t \in BOOLEAN : t = TRUE
    BY Zenon
  <1>1. S \in States /\ S.a \in Appenders /\ S.srv \in Services /\ S.a.cur = "status"
    BY DEF Inquiring, States
  <1>. DEFINE y == [S.srv EXCEPT !.ro = t, !.reserved = 0, !.op = o]
  <1>2. y \in Services
    BY <1>1, Zenon DEF Services
  <1>3. R = [S EXCEPT !.srv = y]
    <2>1. R = [S EXCEPT !.srv.ro = t, !.srv.reserved = 0, !.srv.op = o]
      BY <1>0, Zenon DEF Answered
    <2>. QED  BY <1>1, <2>1, Zenon DEF States
  <1>4. R \in States /\ R.a = S.a /\ R.srv = y
    BY <1>1, <1>2, <1>3 DEF States
  <1>5. R.srv.op = o /\ R.srv.first = S.srv.first /\ R.srv.length = S.srv.length
    BY <1>1, <1>4 DEF Services
  <1>6. R.srv.ro = t
    BY <1>1, <1>4 DEF Services
  <1>. HIDE DEF y
  <1>7. R.srv.ro
    BY <1>0, <1>6, Zenon
  <1>8. (R.srv.op = "ok" <=> S.srv.op = "ok") /\ (Live(R.srv) => Live(S.srv))
    BY <1>5, <1>7 DEF Live
  <1>9. SameSpace(S, R) /\ SameMode(S, R)
    BY <1>4, Zenon DEF SameSpace, SameMode
  <1>10. PICK c \in {"append", "status"} : c = "status"
    OBVIOUS
  <1>11. /\ R.a.first = S.a.first /\ R.a.done = S.a.done /\ R.a.size = S.a.size
         /\ R.a.queue = S.a.queue /\ R.a.length = S.a.length /\ R.a.cur = c
    BY <1>1, <1>4, <1>10, Zenon
  <1>12. /\ R.a.open /\ ~R.a.error /\ ~R.a.sleeping /\ R.a.wid /\ R.a.chunk /\ R.a.length <= R.a.space
         /\ Buffer(R) /\ Placed(R) /\ File(R, f, L)
    BY <1>4, <1>5, <1>8, <1>9, <1>11, InquiringKept, Zenon
  <1>. QED  BY <1>4, <1>5, <1>7, <1>10, <1>11, <1>12, Zenon DEF Inquiring

\* The answer is used: a success is stored, and one that is reported failed is not
\* and will not be.
LEMMA AnswerUsed ==
  ASSUME NEW R, NEW f, NEW L, Inquiring(R, f, L), NEW status, NEW slow \in BOOLEAN,
         NEW n \in 0 .. MaxRetryCount, NEW V, V = Returned(R, n),
         status = "ok" => R.srv.op = "ok",
         status \notin {"ok", "again"} => ~Live(R.srv) /\ R.srv.op # "ok",
         NEW T, T = AppendCompleted(V, status, TRUE, slow)
  PROVE  Sound(T, f, L)
  <1>1. Failing(V, f, L) /\ V.a.cur = "append" /\ V.srv = R.srv
    BY ReturnedFailing, Zenon
  <1>2. CASE status = "ok"
    <2>1. PICK recovered \in BOOLEAN : recovered = TRUE
      BY Zenon
    <2>2. T = AppendCompleted(V, "ok", recovered, slow) /\ V.srv.op = "ok" /\ recovered
      BY <1>1, <1>2, <2>1, Zenon
    <2>. QED  BY <1>1, <2>2, CompletedSound, Zenon
  <1>3. CASE status # "ok"
    <2>1. T = HandleError(V, status, slow)
      BY <1>3, Zenon DEF AppendCompleted
    <2>2. status \notin {"again", "cut"} => ~Live(V.srv) /\ V.srv.op # "ok"
      BY <1>1, <1>3, Zenon
    <2>. QED  BY <1>1, <2>1, <2>2, HandleErrorSound, Zenon
  <1>. QED  BY <1>2, <1>3, Zenon

\* Done(GetRecordAppendOpStatusOp) with each answer a server may give.
LEMMA GetStatusKeeps ==
  ASSUME IInv, NEW answer \in {"ok", "bad", "again", "before"}, NEW slow \in BOOLEAN,
         GetStatusDone(answer, slow)
  PROVE  IInv'
  <1>1. PICK S : S = State
    OBVIOUS
  <1>2. /\ Sound(S, stored, late) /\ S.a.cur = "status" /\ ~S.a.sleeping /\ a = S.a /\ srv = S.srv
        /\ answer \in StatusAnswers
    BY <1>1 DEF GetStatusDone, IInv, State
  <1>3. Inquiring(S, stored, late)
    BY <1>2, SoundInquiring, Zenon
  <1>4. S.srv.op \in Outcomes /\ S.a.retry \in 0 .. MaxRetryCount /\ S \in States
    BY <1>3 DEF Inquiring, States, Services, Appenders
  <1>5. PICK o : o = IF S.srv.op = "busy" /\ answer = "before" THEN "bad" ELSE S.srv.op
    OBVIOUS
  <1>6. o \in Outcomes /\ (o = S.srv.op \/ (o = "bad" /\ S.srv.op = "busy"))
    BY <1>4, <1>5, Zenon DEF Outcomes
  <1>7. PICK R : R = Answered(S, o)
    OBVIOUS
  <1>8. Inquiring(R, stored, late) /\ R.srv.ro /\ R.srv.op = o /\ R.a = S.a
    BY <1>3, <1>6, <1>7, AnsweredInquiring
  <1>9. PICK status : status = IF answer = "before" THEN "bad" ELSE answer
    OBVIOUS
  <1>10. PICK n : n = IF status # "again" /\ R.a.retry = MaxRetryCount /\ R.a.retry > 0
                     THEN R.a.retry - 1 ELSE R.a.retry
    OBVIOUS
  <1>11. n \in 0 .. MaxRetryCount
    BY <1>4, <1>8, <1>10, AppenderAssumption
  <1>12. PICK V : V = Returned(R, n)
    OBVIOUS
  <1>13. PICK T : T = IF status = "again" /\ S.a.retry > 1 /\ S.a.index < NumServers
                      THEN NextServer(R, slow) ELSE AppendCompleted(V, status, TRUE, slow)
    BY Zenon
  <1>14. R = GetOpStatus(State, answer)
    BY <1>1, <1>4, <1>5, <1>7 DEF Answered, GetOpStatus, States, Services
  <1>15. V = [R EXCEPT !.a.retry = IF status # "again" /\ @ = MaxRetryCount /\ @ > 0
                                   THEN @ - 1 ELSE @, !.a.cur = "append"]
    BY <1>10, <1>12, Zenon DEF Returned
  <1>16. Apply(T) /\ UNCHANGED <<stored, late>>
    BY <1>2, <1>9, <1>13, <1>14, <1>15, Zenon DEF GetStatusDone
  <1>17. /\ status = "ok" => R.srv.op = "ok"
         /\ status \notin {"ok", "again"} => ~Live(R.srv) /\ R.srv.op # "ok"
    <2>1. /\ answer = "ok" => S.srv.op = "ok"
          /\ answer = "bad" => S.srv.op = "bad"
          /\ answer = "before" => S.srv.op # "ok"
      BY <1>2, <1>4 DEF StatusAnswers, Outcomes
    <2>2. status = "ok" => answer = "ok" /\ o = S.srv.op
      BY <1>5, <1>9
    <2>3. status \notin {"ok", "again"} => answer \in {"bad", "before"}
      BY <1>9
    <2>4. answer \in {"bad", "before"} => o # "busy" /\ o # "ok"
      BY <1>5, <2>1
    <2>5. o # "busy" => ~Live(R.srv)
      BY <1>8, Zenon DEF Live
    <2>. QED  BY <1>8, <2>1, <2>2, <2>3, <2>4, <2>5, Zenon
  <1>18. Sound(T, stored, late)
    <2>1. CASE T = NextServer(R, slow)
      BY <1>8, <2>1, NextServerSound, Zenon
    <2>2. CASE T = AppendCompleted(V, status, TRUE, slow)
      BY <1>8, <1>11, <1>12, <1>17, <2>2, AnswerUsed, Zenon
    <2>. QED  BY <1>13, <2>1, <2>2, Zenon
  <1>. QED  BY <1>16, <1>18, QuietlyApplied, Zenon
(* The file after append x, and what makes it one more copy of nothing.    *)
StoredIn(f, x) ==
  [r \in DOMAIN f |-> IF r \in x.first .. x.first + x.length - 1 THEN f[r] + 1 ELSE f[r]]

Fresh(f, x) == \A r \in 1 .. MaxRecords : In(r, x) => f[r] = 0
Adds(g, f, x) ==
  /\ g \in [1 .. MaxRecords -> {0, 1}]
  /\ \A r \in 1 .. MaxRecords : g[r] = IF In(r, x) THEN 1 ELSE f[r]

\* Records that are not in the file are in it once.
LEMMA StoredFacts ==
  ASSUME NEW f \in [1 .. MaxRecords -> {0, 1}], NEW x \in Services, Fresh(f, x)
  PROVE  Adds(StoredIn(f, x), f, x)
  <1>0. PICK g : g = StoredIn(f, x)
    OBVIOUS
  <1>1. x.first \in Nat /\ x.length \in Nat /\ MaxRecords \in Nat
    BY AppenderAssumption DEF Services
  <1>2. \A r \in 1 .. MaxRecords : r \in x.first .. x.first + x.length - 1 <=> In(r, x)
    BY <1>1 DEF In
  <1>3. g = [r \in 1 .. MaxRecords |-> IF r \in x.first .. x.first + x.length - 1 THEN f[r] + 1 ELSE f[r]]
    BY <1>0 DEF StoredIn
  <1>4. \A r \in 1 .. MaxRecords : g[r] = IF In(r, x) THEN f[r] + 1 ELSE f[r]
    BY <1>2, <1>3
  <1>5. \A r \in 1 .. MaxRecords : g[r] = IF In(r, x) THEN 1 ELSE f[r]
    BY <1>4 DEF Fresh
  <1>6. \A r \in 1 .. MaxRecords : g[r] \in {0, 1}
    BY <1>5
  <1>7. g \in [1 .. MaxRecords -> {0, 1}]
    BY <1>3, <1>6
  <1>. QED  BY <1>0, <1>5, <1>7, Zenon DEF Adds

\* A step of the servers is not seen by the appender.
LEMMA ServedSound ==
  ASSUME NEW S, NEW f, NEW L, Sound(S, f, L), NEW R \in States, R.a = S.a, NEW g, NEW K,
         Space(R), Placed(R), File(R, g, K)
  PROVE  Sound(R, g, K)
  <1>1. Buffer(R) /\ Control(R) /\ Driven(R)
    BY Zenon DEF Sound, Buffer, Control, Driven, CanAppend, Under
  <1>. QED  BY <1>1, Zenon DEF Sound

(* The service takes an append, or settles it.                             *)
Serving(S, o, n) == [a |-> S.a, srv |-> [S.srv EXCEPT !.op = o, !.reserved = n]]

\* The fields the service changes.
LEMMA ServingFacts ==
  ASSUME NEW S \in States, NEW o \in Outcomes, NEW n \in Nat, NEW R, R = Serving(S, o, n)
  PROVE  /\ R \in States /\ R.a = S.a /\ R.srv.op = o /\ R.srv.reserved = n
         /\ R.srv.first = S.srv.first /\ R.srv.length = S.srv.length /\ R.srv.ro = S.srv.ro
  <1>1. S.a \in Appenders /\ S.srv \in Services
    BY DEF States
  <1>. DEFINE y == [S.srv EXCEPT !.op = o, !.reserved = n]
  <1>2. y \in Services
    BY <1>1, Zenon DEF Services
  <1>3. R = [a |-> S.a, srv |-> y]
    BY Zenon DEF Serving
  <1>4. R \in States /\ R.a = S.a /\ R.srv = y
    BY <1>1, <1>2, <1>3 DEF States
  <1>5. /\ y.op = o /\ y.reserved = n /\ y.first = S.srv.first /\ y.length = S.srv.length
        /\ y.ro = S.srv.ro
    BY <1>1 DEF Services
  <1>. HIDE DEF y
  <1>. QED  BY <1>4, <1>5, Zenon

\* The append is accepted, refused or fails.
LEMMA ServedQuietly ==
  ASSUME NEW S, NEW f, NEW L, Sound(S, f, L), NEW o \in Outcomes, NEW n \in Nat,
         NEW R, R = Serving(S, o, n), Space(R), o # "ok", S.srv.op # "ok",
         Live(R.srv) => Live(S.srv)
  PROVE  Sound(R, f, L)
  <1>1. S \in States /\ File(S, f, L) /\ Placed(S)
    BY Zenon DEF Sound
  <1>2. /\ R \in States /\ R.a = S.a /\ R.srv.op = o
        /\ R.srv.first = S.srv.first /\ R.srv.length = S.srv.length
    BY <1>1, ServingFacts
  <1>3. /\ R.a.first = S.a.first /\ R.a.done = S.a.done /\ R.a.error = S.a.error
        /\ R.a.size = S.a.size /\ R.a.length = S.a.length /\ (Under(R) <=> Under(S))
        /\ (R.srv.op = "ok" <=> S.srv.op = "ok")
    BY <1>2, Zenon DEF Under
  <1>4. File(R, f, L) /\ Placed(R)
    BY <1>1, <1>2, <1>3, OutcomeKept, Zenon
  <1>. QED  BY <1>2, <1>4, ServedSound, Zenon

\* The append arrives (AppendBegin).
LEMMA ArrivesKeeps ==
  ASSUME IInv, AppendArrives
  PROVE  IInv'
  <1>1. PICK S : S = State
    OBVIOUS
  <1>2. /\ Sound(S, stored, late) /\ S.srv.op = "sent" /\ a = S.a /\ srv = S.srv
        /\ UNCHANGED <<a, stored, late>>
    BY <1>1 DEF AppendArrives, IInv, State
  <1>3. /\ S \in States /\ S.srv \in Services /\ S.srv.reserved \in Nat /\ S.srv.length \in Nat
        /\ S.a.space \in Nat /\ S.a.length \in Nat /\ Space(S) /\ Placed(S)
    BY <1>2 DEF Sound, States, Services, Appenders
  <1>4. CASE ~S.srv.ro /\ S.srv.length <= S.srv.reserved
             /\ srv' = [S.srv EXCEPT !.op = "busy", !.reserved = @ - S.srv.length]
    <2>1. PICK n \in Nat : n = S.srv.reserved - S.srv.length
      BY <1>3, <1>4
    <2>2. PICK o \in Outcomes : o = "busy"
      BY DEF Outcomes
    <2>3. PICK R : R = Serving(S, o, n)
      OBVIOUS
    <2>4. /\ R \in States /\ R.a = S.a /\ R.srv.op = o /\ R.srv.reserved = n
          /\ R.srv.first = S.srv.first /\ R.srv.length = S.srv.length /\ R.srv.ro = S.srv.ro
      <3>1. S \in States
        BY <1>3, Zenon
      <3>. QED  BY <2>3, <3>1, ServingFacts
    <2>5. Apply(R)
      <3>1. srv' = [S.srv EXCEPT !.op = o, !.reserved = n]
        BY <1>4, <2>1, <2>2, Zenon
      <3>2. R.srv = [S.srv EXCEPT !.op = o, !.reserved = n]
        BY <2>3 DEF Serving
      <3>. QED  BY <1>2, <2>4, <3>1, <3>2, Zenon DEF Apply
    <2>6. Space(R)
      <3>1. S.a.cur = "append" => S.srv.length = S.a.length /\ S.a.space <= S.srv.reserved
        BY <1>2, <1>3, Zenon DEF Space, Placed, Under
      <3>2. S.a.cur = "append" => R.a.space - R.a.length <= R.srv.reserved
        BY <1>3, <2>1, <2>4, <3>1
      <3>3. R.srv.op \in {"busy", "ok", "bad"} /\ (Under(R) <=> Under(S))
        BY <2>2, <2>4 DEF Under
      <3>4. ~(S.a.wid /\ ~S.a.lost /\ ~Under(S) /\ ~S.a.error)
        BY <1>2, <1>3, Zenon DEF Space
      <3>. QED  BY <1>3, <2>4, <3>2, <3>3, <3>4, Zenon DEF Space
    <2>7. o # "ok" /\ S.srv.op # "ok" /\ (Live(R.srv) => Live(S.srv))
      BY <1>2, <1>4, <2>2 DEF Live
    <2>8. Sound(R, stored, late)
      BY <1>2, <2>3, <2>6, <2>7, ServedQuietly, Zenon
    <2>. QED  BY <1>2, <2>5, <2>8, QuietlyApplied, Zenon
  <1>5. CASE srv' = [S.srv EXCEPT !.op = "refused"]
    <2>1. PICK n \in Nat : n = S.srv.reserved
      BY <1>3, Zenon
    <2>2. PICK o \in Outcomes : o = "refused"
      BY DEF Outcomes
    <2>3. PICK R : R = Serving(S, o, n)
      OBVIOUS
    <2>4. /\ R \in States /\ R.a = S.a /\ R.srv.op = o /\ R.srv.reserved = n
          /\ R.srv.first = S.srv.first /\ R.srv.length = S.srv.length /\ R.srv.ro = S.srv.ro
      <3>1. S \in States
        BY <1>3, Zenon
      <3>. QED  BY <2>3, <3>1, ServingFacts
    <2>5. Apply(R)
      <3>1. srv' = [S.srv EXCEPT !.op = o]
        BY <1>5, <2>2, Zenon
      <3>2. R.srv = [S.srv EXCEPT !.op = o, !.reserved = n]
        BY <2>3 DEF Serving
      <3>3. [S.srv EXCEPT !.op = o, !.reserved = n] = [S.srv EXCEPT !.op = o]
        BY <1>3, <2>1, Zenon DEF Services
      <3>. QED  BY <1>2, <2>4, <3>1, <3>2, <3>3, Zenon DEF Apply
    <2>6. Space(R)
      <3>1. S.a.cur = "append" => S.a.space <= S.srv.reserved
        BY <1>2, <1>3 DEF Space
      <3>2. R.srv.op \notin {"busy", "ok", "bad"} /\ (Under(R) <=> Under(S))
        BY <2>2, <2>4 DEF Under
      <3>3. ~(S.a.wid /\ ~S.a.lost /\ ~Under(S) /\ ~S.a.error)
        BY <1>2, <1>3, Zenon DEF Space
      <3>. QED  BY <1>3, <2>1, <2>4, <3>1, <3>2, <3>3, Zenon DEF Space
    <2>7. o # "ok" /\ S.srv.op # "ok" /\ (Live(R.srv) => Live(S.srv))
      BY <1>2, <2>2, <2>4 DEF Live
    <2>8. Sound(R, stored, late)
      BY <1>2, <2>3, <2>6, <2>7, ServedQuietly
    <2>. QED  BY <1>2, <2>5, <2>8, QuietlyApplied, Zenon
  <1>. QED  BY <1>2, <1>4, <1>5, Zenon DEF AppendArrives
\* The append under way, or the last one of an appender that gave up, is stored.
LEMMA SettledFile ==
  ASSUME NEW S, NEW L, NEW f \in [1 .. MaxRecords -> {0, 1}], Sound(S, f, L), S.srv.op = "busy",
         NEW R \in States, R.a = S.a, R.srv.op = "ok",
         R.srv.first = S.srv.first, R.srv.length = S.srv.length, NEW g, g = StoredIn(f, S.srv)
  PROVE  g \in [1 .. MaxRecords -> {0, 1}] /\ File(R, g, L) /\ Placed(R)
  <1>1. S \in States /\ S.srv \in Services /\ File(S, f, L) /\ Placed(S) /\ S.a.first \in Nat
    BY DEF Sound, States, Appenders
  <1>2. Live(S.srv) /\ ~Live(R.srv)
    BY DEF Live
  <1>3. \A r : In(r, R.srv) <=> In(r, S.srv)
    BY Zenon DEF In
  <1>4. \A r \in 1 .. MaxRecords : In(r, S.srv) => f[r] = 0
    BY <1>1, <1>2, Zenon DEF File
  <1>5. /\ g \in [1 .. MaxRecords -> {0, 1}]
        /\ \A r \in 1 .. MaxRecords : g[r] = IF In(r, S.srv) THEN 1 ELSE f[r]
    <2>1. PICK x \in Services : x = S.srv
      BY <1>1, Zenon
    <2>2. Fresh(f, x) /\ g = StoredIn(f, x)
      BY <1>4, <2>1, Zenon DEF Fresh
    <2>3. Adds(g, f, x)
      BY <2>2, StoredFacts, Zenon
    <2>. QED  BY <2>1, <2>3, Zenon DEF Adds
  <1>6. Under(R) <=> Under(S)
    BY Zenon DEF Under
  <1>7. Placed(R)
    BY <1>1, <1>2, <1>6, Zenon DEF Placed
  <1>8. ASSUME NEW r \in 1 .. MaxRecords
        PROVE  /\ g[r] \in {0, 1}
               /\ r \in R.a.done => g[r] = 1
               /\ r >= R.a.first /\ g[r] = 1 => (Under(R) \/ R.a.error) /\ In(r, R.srv)
               /\ In(r, R.srv) => g[r] = 1
    <2>0. 0 # 1 /\ S.srv.op # "ok"
      OBVIOUS
    <2>1. CASE In(r, S.srv)
      <3>1. g[r] = 1
        BY <1>5, <2>1, Zenon
      <3>2. r >= S.a.first => Under(S) \/ S.a.error
        <4>1. /\ S.srv.first \in Nat /\ S.srv.length \in Nat /\ r \in Int
          BY <1>1 DEF Services
        <4>2. r < S.srv.first + S.srv.length
          BY <2>1, Zenon DEF In
        <4>3. ~(Under(S) \/ S.a.error) => S.srv.first + S.srv.length <= S.a.first
          BY <1>1, <1>2, Zenon DEF Placed
        <4>. QED  BY <1>1, <4>1, <4>2, <4>3
      <3>3. g[r] \in {0, 1}
        BY <3>1
      <3>. QED  BY <1>3, <1>6, <2>1, <3>1, <3>2, <3>3, Zenon
    <2>2. CASE ~In(r, S.srv)
      <3>1. g[r] = f[r]
        BY <1>5, <2>2, Zenon
      <3>. QED  BY <1>1, <1>3, <2>0, <2>2, <3>1, Zenon DEF File
    <2>. QED  BY <2>1, <2>2, Zenon
  <1>9. ASSUME NEW x \in L, Live(x)
        PROVE  /\ x.first + x.length <= R.a.first
               /\ \A r \in 1 .. MaxRecords : In(r, x) => g[r] = 0
               /\ \A y \in L : Live(y) => x = y \/ Apart(x, y)
    <2>1. /\ x.first + x.length <= S.a.first
          /\ \A r \in 1 .. MaxRecords : In(r, x) => f[r] = 0
          /\ Apart(x, S.srv)
          /\ \A y \in L : Live(y) => x = y \/ Apart(x, y)
      BY <1>1, <1>2, <1>9, Zenon DEF File
    <2>2. \A r \in 1 .. MaxRecords : r \in Nat
      BY AppenderAssumption
    <2>3. \A r \in 1 .. MaxRecords : In(r, x) => ~In(r, S.srv)
      BY <2>1, <2>2, Zenon DEF Apart
    <2>. QED  BY <1>5, <2>1, <2>3, Zenon
  <1>10. (\A r \in R.a.done : r < R.a.first) /\ \A x \in L : x \in Services /\ x.op \in {"sent", "busy"}
    BY <1>1, Zenon DEF File
  <1>11. File(R, g, L)
    BY <1>2, <1>8, <1>9, <1>10, Zenon DEF File
  <1>. QED  BY <1>5, <1>7, <1>11, Zenon

\* The append is committed, or fails.
LEMMA SettlesKeeps ==
  ASSUME IInv, AppendSettles
  PROVE  IInv'
  <1>1. PICK S : S = State
    OBVIOUS
  <1>2. /\ Sound(S, stored, late) /\ S.srv.op = "busy" /\ a = S.a /\ srv = S.srv
        /\ UNCHANGED <<a, late>> /\ stored \in [1 .. MaxRecords -> {0, 1}]
    BY <1>1 DEF AppendSettles, IInv, State
  <1>3. S \in States /\ S.srv \in Services /\ S.srv.reserved \in Nat /\ Space(S)
    BY <1>2 DEF Sound, States, Services
  <1>4. PICK n \in Nat : n = S.srv.reserved
    BY <1>3
  <1>5. ASSUME NEW o \in {"ok", "bad"}, srv' = [S.srv EXCEPT !.op = o], NEW R, R = Serving(S, o, n)
        PROVE  /\ o \in Outcomes /\ R \in States /\ R.a = S.a /\ R.srv.op = o
               /\ R.srv.first = S.srv.first /\ R.srv.length = S.srv.length
               /\ Apply(R) /\ Space(R)
    <2>1. o \in Outcomes
      BY DEF Outcomes
    <2>2. /\ R \in States /\ R.a = S.a /\ R.srv.op = o /\ R.srv.reserved = n
          /\ R.srv.first = S.srv.first /\ R.srv.length = S.srv.length
      BY <1>3, <1>5, <2>1, ServingFacts
    <2>3. Apply(R)
      <3>1. R.srv = [S.srv EXCEPT !.op = o, !.reserved = n]
        BY <1>5 DEF Serving
      <3>2. [S.srv EXCEPT !.op = o, !.reserved = n] = [S.srv EXCEPT !.op = o]
        BY <1>3, <1>4, Zenon DEF Services
      <3>. QED  BY <1>2, <1>5, <2>2, <3>1, <3>2, Zenon DEF Apply
    <2>4. Space(R)
      <3>1. S.srv.op \in {"busy", "ok", "bad"} /\ R.srv.op \in {"busy", "ok", "bad"} /\ R.srv.op # "sent"
        BY <1>2, <2>2
      <3>2. Under(R) <=> Under(S)
        BY <2>2, Zenon DEF Under
      <3>. QED  BY <1>3, <1>4, <2>2, <3>1, <3>2, Zenon DEF Space
    <2>. QED  BY <2>1, <2>2, <2>3, <2>4
  <1>6. CASE srv' = [S.srv EXCEPT !.op = "ok"] /\ stored' = StoredIn(stored, S.srv)
    <2>1. PICK o \in {"ok", "bad"} : o = "ok"
      OBVIOUS
    <2>2. PICK R : R = Serving(S, o, n)
      OBVIOUS
    <2>3. /\ R \in States /\ R.a = S.a /\ R.srv.op = o /\ R.srv.first = S.srv.first
          /\ R.srv.length = S.srv.length /\ Apply(R) /\ Space(R)
      BY <1>5, <1>6, <2>1, <2>2
    <2>4. PICK f \in [1 .. MaxRecords -> {0, 1}] : f = stored
      BY <1>2
    <2>5. PICK g : g = StoredIn(f, S.srv)
      OBVIOUS
    <2>6. g \in [1 .. MaxRecords -> {0, 1}] /\ File(R, g, late) /\ Placed(R)
      BY <1>2, <2>1, <2>3, <2>4, <2>5, SettledFile
    <2>7. Sound(R, g, late)
      BY <1>2, <2>3, <2>6, ServedSound, Zenon
    <2>8. Sound(R, stored, late)' /\ stored' \in [1 .. MaxRecords -> {0, 1}]
      BY <1>2, <1>6, <2>4, <2>5, <2>6, <2>7, Zenon
    <2>. QED  BY <2>3, <2>8, Applied, Zenon
  <1>7. CASE srv' = [S.srv EXCEPT !.op = "bad"] /\ UNCHANGED stored
    <2>1. PICK o \in {"ok", "bad"} : o = "bad"
      OBVIOUS
    <2>2. PICK R : R = Serving(S, o, n)
      OBVIOUS
    <2>3. o \in Outcomes /\ R.srv.op = o /\ Apply(R) /\ Space(R)
      BY <1>5, <1>7, <2>1, <2>2
    <2>4. o # "ok" /\ S.srv.op # "ok" /\ (Live(R.srv) => Live(S.srv))
      BY <1>2, <2>1, <2>3 DEF Live
    <2>5. Sound(R, stored, late)
      BY <1>2, <2>2, <2>3, <2>4, ServedQuietly
    <2>. QED  BY <1>2, <1>7, <2>3, <2>5, QuietlyApplied, Zenon
  <1>. QED  BY <1>2, <1>6, <1>7, Zenon DEF AppendSettles, Stored, StoredIn
\* An append of an earlier write id is stored: none of its records is in the file, in
\* the buffer or part of another append.
LEMMA LateFile ==
  ASSUME NEW S, NEW L, NEW f \in [1 .. MaxRecords -> {0, 1}], Sound(S, f, L), NEW x \in L, Live(x),
         NEW g, g = StoredIn(f, x)
  PROVE  g \in [1 .. MaxRecords -> {0, 1}] /\ File(S, g, L \ {x})
  <1>1. S \in States /\ File(S, f, L) /\ S.a.first \in Nat
    BY DEF Sound, States, Appenders
  <1>2. x \in Services
    BY <1>1, Zenon DEF File
  <1>3. /\ x.first + x.length <= S.a.first
        /\ \A r \in 1 .. MaxRecords : In(r, x) => f[r] = 0
        /\ Live(S.srv) => Apart(x, S.srv)
        /\ \A y \in L : Live(y) => x = y \/ Apart(x, y)
    BY <1>1, Zenon DEF File
  <1>4. /\ g \in [1 .. MaxRecords -> {0, 1}]
        /\ \A r \in 1 .. MaxRecords : g[r] = IF In(r, x) THEN 1 ELSE f[r]
    <2>1. PICK y \in Services : y = x
      BY <1>2, Zenon
    <2>2. Fresh(f, y) /\ g = StoredIn(f, y)
      BY <1>3, <2>1, Zenon DEF Fresh
    <2>3. Adds(g, f, y)
      BY <2>2, StoredFacts, Zenon
    <2>. QED  BY <2>1, <2>3, Zenon DEF Adds
  <1>5. 0 # 1 /\ \A r \in 1 .. MaxRecords : r \in Nat
    BY AppenderAssumption
  <1>6. \A r \in 1 .. MaxRecords : In(r, x) => ~(r >= S.a.first)
    <2>1. x.first \in Nat /\ x.length \in Nat
      BY <1>2 DEF Services
    <2>. QED  BY <1>1, <1>3, <1>5, <2>1 DEF In
  <1>7. ASSUME NEW r \in 1 .. MaxRecords
        PROVE  /\ g[r] \in {0, 1}
               /\ r \in S.a.done => g[r] = 1
               /\ r >= S.a.first /\ g[r] = 1 =>
                     (Under(S) \/ S.a.error) /\ S.srv.op = "ok" /\ In(r, S.srv)
               /\ In(r, S.srv) => /\ Live(S.srv) => g[r] = 0
                                  /\ Under(S) /\ S.srv.op = "ok" => g[r] = 1
    <2>1. CASE In(r, x)
      <3>1. g[r] = 1 /\ f[r] = 0 /\ ~(r >= S.a.first)
        BY <1>3, <1>4, <1>6, <2>1, Zenon
      <3>2. In(r, S.srv) => ~Live(S.srv)
        BY <1>3, <1>5, <2>1, Zenon DEF Apart
      <3>3. g[r] \in {0, 1}
        BY <3>1
      <3>. QED  BY <3>1, <3>2, <3>3, Zenon
    <2>2. CASE ~In(r, x)
      <3>1. g[r] = f[r]
        BY <1>4, <2>2, Zenon
      <3>. QED  BY <1>1, <3>1, Zenon DEF File
    <2>. QED  BY <2>1, <2>2, Zenon
  <1>8. ASSUME NEW y \in L \ {x}, Live(y)
        PROVE  /\ y.first + y.length <= S.a.first
               /\ \A r \in 1 .. MaxRecords : In(r, y) => g[r] = 0
               /\ Live(S.srv) => Apart(y, S.srv)
               /\ \A z \in L \ {x} : Live(z) => y = z \/ Apart(y, z)
    <2>1. /\ y.first + y.length <= S.a.first
          /\ \A r \in 1 .. MaxRecords : In(r, y) => f[r] = 0
          /\ Live(S.srv) => Apart(y, S.srv)
          /\ \A z \in L : Live(z) => y = z \/ Apart(y, z)
      BY <1>1, <1>8, Zenon DEF File
    <2>2. Apart(y, x)
      BY <1>8, <2>1, Zenon
    <2>3. \A r \in 1 .. MaxRecords : In(r, y) => ~In(r, x)
      BY <1>5, <2>2, Zenon DEF Apart
    <2>. QED  BY <1>4, <2>1, <2>3, Zenon
  <1>9. /\ \A r \in S.a.done : r < S.a.first
        /\ \A y \in L \ {x} : y \in Services /\ y.op \in {"sent", "busy"}
    BY <1>1, Zenon DEF File
  <1>10. File(S, g, L \ {x})
    BY <1>7, <1>8, <1>9, Zenon DEF File
  <1>. QED  BY <1>4, <1>10, Zenon

\* An append of an earlier write id settles.
LEMMA LateKeeps ==
  ASSUME IInv, LateAppendSettles
  PROVE  IInv'
  <1>1. PICK S : S = State
    OBVIOUS
  <1>2. Sound(S, stored, late) /\ stored \in [1 .. MaxRecords -> {0, 1}] /\ a = S.a /\ srv = S.srv
        /\ UNCHANGED <<a, srv>>
    BY <1>1 DEF LateAppendSettles, IInv, State
  <1>3. Apply(S)
    BY <1>2, Zenon DEF Apply
  <1>4. PICK x \in late : /\ late' = late \ {x}
                          /\ stored' = stored \/ (~(x.op = "sent" /\ x.ro) /\ stored' = StoredIn(stored, x))
    BY DEF LateAppendSettles, Stored, StoredIn
  <1>5. PICK f \in [1 .. MaxRecords -> {0, 1}] : f = stored
    BY <1>2
  <1>6. PICK L : L = late
    OBVIOUS
  <1>7. /\ S \in States /\ Buffer(S) /\ Control(S) /\ Space(S) /\ Placed(S) /\ File(S, f, L) /\ Driven(S)
        /\ Sound(S, f, L)
    BY <1>2, <1>5, <1>6, Zenon DEF Sound
  <1>8. PICK g : g = stored'
    OBVIOUS
  <1>9. g \in [1 .. MaxRecords -> {0, 1}] /\ File(S, g, L \ {x})
    <2>1. CASE g = f
      BY <1>7, <2>1, Zenon DEF File
    <2>2. CASE ~(x.op = "sent" /\ x.ro) /\ g = StoredIn(f, x)
      <3>1. x \in L /\ x.op \in {"sent", "busy"}
        BY <1>4, <1>6, <1>7, Zenon DEF File
      <3>2. Live(x)
        BY <2>2, <3>1 DEF Live
      <3>. QED  BY <1>7, <2>2, <3>1, <3>2, LateFile, Zenon
    <2>. QED  BY <1>4, <1>5, <1>8, <2>1, <2>2, Zenon
  <1>10. Sound(S, g, L \ {x})
    BY <1>7, <1>9, Zenon DEF Sound
  <1>11. Sound(S, stored, late)' /\ stored' \in [1 .. MaxRecords -> {0, 1}]
    BY <1>4, <1>6, <1>8, <1>9, <1>10, Zenon
  <1>. QED  BY <1>3, <1>11, Applied, Zenon
\* The appender is closed, with empty buffer and file.
LEMMA InitKeeps == Init => IInv
  <1>. SUFFICES ASSUME Init PROVE IInv
    OBVIOUS
  <1>1. PICK S : S = State
    OBVIOUS
  <1>2. PICK n \in Int : n = Max(Thresholds)
    <2>1. Max(Thresholds) \in Thresholds
      BY AppenderAssumption, Zenon DEF Max
    <2>. QED  BY <2>1, AppenderAssumption, Zenon
  <1>3. PICK q \in Queues : q = <<>> /\ Sum(q) = 0
    BY SumEmpty
  <1>4. /\ S.a = [open |-> FALSE, closing |-> FALSE, error |-> FALSE, sleeping |-> FALSE,
                  first |-> 1, size |-> 0, queue |-> q, threshold |-> n,
                  cur |-> "none", chunk |-> FALSE, wid |-> FALSE, lost |-> FALSE,
                  space |-> 0, noSpace |-> FALSE, ask |-> 0, retry |-> 0, restarts |-> 0,
                  index |-> 1, length |-> 0, done |-> {}]
        /\ S.srv = [op |-> "none", first |-> 0, length |-> 0, ro |-> FALSE, reserved |-> 0]
        /\ S = [a |-> S.a, srv |-> S.srv]
    BY <1>1, <1>2, <1>3 DEF Init, State, Closed, NewWriteId
  <1>5. S \in States
    <2>1. S.a \in Appenders
      BY <1>4, AppenderAssumption DEF Appenders, Curs
    <2>2. S.srv \in Services
      BY <1>4 DEF Services, Outcomes
    <2>. QED  BY <1>4, <2>1, <2>2, Zenon DEF States
  <1>6. /\ S.a.size = 0 /\ S.a.queue = q /\ S.a.cur = "none" /\ S.a.first = 1 /\ S.a.done = {}
        /\ ~S.a.open /\ ~S.a.closing /\ ~S.a.error /\ ~S.a.sleeping
        /\ ~S.a.chunk /\ ~S.a.wid /\ S.a.space = 0
        /\ S.srv.op = "none" /\ S.srv.first = 0 /\ S.srv.length = 0
    BY <1>4
  <1>7. ~Under(S) /\ ~Live(S.srv) /\ S.srv.op # "ok"
    BY <1>6 DEF Under, Live
  <1>8. Buffer(S)
    BY <1>3, <1>6, <1>7, Zenon DEF Buffer
  <1>9. Control(S) /\ Driven(S)
    BY <1>6 DEF Control, Driven
  <1>10. Space(S)
    BY <1>6, <1>7 DEF Space
  <1>11. Placed(S)
    BY <1>7, Zenon DEF Placed
  <1>12. /\ late = {} /\ stored \in [1 .. MaxRecords -> {0, 1}]
         /\ \A r \in 1 .. MaxRecords : stored[r] \in {0, 1} /\ stored[r] # 1
    BY DEF Init
  <1>13. File(S, stored, late)
    <2>1. (\A r \in S.a.done : r < S.a.first) /\ \A r : r \notin S.a.done
      BY <1>6
    <2>2. \A x : x \notin late
      BY <1>12
    <2>. QED  BY <1>7, <1>12, <2>1, <2>2, Zenon DEF File
  <1>14. Sound(S, stored, late)
    BY <1>5, <1>8, <1>9, <1>10, <1>11, <1>13, Zenon DEF Sound
  <1>. QED  BY <1>1, <1>12, <1>14, Zenon DEF IInv

\* Every completion keeps the invariant.
LEMMA CompletionKeeps ==
  ASSUME IInv, Completion
  PROVE  IInv'
  <1>0. PICK slow \in BOOLEAN :
          \/ \E ok \in BOOLEAN : AllocDone(ok, slow) \/ WriteIdAllocDone(ok, slow)
          \/ \E r \in {"ok", "denied", "failed"} : SpaceReserveDone(r, slow)
          \/ RecordAppendDone(slow)
          \/ \E allSent \in BOOLEAN : RecordAppendCut(allSent, slow)
          \/ StatusFailed(slow)
          \/ \E ans \in {"ok", "bad", "again", "before"} : GetStatusDone(ans, slow)
          \/ \E ok \in BOOLEAN : SpaceReleaseDone(ok)
          \/ CloseDone
    BY Zenon DEF Completion
  <1>1. ASSUME NEW ok \in BOOLEAN, AllocDone(ok, slow) PROVE IInv'
    BY <1>1, AllocKeeps, Zenon
  <1>2. ASSUME NEW ok \in BOOLEAN, WriteIdAllocDone(ok, slow) PROVE IInv'
    BY <1>2, WriteIdKeeps, Zenon
  <1>3. ASSUME NEW r \in {"ok", "denied", "failed"}, SpaceReserveDone(r, slow) PROVE IInv'
    BY <1>3, ReserveKeeps, Zenon
  <1>4. CASE RecordAppendDone(slow)
    BY <1>4, RecordAppendKeeps, Zenon
  <1>5. ASSUME NEW allSent \in BOOLEAN, RecordAppendCut(allSent, slow) PROVE IInv'
    BY <1>5, CutKeeps, Zenon
  <1>6. CASE StatusFailed(slow)
    BY <1>6, StatusFailedKeeps, Zenon
  <1>7. ASSUME NEW ans \in {"ok", "bad", "again", "before"}, GetStatusDone(ans, slow) PROVE IInv'
    BY <1>7, GetStatusKeeps, Zenon
  <1>8. ASSUME NEW ok \in BOOLEAN, SpaceReleaseDone(ok) PROVE IInv'
    BY <1>8, ReleaseKeeps, Zenon
  <1>9. CASE CloseDone
    BY <1>9, CloseDoneKeeps, Zenon
  <1>. QED  BY <1>0, <1>1, <1>2, <1>3, <1>4, <1>5, <1>6, <1>7, <1>8, <1>9, Zenon

\* Every event keeps the invariant.
LEMMA InvStep ==
  ASSUME IInv, [Next]_vars
  PROVE  IInv'
  <1>1. CASE Open
    BY <1>1, OpenKeeps, Zenon
  <1>2. CASE Shutdown
    BY <1>2, ShutdownKeeps, Zenon
  <1>3. ASSUME NEW idle \in BOOLEAN, AppendRecord(idle) PROVE IInv'
    BY <1>3, AppendRecordKeeps, Zenon
  <1>4. ASSUME NEW idle \in BOOLEAN, Close(idle) PROVE IInv'
    BY <1>4, CloseKeeps, Zenon
  <1>5. ASSUME NEW idle \in BOOLEAN, NEW n \in Thresholds, SetWriteThreshold(n, idle) PROVE IInv'
    BY <1>5, ThresholdKeeps, Zenon
  <1>6. CASE Completion
    BY <1>6, CompletionKeeps, Zenon
  <1>7. CASE SleepTimeout
    BY <1>7, TimerKeeps, Zenon
  <1>8. CASE Disconnect
    BY <1>8, DisconnectKeeps, Zenon
  <1>9. CASE AppendArrives
    BY <1>9, ArrivesKeeps, Zenon
  <1>10. CASE AppendSettles
    BY <1>10, SettlesKeeps, Zenon
  <1>11. CASE LateAppendSettles
    BY <1>11, LateKeeps, Zenon
  <1>12. CASE UNCHANGED vars
    BY <1>12 DEF vars, IInv, Sound, State, States, Buffer, Control, Space, Placed, File, Driven, CanAppend, Under
  <1>. QED  BY <1>1, <1>2, <1>3, <1>4, <1>5, <1>6, <1>7, <1>8, <1>9, <1>10, <1>11, <1>12, Zenon DEF Next
\* The invariant holds, for any chain length, limits, sizes and thresholds.
THEOREM AppenderInductive == Spec => []IInv
  <1>1. IInv /\ [Next]_vars => IInv'
    BY InvStep
  <1>. QED  BY <1>1, InitKeeps, PTL DEF Spec

\* No record is in the file twice, and the ones reported are in it, for any chain
\* length, limits and number of records: HandleError asks for the status of an append
\* that may have been executed before its records are sent again.
THEOREM RecordsStoredOnce == Spec => []RecordsOnce
  <1>1. IInv => RecordsOnce
    <2>. SUFFICES ASSUME IInv PROVE RecordsOnce
      OBVIOUS
    <2>1. File(State, stored, late) /\ State.a = a
      BY DEF IInv, Sound, State
    <2>2. \A r \in 1 .. MaxRecords : stored[r] \in {0, 1} /\ (r \in a.done => stored[r] = 1)
      BY <2>1, Zenon DEF File
    <2>. QED  BY <2>2 DEF RecordsOnce
  <1>. QED  BY <1>1, AppenderInductive, PTL

\* The appender never counts on space that the server does not hold for it, and an
\* append under way has its records in the buffer and its space reserved.
THEOREM SpaceIsReserved == Spec => []SpaceReserved
  <1>1. IInv => SpaceReserved
    <2>. SUFFICES ASSUME IInv PROVE SpaceReserved
      OBVIOUS
    <2>0. PICK S : S = State
      OBVIOUS
    <2>1. S = State /\ S.a = a /\ S.srv = srv
      BY <2>0 DEF State
    <2>2. S \in States /\ Buffer(S) /\ Control(S) /\ Space(S)
      BY <2>1, Zenon DEF IInv, Sound
    <2>3. /\ S.a.cur \in Curs /\ S.a.space \in Nat /\ S.a.ask \in Nat /\ S.srv.reserved \in Nat
          /\ S.a.retry \in 0 .. MaxRetryCount /\ S.a.index \in 1 .. NumServers
          /\ S.a.queue \in Queues /\ S.a.length \in Nat
      BY <2>2 DEF States, Appenders, Services
    <2>4. TypeOK
      BY <2>1, <2>2, <2>3, Zenon DEF TypeOK, Curs, Buffer, Sum
    <2>5. a.open /\ a.wid /\ ~a.lost /\ a.cur \notin {"append", "status"} => a.space <= srv.reserved
      BY <2>1, <2>2, Zenon DEF Control, Space, Under
    <2>6. ASSUME Under(S) PROVE S.a.length \in 1 .. S.a.space /\ S.a.length <= S.a.size
      <3>1. /\ S.a.queue # <<>> /\ S.a.length \in 1 .. Head(S.a.queue) /\ S.a.length <= S.a.space
            /\ S.a.size = Sum(S.a.queue)
        BY <2>2, <2>6, Zenon DEF Buffer, Space
      <3>2. PICK q \in Queues : q = S.a.queue
        BY <2>3
      <3>3. Head(q) \in Nat /\ Sum(q) \in Nat /\ Head(q) <= Sum(q)
        BY <3>1, <3>2, SumHead
      <3>. QED  BY <2>3, <3>1, <3>2, <3>3
    <2>. QED  BY <2>1, <2>4, <2>5, <2>6, Zenon DEF SpaceReserved, Under
  <1>. QED  BY <1>1, AppenderInductive, PTL

\* Records that may be appended always have an operation or a timer that will append
\* them: no early return of StartAppend strands them.
THEOREM NothingStranded == Spec => []PendingDriven
  <1>1. IInv => PendingDriven
    <2>. SUFFICES ASSUME IInv PROVE PendingDriven
      OBVIOUS
    <2>1. Driven(State) /\ State.a = a
      BY DEF IInv, Sound, State
    <2>. QED  BY <2>1, Zenon DEF Driven, PendingDriven
  <1>. QED  BY <1>1, AppenderInductive, PTL
=============================================================================
