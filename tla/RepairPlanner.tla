---------------------------- MODULE RepairPlanner ----------------------------
(***************************************************************************)
(* How the meta server plans the distributed repair of missing chunks      *)
(* (meta/LayoutManager.cc, CoordinateTheReplicationProcess and what it     *)
(* calls): choose the sources and the destination by their load and by the *)
(* chunks they are known to have cached, assign the sources to the keys of *)
(* a hard coded plan, and count the new load.                              *)
(*                                                                         *)
(* The files have one replica per chunk, so that a chunk of the stripe is  *)
(* named by the server that hosts it, and a server hosts one chunk of a    *)
(* stripe (asserted by the code).  Servers are numbered in the order of    *)
(* their names.                                                            *)
(***************************************************************************)
EXTENDS RepairPlans, SequencesExt

CONSTANTS
    NumServers,     \* connected chunk servers
    Sizes,          \* numbers of data stripes of the plans in use
    HostSets,       \* bound: where the remaining chunks of a stripe may be
    Caching,        \* bound: servers that report cached chunks
    Orders,         \* orders std::map<ChunkServerPtr> may have servers in
    MaxRepairs      \* bound on the repairs planned

Servers == 1..NumServers

ASSUME PlannerAssumption ==
    /\ NumServers \in Nat /\ Sizes \subseteq {6, 8, 10, 12}
    /\ Caching \subseteq Servers
    /\ \A hosts \in HostSets : hosts \subseteq Servers /\ hosts # Servers
    /\ \A o \in Orders : Len(o) = NumServers /\ ToSet(o) = Servers

VARIABLES
    load,       \* sereverRepairLoad of a server
    cached,     \* servers of chunks in chunkIdToCacheServerMap
    table,      \* the last operation table, or NoTable
    repairs     \* repairs planned so far

vars == <<load, cached, table, repairs>>

NoTable == [n |-> 0]

\* Recovery stripes of the code a plan is for: 6+3, 8+3, 10+4, 12+4.
RecoveryStripes(n) == IF n <= 8 THEN 3 ELSE 4

\* ChunkServer::getRepairChoiceWeight, with the default weights.
getRepairChoiceWeight(s, haveCache) ==
    (IF s \in haveCache THEN 2 ELSE 0)
        - 2 * load[s].numOfActingSources - load[s].numOfFinalRepairs

\* std::sort by decreasing weight leaves servers of the same weight in any
\* order: the sets of n servers it may put first.
BestOf(avail, haveCache, n) ==
    LET weight == [s \in avail |-> getRepairChoiceWeight(s, haveCache)]
        sure == {s \in avail : Cardinality({t \in avail : weight[t] >= weight[s]}) <= n}
        tied == {s \in avail \ sure : Cardinality({t \in avail : weight[t] > weight[s]}) < n}
    IN  {sure \cup some : some \in {x \in SUBSET tied : Cardinality(x) = n - Cardinality(sure)}}

\* The order in which keys are given to servers with a cached chunk.
CacheKeys(n) == [i \in 1..n |-> IF 2 * i <= n THEN 2 * i - 1 ELSE 2 * i - n]

\* Mutant: cached servers get the first keys, in order.
AssignKeysInOrder(n, selected, haveCache, order) ==
    LET hot  == SetToSortSeq(selected \cap haveCache, <)
        cold == SelectSeq(order, LAMBDA s : s \in selected \ haveCache)
    IN  [k \in 1..n |-> IF k <= Len(hot) THEN hot[k] ELSE cold[k - Len(hot)]]

\* The keys: first the selected servers with a cached chunk, by name, on the
\* odd keys and then on the even ones; the others, in the order of the map,
\* on the keys still empty.
AssignKeys(n, selected, haveCache, order) ==
    LET hot  == SetToSortSeq(selected \cap haveCache, <)
        cold == SelectSeq(order, LAMBDA s : s \in selected \ haveCache)
        taken == {CacheKeys(n)[i] : i \in 1..Len(hot)}
    IN  [k \in 1..n |->
            IF k \in taken
            THEN hot[CHOOSE i \in 1..Len(hot) : CacheKeys(n)[i] = k]
            ELSE cold[Cardinality({j \in 1..k : j \notin taken})]]

\* The load of a repair, never taken back when the repair is done.
AddLoad(selected, dst) ==
    [s \in Servers |->
        [numOfActingSources |-> load[s].numOfActingSources + (IF s \in selected THEN 1 ELSE 0),
         numOfFinalRepairs  |-> load[s].numOfFinalRepairs + (IF s = dst THEN 1 ELSE 0)]]

\* GetDestinationServerForRepair: the best server without a chunk of the stripe.
GetDestinationServerForRepair(hosts) == BestOf(Servers \ hosts, {}, 1)

\* CoordinateTheReplicationProcess, for a stripe whose remaining stable chunks
\* are on hosts.  With fewer than n of them, or without a server to spare, the
\* code goes through a null pointer; such a stripe is not planned here.
CoordinateTheReplicationProcess(n, hosts) ==
    /\ repairs < MaxRepairs
    /\ Cardinality(hosts) \in n .. n + RecoveryStripes(n) - 1
    /\ \E selected \in BestOf(hosts, cached, n),
          dst \in GetDestinationServerForRepair(hosts), order \in Orders :
        /\ load' = AddLoad(selected, CHOOSE d \in dst : TRUE)
        /\ table' = [n |-> n, hosts |-> hosts, dst |-> CHOOSE d \in dst : TRUE,
                     haveCache |-> cached,
                     keys |-> AssignKeys(n, selected, cached, order)]
    /\ repairs' = repairs + 1
    /\ UNCHANGED cached

\* A heartbeat tells of chunks in a server's cache; see updateCacheServerMap.
parseAndUpdateCacheServerMap(s) ==
    /\ repairs < MaxRepairs
    /\ cached' = cached \cup {s}
    /\ UNCHANGED <<load, table, repairs>>

Init ==
    /\ load = [s \in Servers |-> [numOfActingSources |-> 0, numOfFinalRepairs |-> 0]]
    /\ cached = {}
    /\ table = NoTable
    /\ repairs = 0

Next ==
    \/ \E n \in Sizes, hosts \in HostSets : CoordinateTheReplicationProcess(n, hosts)
    \/ \E s \in Caching : parseAndUpdateCacheServerMap(s)

Spec == Init /\ [][Next]_vars

-----------------------------------------------------------------------------
(* Properties *)

\* The variables have their types.
TypeOK ==
    /\ load \in [Servers -> [numOfActingSources : 0..MaxRepairs,
                             numOfFinalRepairs : 0..MaxRepairs]]
    /\ cached \subseteq Servers
    /\ repairs \in 0..MaxRepairs
    /\ table = NoTable \/ (table.n \in Sizes /\ DOMAIN table.keys = 1..table.n)

\* The sum at the destination, and the leaves, of each plan.
DstSum == [n \in Sizes |-> Held(Plan(n), n)[Dst]]
Leaves == [n \in Sizes |-> {k \in 1..n : \A o \in Plan(n) : o[1] # k}]

\* The operation table is a repair: after its rounds the destination, which
\* has no chunk of the stripe, has summed up the chunk of every chosen source
\* exactly once, and the sources are n different hosts of the stripe
\* (PopulateDistributedRepairOperationTable).
TableRebuildsChunk ==
    TypeOK /\ (table # NoTable =>
        LET n == table.n
        IN  /\ \A k \in 1..n : DstSum[n][k] = 1
            /\ {table.keys[k] : k \in 1..n} \subseteq table.hosts
            /\ Cardinality({table.keys[k] : k \in 1..n}) = n
            /\ table.dst \notin table.hosts)

\* A chosen server that has the chunk in memory is at an odd key, a leaf of
\* the plan which starts to send at once, as long as there are leaves left:
\* nobody without a cached chunk is a leaf while one with it is not.
CacheAtLeaves ==
    table # NoTable =>
        LET leaf(k) == k \in Leaves[table.n]
            hot(k)  == table.keys[k] \in table.haveCache
        IN  \A k, l \in 1..table.n : leaf(k) /\ ~leaf(l) /\ hot(l) => hot(k)

=============================================================================
