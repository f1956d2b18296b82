----------------------------- MODULE RepairPlans -----------------------------
(***************************************************************************)
(* The hard coded repair plans of meta/LayoutManager.cc: who sends its     *)
(* partial sum to whom, and in which round, to rebuild the missing chunk   *)
(* of a stripe from n surviving chunks.  The plans are written in terms of *)
(* keys 1..n, the places the chosen source servers are assigned to, and of *)
(* Dst, the server where the chunk is rebuilt.                             *)
(***************************************************************************)
EXTENDS Integers, FiniteSets

Dst == 0

\* <<receiver, round, sender>>: opMap<receiver>[round] = op(key<sender>).
FirstRound(n) == {<<k, 1, k - 1>> : k \in {j \in 1..n : j % 2 = 0}}

Plan6 == FirstRound(6) \cup {<<4, 2, 2>>, <<Dst, 2, 6>>, <<Dst, 3, 4>>}
Plan8 == FirstRound(8) \cup {<<4, 2, 2>>, <<8, 2, 6>>, <<8, 3, 4>>, <<Dst, 4, 8>>}
Plan10 == FirstRound(10) \cup {<<4, 2, 2>>, <<8, 2, 6>>, <<Dst, 2, 10>>,
                               <<Dst, 3, 4>>, <<Dst, 4, 8>>}
\* Mutant: key 10 sends on before it has key 9's part.
Plan12Early == (FirstRound(12) \ {<<10, 1, 9>>}) \cup
                 {<<10, 2, 9>>, <<4, 2, 2>>, <<8, 2, 6>>, <<12, 2, 10>>,
                  <<Dst, 3, 12>>, <<8, 3, 4>>, <<Dst, 4, 8>>}
Plan12 == FirstRound(12) \cup {<<4, 2, 2>>, <<8, 2, 6>>, <<12, 2, 10>>,
                               <<Dst, 3, 12>>, <<8, 3, 4>>, <<Dst, 4, 8>>}

Plan(n) == CASE n = 6 -> Plan6 [] n = 8 -> Plan8 [] n = 10 -> Plan10 [] n = 12 -> Plan12

\* What the rounds mean: in a round every sender passes on what it has summed
\* up before the round.  Held[t][k][s] says how often source s is in the sum
\* of k after round t.
Held(plan, n) ==
    LET nodes == 0..n
        last == CHOOSE t \in 0..n : /\ \A o \in plan : o[2] <= t
                                    /\ t > 0 => \E o \in plan : o[2] = t
        senders(k, t) == {o[3] : o \in {p \in plan : p[1] = k /\ p[2] = t}}
        H[t \in 0..last] ==
            IF t = 0
            THEN [k \in nodes |-> [s \in 1..n |-> IF s = k THEN 1 ELSE 0]]
            ELSE [k \in nodes |-> [s \in 1..n |->
                    H[t - 1][k][s]
                    + Cardinality({c \in senders(k, t) : H[t - 1][c][s] = 1})
                    + 2 * Cardinality({c \in senders(k, t) : H[t - 1][c][s] > 1})]]
    IN  H[last]

=============================================================================
