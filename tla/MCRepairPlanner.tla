-------------------------- MODULE MCRepairPlanner --------------------------
(* Instances of RepairPlanner for TLC. *)
EXTENDS RepairPlanner

Down == [i \in Servers |-> NumServers + 1 - i]
EvenFirst == [i \in Servers |-> IF 2 * i <= NumServers THEN 2 * i
                                ELSE 2 * (i - NumServers \div 2) - 1]
\* Hosts with neighbouring names: no chunk to spare, one, or several, for
\* each of the plans.
Neighbours == {3..8, 2..8, 1..8, 2..10, 3..13, 2..13}
MCOrders == {Down, EvenFirst}
=============================================================================
