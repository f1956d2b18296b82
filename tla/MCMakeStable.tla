---------------------------- MODULE MCMakeStable ----------------------------
(* Instances of MakeStable for TLC. *)
EXTENDS MakeStable, TLC

\* Servers are interchangeable in every definition.
Symmetry == Permutations(Servers)
=============================================================================
