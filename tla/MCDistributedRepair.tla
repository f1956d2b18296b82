------------------------ MODULE MCDistributedRepair ------------------------
(* Instances of DistributedRepair for TLC. *)
EXTENDS DistributedRepair
=============================================================================
