-------------------------- MODULE MCRecordAppend --------------------------
(* Model checking instance of RecordAppend: write ids are interchangeable. *)
EXTENDS RecordAppend, TLC

Symmetry == Permutations(Wids)
=============================================================================
