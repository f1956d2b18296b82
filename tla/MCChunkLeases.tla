--------------------------- MODULE MCChunkLeases ---------------------------
(* Instances of ChunkLeases for TLC. *)
EXTENDS ChunkLeasesTable
=============================================================================
