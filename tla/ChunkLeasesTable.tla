-------------------------- MODULE ChunkLeasesTable --------------------------
(* ChunkLeases implements LeaseTable. *)
EXTENDS ChunkLeases

\* The readers whose lease has not expired: an expired one needs no respect,
\* whether or not the timer has removed it.
Readers(c) == {r.id : r \in {x \in mReadLeases[c] : 0 <= x.ttl}}

\* A write lease counts until it is removed, expired or not: its owner may be
\* writing, and the chunk has to be made stable.
Phase(w) == IF w.allocInFlight THEN "granting"
            ELSE IF w.relinquished THEN "returned" ELSE "held"

Writer(c) == IF mWriteLeases[c] = NoLease THEN [id |-> 0, phase |-> "idle"]
             ELSE [id |-> mWriteLeases[c].id, phase |-> Phase(mWriteLeases[c])]

Table == INSTANCE LeaseTable WITH
    readers <- [c \in Chunks |-> Readers(c)],
    writer <- [c \in Chunks |-> Writer(c)],
    open <- dirty,
    issued <- nextId - 1

\* Every handler of the meta server's lease code is a step of the table of
\* readers and writers, or leaves it as it is: a reader is let in only where
\* there is no writer, expired or not, and nothing to make stable; a writer only
\* where every reader has left; and a writer that leaves hands its chunk over.
ImplementsLeaseTable == Table!Spec
=============================================================================
