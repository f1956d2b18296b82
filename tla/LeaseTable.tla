----------------------------- MODULE LeaseTable -----------------------------
(***************************************************************************)
(* What the lease table of the meta server promises to its clients, with   *)
(* no expiration times, no chunk map, no replicas and no requests: a chunk *)
(* is read by any number of readers, or written by one writer, or idle.    *)
(* ChunkLeases is shown to implement it in ChunkLeasesTable.               *)
(***************************************************************************)
EXTENDS Integers

CONSTANTS
    Chunks, ReadIds,
    Crowded     \* chunks whose writer may be dropped for lack of space

VARIABLES
    readers,    \* [Chunks -> SUBSET ReadIds], the readers to be respected
    writer,     \* [Chunks -> [id, phase]]
    open,       \* chunks with data that was not made stable
    issued      \* the number of write leases issued

tableVars == <<readers, writer, open, issued>>

Idle == [id |-> 0, phase |-> "idle"]

Init ==
    /\ readers = [c \in Chunks |-> {}]
    /\ writer = [c \in Chunks |-> Idle]
    /\ open = {}
    /\ issued = 0

\* A reader is let in where there is no writer and nothing is left to be made
\* stable.
ReaderEnters(c, r) ==
    /\ writer[c] = Idle
    /\ c \in open => c \in Crowded
    /\ readers' = [readers EXCEPT ![c] = @ \cup {r}]
    /\ UNCHANGED <<writer, open, issued>>

\* A writer is let in where there are no readers.  It may displace the one that
\* holds the chunk, or has returned it, but never one being let in.
WriterEnters(c) ==
    /\ readers[c] = {}
    /\ writer[c].phase # "granting"
    /\ writer' = [writer EXCEPT ![c] = [id |-> issued + 1, phase |-> "granting"]]
    /\ issued' = issued + 1
    /\ UNCHANGED <<readers, open>>

\* It is told so, and may write.
WriterStarts(c) ==
    /\ writer[c].phase = "granting"
    /\ writer' = [writer EXCEPT ![c] = [id |-> writer[c].id, phase |-> "held"]]
    /\ open' = open \cup {c}
    /\ UNCHANGED <<readers, issued>>

WriterStays(c) == writer'[c] = writer[c] /\ (c \in open' <=> c \in open)

\* The writer returns the chunk: what it wrote is handed to make stable.
WriterReturns(c) ==
    /\ writer[c].phase = "held"
    /\ writer'[c] = [id |-> writer[c].id, phase |-> "returned"]
    /\ c \notin open'

\* The writer is gone, and what it wrote was handed to make stable, or
\* discarded.
WriterLeaves(c) == writer'[c] = Idle /\ c \notin open'

\* The writer is gone, and what it wrote is left as it is.
WriterDropped(c) ==
    /\ c \in Crowded
    /\ writer'[c] = Idle
    /\ c \in open' <=> c \in open

\* Time, timers and failures may end any of the leases in one step.
Leave ==
    /\ \A c \in Chunks : readers'[c] \subseteq readers[c]
    /\ \A c \in Chunks : \/ WriterStays(c)
                         \/ WriterReturns(c)
                         \/ WriterLeaves(c)
                         \/ WriterDropped(c)
    /\ UNCHANGED issued

Next ==
    \/ \E c \in Chunks : \/ \E r \in ReadIds : ReaderEnters(c, r)
                         \/ WriterEnters(c)
                         \/ WriterStarts(c)
    \/ Leave

Spec == Init /\ [][Next]_tableVars
=============================================================================
