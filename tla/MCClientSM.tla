------------------------------ MODULE MCClientSM ------------------------------
EXTENDS ClientSM, TLC

CONSTANTS k1, k2, d1

MCClients == {k1, k2}
MCDevs == {d1}

Req(kind, dev, head, size, bad) ==
  [kind |-> kind, dev |-> dev, head |-> head, size |-> size, bad |-> bad]

\* What both clients send, and what only one of them does: failed writes, reads
\* that are too large and inquiries; appends and writes that are too large.
MCRequests == [k \in MCClients |->
  {Req("write", d1, 0, 1, FALSE), Req("write", d1, 2, 1, FALSE), Req("read", d1, 0, 1, FALSE),
   Req("sync", NoDev, 0, 0, FALSE)} \cup
  (IF k = k1 THEN {Req("write", d1, 2, 1, TRUE), Req("read", d1, 0, 5, FALSE),
                   Req("status", NoDev, 0, 0, FALSE)}
             ELSE {Req("append", NoDev, 0, 2, FALSE), Req("write", d1, 0, 5, FALSE)})]
=============================================================================
