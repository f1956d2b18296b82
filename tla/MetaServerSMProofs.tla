------------------------- MODULE MetaServerSMProofs -------------------------
(***************************************************************************)
(* The connection to the meta server, for any number of requests, leases,  *)
(* errors and heartbeats: no die() call is reached, every request is in one*)
(* place, and a lease does not wait for a renewal that is not on its way.  *)
(*                                                                         *)
(* The inductive invariant says what may be on the connection in each      *)
(* phase of the handshake (Handshake), that a request is queued, sent or   *)
(* completed (Places), that one that was sent has one copy on an open      *)
(* session (Travelling), and what the clerk waits for (RenewKept).         *)
(***************************************************************************)
EXTENDS MetaServerSM, FiniteSetTheorems, TLAPS

\* Requests to the meta server, and what the other messages carry.
Op    == [seq : 1 .. MaxOps, kind : {"renew", "relinquish", "corrupt"}, lease : 0 .. MaxLeases]
Other == [seq : {0}, kind : {"none"}, lease : 0 .. MaxLeases]
MsgT  == [type : {"request", "reply"}, op : Op, ok : BOOLEAN]
         \cup [type : {"auth", "hello", "response", "alloc", "heartbeat"}, op : Other,
               ok : BOOLEAN]

TypeInv ==
    /\ authEnabled \in BOOLEAN /\ conn \in BOOLEAN /\ authOp \in BOOLEAN
    /\ helloOp \in BOOLEAN /\ sentHello \in BOOLEAN /\ died = FALSE
    /\ pending \in Seq(Op) /\ dispatched \subseteq Op /\ IsFiniteSet(dispatched)
    /\ responses \in Seq(MsgT)
    /\ lease \in [id : 0 .. MaxLeases, renewSent : BOOLEAN]
    /\ allocs \in Seq(0 .. MaxLeases)
    /\ done \in Seq({0, 1}) /\ Len(done) <= MaxOps
    /\ c2m \in Seq(MsgT) /\ m2c \in Seq(MsgT)
    /\ leaseIds \in 0 .. MaxLeases
    /\ metaLease \in 0 .. leaseIds /\ metaAlloc \in 0 .. leaseIds

\* No message, or just one, of the set M on a wire; one on the two wires.
NoneOf(s, M)    == \A k \in 1 .. Len(s) : s[k] \notin M
OneOf(s, M)     == \E k \in 1 .. Len(s) : s[k] \in M /\ \A j \in 1 .. Len(s) : s[j] \in M => j = k
OneWay(s, t, M) == (OneOf(s, M) /\ NoneOf(t, M)) \/ (NoneOf(s, M) /\ OneOf(t, M))

\* Messages of a type, of other types, that carry op, and requests or replies
\* that carry an op outside D.
Auths         == {m \in MsgT : m.type = "auth"}
Except(types) == {m \in MsgT : m.type \notin types}
Carry(op)     == {m \in MsgT : m.op = op}
Stray(D)      == {m \in MsgT : m.type \in {"request", "reply"} /\ m.op \notin D}
Only(s, types) == NoneOf(s, Except(types))

\* The hello leads its way: nothing but late responses follows it, and the meta
\* server sends nothing before its answer.
HelloLeads ==
    \/ /\ c2m # <<>> /\ Head(c2m).type = "hello" /\ Only(Tail(c2m), {"response"})
       /\ m2c = <<>>
    \/ /\ Only(c2m, {"response"})
       /\ m2c # <<>> /\ Head(m2c).type = "hello" /\ Only(Tail(m2c), {"alloc", "heartbeat"})

\* The phases of the handshake.  An authentication has one message on the way.
Handshake ==
    /\ helloOp => sentHello
    /\ responses # <<>> => authOp /\ IsUp
    /\ Only(responses, {"response"})
    /\ ~conn => ~authOp /\ c2m = <<>> /\ m2c = <<>>
    /\ authOp => OneWay(c2m, m2c, Auths)
    /\ ~authOp => NoneOf(c2m, Auths) /\ NoneOf(m2c, Auths)
    /\ conn /\ ~sentHello => Only(c2m, {"auth"}) /\ Only(m2c, {"auth"})
    /\ conn /\ helloOp => ~authOp /\ HelloLeads
    /\ IsUp => /\ Only(c2m, {"auth", "request", "response"})
               /\ Only(m2c, {"auth", "reply", "alloc", "heartbeat"})

\* A request is queued, sent or completed.
Queued(s) == \E k \in 1 .. Len(pending) : pending[k].seq = s
Sent(s)   == \E op \in dispatched : op.seq = s

Places ==
    /\ \A j, k \in 1 .. Len(pending) : pending[j].seq = pending[k].seq => j = k
    /\ \A a, b \in dispatched : a.seq = b.seq => a = b
    /\ \A s \in 1 .. MaxOps : ~(Queued(s) /\ Sent(s))
    /\ \A s \in 1 .. MaxOps : Queued(s) \/ Sent(s) => s \in 1 .. Len(done) /\ done[s] = 0
    /\ \A s \in 1 .. Len(done) : done[s] = 0 => Queued(s) \/ Sent(s)

\* What is on the connection was sent, and what was sent is there once.
Travelling ==
    /\ NoneOf(c2m, Stray(dispatched)) /\ NoneOf(m2c, Stray(dispatched))
    /\ IsUp => \A op \in dispatched : OneWay(c2m, m2c, Carry(op))

\* The clerk waits for a renewal only with a lease, and while it is on its way.
RenewKept == RenewOutstanding /\ (lease.id = 0 => ~lease.renewSent)

Inv == TypeInv /\ Handshake /\ Places /\ Travelling /\ RenewKept

-----------------------------------------------------------------------------
(* Wires.                                                                  *)

\* Appending to a wire adds one message.
LEMMA AppendWire ==
    ASSUME NEW s \in Seq(MsgT), NEW m \in MsgT
    PROVE  /\ Append(s, m) \in Seq(MsgT)
           /\ \A M : NoneOf(s, M) /\ m \notin M => NoneOf(Append(s, m), M)
           /\ \A M : OneOf(s, M) /\ m \notin M => OneOf(Append(s, m), M)
           /\ \A M : NoneOf(s, M) /\ m \in M => OneOf(Append(s, m), M)
  <1>1. /\ Append(s, m) \in Seq(MsgT) /\ Len(Append(s, m)) = Len(s) + 1
        /\ \A k \in 1 .. Len(s) : Append(s, m)[k] = s[k]
        /\ Append(s, m)[Len(s) + 1] = m
        /\ Len(s) + 1 \in 1 .. Len(s) + 1
        /\ \A k \in 1 .. Len(s) : k \in 1 .. Len(s) + 1
        /\ \A k \in 1 .. Len(s) + 1 : k \in 1 .. Len(s) \/ k = Len(s) + 1
    OBVIOUS
  <1>. QED  BY <1>1 DEF NoneOf, OneOf

\* The first message that is appended leads, later ones do not change the lead.
LEMMA AppendLead ==
    ASSUME NEW s \in Seq(MsgT), NEW m \in MsgT
    PROVE  /\ Append(s, m) # <<>>
           /\ s = <<>> => Head(Append(s, m)) = m /\ Tail(Append(s, m)) = <<>>
           /\ s # <<>> => /\ Head(Append(s, m)) = Head(s)
                          /\ Tail(Append(s, m)) = Append(Tail(s), m)
                          /\ Tail(s) \in Seq(MsgT)
  OBVIOUS

\* Reading from a wire removes the first message.
LEMMA TailWire ==
    ASSUME NEW s \in Seq(MsgT), s # <<>>
    PROVE  /\ Tail(s) \in Seq(MsgT) /\ Head(s) \in MsgT
           /\ \A M : NoneOf(s, M) => NoneOf(Tail(s), M) /\ Head(s) \notin M
           /\ \A M : OneOf(s, M) /\ Head(s) \notin M => OneOf(Tail(s), M)
           /\ \A M : OneOf(s, M) /\ Head(s) \in M => NoneOf(Tail(s), M)
           /\ \A M : NoneOf(Tail(s), M) /\ Head(s) \notin M => NoneOf(s, M)
  <1>1. /\ Tail(s) \in Seq(MsgT) /\ Head(s) \in MsgT /\ Len(s) \in Nat /\ Len(s) >= 1
        /\ Len(Tail(s)) = Len(s) - 1 /\ Head(s) = s[1]
        /\ \A k \in 1 .. Len(Tail(s)) : Tail(s)[k] = s[k + 1]
    OBVIOUS
  <1>2. /\ 1 \in 1 .. Len(s)
        /\ \A k \in 1 .. Len(Tail(s)) : k + 1 \in 1 .. Len(s) /\ k + 1 # 1
        /\ \A k \in 1 .. Len(s) : k # 1 => k - 1 \in 1 .. Len(Tail(s)) /\ (k - 1) + 1 = k
        /\ \A j, k \in 1 .. Len(Tail(s)) : j + 1 = k + 1 => j = k
    BY <1>1
  <1>3. ASSUME NEW M, NoneOf(s, M)
        PROVE  NoneOf(Tail(s), M) /\ Head(s) \notin M
    BY <1>1, <1>2, <1>3 DEF NoneOf
  <1>4. ASSUME NEW M, OneOf(s, M), Head(s) \notin M
        PROVE  OneOf(Tail(s), M)
    <2>1. PICK k \in 1 .. Len(s) : s[k] \in M /\ \A j \in 1 .. Len(s) : s[j] \in M => j = k
      BY <1>4, Zenon DEF OneOf
    <2>2. k # 1
      BY <1>1, <1>4, <2>1, Zenon
    <2>3. k - 1 \in 1 .. Len(Tail(s)) /\ (k - 1) + 1 = k
      BY <1>2, <2>2, Zenon
    <2>4. \A j \in 1 .. Len(Tail(s)) : Tail(s)[j] \in M => j + 1 = (k - 1) + 1
      BY <1>1, <1>2, <2>1, <2>3, Zenon
    <2>. QED  BY <1>1, <1>2, <2>1, <2>3, <2>4, Zenon DEF OneOf
  <1>5. ASSUME NEW M, OneOf(s, M), Head(s) \in M
        PROVE  NoneOf(Tail(s), M)
    BY <1>1, <1>2, <1>5 DEF OneOf, NoneOf
  <1>6. ASSUME NEW M, NoneOf(Tail(s), M), Head(s) \notin M
        PROVE  NoneOf(s, M)
    BY <1>1, <1>2, <1>6 DEF NoneOf
  <1>. QED  BY <1>1, <1>3, <1>4, <1>5, <1>6, Zenon

\* Sending several messages at once.
LEMMA JoinWire ==
    ASSUME NEW s \in Seq(MsgT), NEW t \in Seq(MsgT)
    PROVE  /\ s \o t \in Seq(MsgT)
           /\ \A M : NoneOf(s, M) /\ NoneOf(t, M) => NoneOf(s \o t, M)
           /\ \A M : OneOf(s, M) /\ NoneOf(t, M) => OneOf(s \o t, M)
           /\ \A M : NoneOf(s, M) /\ OneOf(t, M) => OneOf(s \o t, M)
  <1>1. /\ s \o t \in Seq(MsgT) /\ Len(s) \in Nat /\ Len(t) \in Nat
        /\ Len(s \o t) = Len(s) + Len(t)
        /\ \A k \in 1 .. Len(s) : (s \o t)[k] = s[k]
        /\ \A k \in 1 .. Len(s) + Len(t) : k > Len(s) => (s \o t)[k] = t[k - Len(s)]
    OBVIOUS
  <1>2. /\ \A k \in 1 .. Len(s) : k \in 1 .. Len(s \o t)
        /\ \A k \in 1 .. Len(t) : k + Len(s) \in 1 .. Len(s \o t) /\ (s \o t)[k + Len(s)] = t[k]
        /\ \A k \in 1 .. Len(s \o t) :
               \/ k \in 1 .. Len(s)
               \/ \E j \in 1 .. Len(t) : k = j + Len(s)
    <2>1. ASSUME NEW k \in 1 .. Len(t)
          PROVE  k + Len(s) \in 1 .. Len(s \o t) /\ (s \o t)[k + Len(s)] = t[k]
      <3>1. /\ k + Len(s) \in 1 .. Len(s) + Len(t) /\ k + Len(s) > Len(s)
            /\ (k + Len(s)) - Len(s) = k
        BY <1>1
      <3>. QED  BY <1>1, <3>1, Zenon
    <2>2. ASSUME NEW k \in 1 .. Len(s \o t), k \notin 1 .. Len(s)
          PROVE  \E j \in 1 .. Len(t) : k = j + Len(s)
      <3>1. k - Len(s) \in 1 .. Len(t) /\ k = (k - Len(s)) + Len(s)
        BY <1>1, <2>2
      <3>. QED  BY <3>1, Zenon
    <2>3. \A k \in 1 .. Len(s) : k \in 1 .. Len(s \o t)
      BY <1>1
    <2>. QED  BY <2>1, <2>2, <2>3, Zenon
  <1>3. ASSUME NEW M, NoneOf(s, M), NoneOf(t, M)
        PROVE  NoneOf(s \o t, M)
    BY <1>1, <1>2, <1>3 DEF NoneOf
  <1>4. ASSUME NEW M, OneOf(s, M), NoneOf(t, M)
        PROVE  OneOf(s \o t, M)
    <2>1. PICK k \in 1 .. Len(s) : s[k] \in M /\ \A j \in 1 .. Len(s) : s[j] \in M => j = k
      BY <1>4, Zenon DEF OneOf
    <2>2. \A j \in 1 .. Len(s \o t) : (s \o t)[j] \in M => j = k
      BY <1>1, <1>2, <1>4, <2>1 DEF NoneOf
    <2>. QED  BY <1>1, <1>2, <2>1, <2>2 DEF OneOf
  <1>5. ASSUME NEW M, NoneOf(s, M), OneOf(t, M)
        PROVE  OneOf(s \o t, M)
    <2>1. PICK k \in 1 .. Len(t) : t[k] \in M /\ \A j \in 1 .. Len(t) : t[j] \in M => j = k
      BY <1>5, Zenon DEF OneOf
    <2>2. \A j \in 1 .. Len(s \o t) : (s \o t)[j] \in M => j = k + Len(s)
      BY <1>1, <1>2, <1>5, <2>1 DEF NoneOf
    <2>. QED  BY <1>1, <1>2, <2>1, <2>2, Zenon DEF OneOf
  <1>. QED  BY <1>1, <1>3, <1>4, <1>5, Zenon

\* An empty wire.
LEMMA EmptyWire ==
    /\ <<>> \in Seq(MsgT)
    /\ \A M : NoneOf(<<>>, M)
    /\ \A s \in Seq(MsgT) : (\A m \in MsgT : m \in Auths \/ m \in Except({"auth"})) =>
           (NoneOf(s, Auths) /\ Only(s, {"auth"}) => s = <<>>)
  <1>1. <<>> \in Seq(MsgT) /\ \A M : NoneOf(<<>>, M)
    BY DEF NoneOf
  <1>2. ASSUME NEW s \in Seq(MsgT), \A m \in MsgT : m \in Auths \/ m \in Except({"auth"}),
               NoneOf(s, Auths), Only(s, {"auth"})
        PROVE  s = <<>>
    <2>1. s # <<>> => 1 \in 1 .. Len(s) /\ s[1] \in MsgT
      OBVIOUS
    <2>. QED  BY <1>2, <2>1, Zenon DEF NoneOf, Only
  <1>. QED  BY <1>1, <1>2, Zenon

-----------------------------------------------------------------------------
(* Messages.                                                               *)

\* The sets of messages, by the fields of a message.
LEMMA Fields ==
    ASSUME NEW m \in MsgT
    PROVE  /\ m.type \in {"request", "reply"} => m.op \in Op
           /\ m.type \notin {"request", "reply"} => m.op \in Other /\ m.op \notin Op
           /\ m.type \in {"request", "reply", "auth", "hello", "response", "alloc", "heartbeat"}
           /\ m.ok \in BOOLEAN
           /\ m \in Auths <=> m.type = "auth"
           /\ \A types : m \in Except(types) <=> m.type \notin types
           /\ \A op : m \in Carry(op) <=> m.op = op
           /\ \A D : m \in Stray(D) <=> m.type \in {"request", "reply"} /\ m.op \notin D
  <1>1. /\ m.type \in {"request", "reply"} => m.op \in Op
        /\ m.type \notin {"request", "reply"} => m.op \in Other
        /\ m.type \in {"request", "reply", "auth", "hello", "response", "alloc", "heartbeat"}
        /\ m.ok \in BOOLEAN
    BY DEF MsgT
  <1>2. m.op \in Other => m.op \notin Op
    BY DEF Other, Op
  <1>. QED  BY <1>1, <1>2 DEF Auths, Except, Carry, Stray

\* What Msg makes: a message that is not about a request, or one that is.
LEMMA Made ==
    ASSUME NEW m, NEW ty, NEW op, NEW ok \in BOOLEAN, m = Msg(ty, op, ok),
           \/ ty \in {"auth", "hello", "response", "alloc", "heartbeat"} /\ op \in Other
           \/ ty \in {"request", "reply"} /\ op \in Op
    PROVE  m \in MsgT /\ m.type = ty /\ m.op = op
  BY DEF Msg, MsgT

\* The same for a message that is always sent as a success.
LEMMA MadeTrue ==
    ASSUME NEW m, NEW ty, NEW op, m = Msg(ty, op, TRUE),
           \/ ty \in {"auth", "hello", "response", "alloc", "heartbeat"} /\ op \in Other
           \/ ty \in {"request", "reply"} /\ op \in Op
    PROVE  m \in MsgT /\ m.type = ty /\ m.op = op
  BY DEF Msg, MsgT

\* A message that is not about a request.
LEMMA Notice ==
    ASSUME NEW m \in MsgT, m.type \notin {"request", "reply"}
    PROVE  /\ \A D : m \notin Stray(D)
           /\ \A o \in Op : m \notin Carry(o)
           /\ m \in Auths <=> m.type = "auth"
           /\ \A types : m \in Except(types) <=> m.type \notin types
  BY Fields DEF Carry, Stray

\* The messages that carry nothing, and those about an allocation.
LEMMA NoOps == NoOp \in Other /\ \A id \in 0 .. MaxLeases : AllocOp(id) \in Other /\ AllocOp(id).lease = id
  BY BoundsAssumption DEF NoOp, AllocOp, Other

\* A request or its reply.
LEMMA Call ==
    ASSUME NEW m \in MsgT, m.type \in {"request", "reply"}
    PROVE  /\ m \notin Auths
           /\ \A o : m \in Carry(o) <=> m.op = o
           /\ \A D : m \in Stray(D) <=> m.op \notin D
           /\ \A types : m \in Except(types) <=> m.type \notin types
  BY Fields

\* Authentication messages and others are all there are.
LEMMA NothingLeft ==
    ASSUME NEW s \in Seq(MsgT), NoneOf(s, Auths), Only(s, {"auth"})
    PROVE  s = <<>>
  <1>1. \A m \in MsgT : m \in Auths \/ m \in Except({"auth"})
    BY Fields
  <1>. QED  BY <1>1, EmptyWire, Zenon

\* A wire with messages of some types has none of another type.
LEMMA OnlyNone ==
    ASSUME NEW s \in Seq(MsgT), NEW types, Only(s, types)
    PROVE  /\ {"request", "reply"} \cap types = {} =>
                   (\A D : NoneOf(s, Stray(D))) /\ (\A op \in Op : NoneOf(s, Carry(op)))
           /\ "auth" \notin types => NoneOf(s, Auths)
           /\ \A more : types \subseteq more => Only(s, more)
           /\ s # <<>> => Head(s).type \in types
  <1>1. \A k \in 1 .. Len(s) : s[k] \in MsgT
    OBVIOUS
  <1>2. \A k \in 1 .. Len(s) : s[k].type \in types
    BY <1>1 DEF Only, NoneOf, Except
  <1>3. {"request", "reply"} \cap types = {} =>
            \A k \in 1 .. Len(s) : s[k].type \notin {"request", "reply"}
    BY <1>2
  <1>4. ASSUME {"request", "reply"} \cap types = {}
        PROVE  (\A D : NoneOf(s, Stray(D))) /\ (\A op \in Op : NoneOf(s, Carry(op)))
    <2>1. \A k \in 1 .. Len(s) : \A D : s[k] \notin Stray(D)
      BY <1>1, <1>3, <1>4 DEF Stray
    <2>2. \A k \in 1 .. Len(s) : \A op \in Op : s[k] \notin Carry(op)
      <3>1. \A k \in 1 .. Len(s) : s[k].op \notin Op
        BY <1>1, <1>3, <1>4, Fields, Zenon
      <3>. QED  BY <3>1 DEF Carry
    <2>. QED  BY <2>1, <2>2, Zenon DEF NoneOf
  <1>5. "auth" \notin types => NoneOf(s, Auths)
    BY <1>2 DEF NoneOf, Auths
  <1>6. \A more : types \subseteq more => Only(s, more)
    BY <1>2 DEF NoneOf, Only, Except
  <1>7. s # <<>> => 1 \in 1 .. Len(s) /\ Head(s) = s[1]
    OBVIOUS
  <1>. QED  BY <1>2, <1>4, <1>5, <1>6, <1>7, Zenon

\* The requests of a sequence of ops: each is there once if they are distinct.
LEMMA RequestWire ==
    ASSUME NEW ops \in Seq(Op), \A j, k \in 1 .. Len(ops) : ops[j] = ops[k] => j = k
    PROVE  /\ Requests(ops) \in Seq(MsgT)
           /\ Only(Requests(ops), {"request"}) /\ NoneOf(Requests(ops), Auths)
           /\ \A D : (\A k \in 1 .. Len(ops) : ops[k] \in D) => NoneOf(Requests(ops), Stray(D))
           /\ \A op : (\A k \in 1 .. Len(ops) : ops[k] # op) => NoneOf(Requests(ops), Carry(op))
           /\ \A k \in 1 .. Len(ops) : OneOf(Requests(ops), Carry(ops[k]))
  <1>1. \A k \in 1 .. Len(ops) : ops[k] \in Op
    OBVIOUS
  <1>2. /\ Len(ops) \in Nat
        /\ Requests(ops) = [k \in 1 .. Len(ops) |-> Msg("request", ops[k], TRUE)]
    BY DEF Requests
  <1>4. \A k \in 1 .. Len(ops) : Msg("request", ops[k], TRUE) \in MsgT
    BY <1>1 DEF Msg, MsgT
  <1>5. Requests(ops) \in Seq(MsgT) /\ Len(Requests(ops)) = Len(ops)
    <2>. DEFINE f == Requests(ops)
    <2>1. f \in [1 .. Len(ops) -> MsgT]
      BY <1>2, <1>4, Zenon
    <2>. HIDE DEF f
    <2>2. f \in Seq(MsgT) /\ Len(f) = Len(ops)
      BY <1>2, <2>1
    <2>. QED  BY <2>2, Zenon DEF f
  <1>6. \A k \in 1 .. Len(ops) : Requests(ops)[k] = Msg("request", ops[k], TRUE)
    BY <1>2, Zenon
  <1>7. \A k \in 1 .. Len(ops) :
            /\ Requests(ops)[k] \notin Except({"request"}) /\ Requests(ops)[k] \notin Auths
            /\ \A o : Requests(ops)[k] \in Carry(o) <=> ops[k] = o
            /\ \A D : Requests(ops)[k] \in Stray(D) <=> ops[k] \notin D
    <2>. TAKE k \in 1 .. Len(ops)
    <2>1. PICK m : m = Msg("request", ops[k], TRUE)
      BY Zenon
    <2>2. /\ m \notin Except({"request"}) /\ m \notin Auths
          /\ \A o : m \in Carry(o) <=> ops[k] = o
          /\ \A D : m \in Stray(D) <=> ops[k] \notin D
      <3>1. m \in MsgT
        BY <1>4, <2>1, Zenon
      <3>2. m.type = "request" /\ m.op = ops[k]
        BY <2>1 DEF Msg
      <3>. QED  BY <3>1, <3>2 DEF Except, Auths, Carry, Stray
    <2>3. Requests(ops)[k] = m
      BY <1>6, <2>1, Zenon
    <2>. QED  BY <2>2, <2>3
  <1>8. /\ Only(Requests(ops), {"request"}) /\ NoneOf(Requests(ops), Auths)
        /\ \A D : (\A k \in 1 .. Len(ops) : ops[k] \in D) => NoneOf(Requests(ops), Stray(D))
        /\ \A op : (\A k \in 1 .. Len(ops) : ops[k] # op) => NoneOf(Requests(ops), Carry(op))
    BY <1>5, <1>7, Zenon DEF Only, NoneOf
  <1>9. \A k \in 1 .. Len(ops) : OneOf(Requests(ops), Carry(ops[k]))
    <2>. TAKE k \in 1 .. Len(ops)
    <2>1. Requests(ops)[k] \in Carry(ops[k])
      BY <1>7, Zenon
    <2>2. \A j \in 1 .. Len(ops) : Requests(ops)[j] \in Carry(ops[k]) => j = k
      BY <1>7, Zenon
    <2>. QED  BY <1>5, <2>1, <2>2, Zenon DEF OneOf
  <1>. QED  BY <1>5, <1>8, <1>9, Zenon

-----------------------------------------------------------------------------
(* Where requests are.                                                     *)

\* Completing requests that were sent.
LEMMA PlacesCompleted ==
    ASSUME TypeInv, Places, NEW S, S \subseteq dispatched, dispatched' = dispatched \ S,
           done' = Completed(S), pending' = pending
    PROVE  /\ Places' /\ dispatched' \subseteq Op /\ IsFiniteSet(dispatched')
           /\ done' \in Seq({0, 1}) /\ Len(done') = Len(done)
  <1>0. /\ pending \in Seq(Op) /\ dispatched \subseteq Op /\ IsFiniteSet(dispatched)
        /\ done \in Seq({0, 1}) /\ Len(done) <= MaxOps /\ MaxOps \in Nat /\ Len(done) \in Nat
    BY BoundsAssumption DEF TypeInv
  <1>1. /\ \A j, k \in 1 .. Len(pending) : pending[j].seq = pending[k].seq => j = k
        /\ \A a, b \in dispatched : a.seq = b.seq => a = b
        /\ \A s \in 1 .. MaxOps : ~(Queued(s) /\ Sent(s))
        /\ \A s \in 1 .. MaxOps : Queued(s) \/ Sent(s) => s \in 1 .. Len(done) /\ done[s] = 0
        /\ \A s \in 1 .. Len(done) : done[s] = 0 => Queued(s) \/ Sent(s)
    BY DEF Places
  <1>2. /\ dispatched' \subseteq Op /\ IsFiniteSet(dispatched')
        /\ dispatched' \subseteq dispatched
    BY <1>0, FS_Subset
  <1>3. \A op \in dispatched : op.seq \in 1 .. MaxOps /\ Sent(op.seq)
    BY <1>0 DEF Op, Sent
  <1>4. \A s : (\E op \in S : op.seq = s) => s \in 1 .. MaxOps /\ Sent(s)
    BY <1>3
  <1>5. \A s \in 1 .. Len(done) : (\E op \in S : op.seq = s) => done[s] = 0
    BY <1>1, <1>4, Zenon
  <1>6. /\ DOMAIN done = 1 .. Len(done)
        /\ \A s \in 1 .. Len(done) : done[s] \in {0, 1}
    BY <1>0
  <1>7. /\ done' = [s \in 1 .. Len(done) |->
                        IF \E op \in S : op.seq = s THEN done[s] + 1 ELSE done[s]]
    BY <1>6 DEF Completed
  <1>8. \A s \in 1 .. Len(done) :
            /\ (\E op \in S : op.seq = s) => done'[s] = 1
            /\ ~(\E op \in S : op.seq = s) => done'[s] = done[s]
    BY <1>5, <1>7
  <1>9. done' \in [1 .. Len(done) -> {0, 1}]
    BY <1>6, <1>7, <1>8
  <1>10. done' \in Seq({0, 1}) /\ Len(done') = Len(done)
    BY <1>0, <1>9
  <1>11. \A s : Sent(s)' <=> Sent(s) /\ ~(\E op \in S : op.seq = s)
    <2>1. ASSUME NEW s, Sent(s)'
          PROVE  Sent(s) /\ ~(\E op \in S : op.seq = s)
      BY <1>1, <2>1 DEF Sent
    <2>2. ASSUME NEW s, Sent(s), ~(\E op \in S : op.seq = s)
          PROVE  Sent(s)'
      BY <2>2 DEF Sent
    <2>. QED  BY <2>1, <2>2, Zenon
  <1>12. \A s : Queued(s)' <=> Queued(s)
    BY DEF Queued
  <1>13. \A s \in 1 .. MaxOps : ~(Queued(s)' /\ Sent(s)')
    BY <1>1, <1>11, <1>12, Zenon
  <1>14. \A s \in 1 .. MaxOps :
             Queued(s)' \/ Sent(s)' => s \in 1 .. Len(done') /\ done'[s] = 0
    <2>1. \A s \in 1 .. MaxOps : Queued(s) => ~(\E op \in S : op.seq = s)
      BY <1>1, <1>4, Zenon
    <2>. QED  BY <1>1, <1>8, <1>10, <1>11, <1>12, <2>1
  <1>15. \A s \in 1 .. Len(done') : done'[s] = 0 => Queued(s)' \/ Sent(s)'
    <2>1. \A s \in 1 .. Len(done) : done'[s] = 0 => ~(\E op \in S : op.seq = s) /\ done[s] = 0
      BY <1>8
    <2>. QED  BY <1>1, <1>10, <1>11, <1>12, <2>1, Zenon
  <1>. QED  BY <1>1, <1>2, <1>10, <1>13, <1>14, <1>15, Zenon DEF Places

\* A new request that is queued, or sent at once.
LEMMA PlacesNew ==
    ASSUME TypeInv, Places, Len(done) < MaxOps, NEW op \in Op, op.seq = Len(done) + 1,
           done' = Append(done, 0),
           \/ dispatched' = dispatched \cup {op} /\ pending' = pending
           \/ dispatched' = dispatched /\ pending' = Append(pending, op)
    PROVE  /\ Places' /\ dispatched' \subseteq Op /\ IsFiniteSet(dispatched')
           /\ pending' \in Seq(Op) /\ done' \in Seq({0, 1}) /\ Len(done') <= MaxOps
           /\ op \notin dispatched /\ ~IsSent(op.seq)
           /\ op \in Range(pending') \cup dispatched'
           /\ Range(pending) \cup dispatched \subseteq Range(pending') \cup dispatched'
  <1>0. /\ pending \in Seq(Op) /\ dispatched \subseteq Op /\ IsFiniteSet(dispatched)
        /\ done \in Seq({0, 1}) /\ Len(done) <= MaxOps /\ MaxOps \in Nat /\ Len(done) \in Nat
    BY BoundsAssumption DEF TypeInv
  <1>1. /\ \A j, k \in 1 .. Len(pending) : pending[j].seq = pending[k].seq => j = k
        /\ \A a, b \in dispatched : a.seq = b.seq => a = b
        /\ \A s \in 1 .. MaxOps : ~(Queued(s) /\ Sent(s))
        /\ \A s \in 1 .. MaxOps : Queued(s) \/ Sent(s) => s \in 1 .. Len(done) /\ done[s] = 0
        /\ \A s \in 1 .. Len(done) : done[s] = 0 => Queued(s) \/ Sent(s)
    BY DEF Places
  <1>2. /\ op.seq \in 1 .. MaxOps /\ op.seq \notin 1 .. Len(done)
        /\ done' \in Seq({0, 1}) /\ Len(done') = op.seq /\ Len(done') <= MaxOps
        /\ \A s \in 1 .. Len(done) : done'[s] = done[s] /\ s \in 1 .. Len(done')
        /\ done'[op.seq] = 0 /\ op.seq \in 1 .. Len(done')
        /\ \A s \in 1 .. Len(done') : s \in 1 .. Len(done) \/ s = op.seq
    BY <1>0
  <1>3. ~Queued(op.seq) /\ ~Sent(op.seq)
    BY <1>1, <1>2, Zenon
  <1>4. op \notin dispatched /\ ~IsSent(op.seq)
    BY <1>3, Zenon DEF Sent, IsSent
  <1>5. dispatched' \subseteq Op /\ IsFiniteSet(dispatched') /\ pending' \in Seq(Op)
    <2>1. IsFiniteSet(dispatched \cup {op})
      BY <1>0, FS_AddElement, Zenon
    <2>2. IsFiniteSet(dispatched')
      BY <1>0, <2>1, Zenon
    <2>3. dispatched' \subseteq Op /\ pending' \in Seq(Op)
      BY <1>0
    <2>. QED  BY <2>2, <2>3, Zenon
  <1>. DEFINE Moved ==
        /\ \A s : Queued(s)' \/ Sent(s)' <=> Queued(s) \/ Sent(s) \/ s = op.seq
        /\ \A s : Queued(s)' => Queued(s) \/ (s = op.seq /\ pending' = Append(pending, op))
        /\ \A s : Sent(s)' => Sent(s) \/ (s = op.seq /\ dispatched' = dispatched \cup {op})
        /\ \A j, k \in 1 .. Len(pending') : pending'[j].seq = pending'[k].seq => j = k
        /\ \A a, b \in dispatched' : a.seq = b.seq => a = b
        /\ op \in Range(pending') \cup dispatched'
        /\ Range(pending) \cup dispatched \subseteq Range(pending') \cup dispatched'
  <1>6. Moved
    <2>1. ASSUME dispatched' = dispatched \cup {op}, pending' = pending
          PROVE  Moved
      <3>1. \A s : Queued(s)' <=> Queued(s)
        BY <2>1 DEF Queued
      <3>2. \A s : Sent(s)' <=> Sent(s) \/ s = op.seq
        BY <2>1 DEF Sent
      <3>3. \A a, b \in dispatched' : a.seq = b.seq => a = b
        BY <1>1, <1>3, <2>1 DEF Sent
      <3>4. /\ op \in Range(pending') \cup dispatched'
            /\ Range(pending) \cup dispatched \subseteq Range(pending') \cup dispatched'
        BY <2>1
      <3>. QED  BY <1>1, <2>1, <3>1, <3>2, <3>3, <3>4, Zenon
    <2>2. ASSUME dispatched' = dispatched, pending' = Append(pending, op)
          PROVE  Moved
      <3>0. /\ Len(pending') = Len(pending) + 1 /\ Len(pending) \in Nat
            /\ \A k \in 1 .. Len(pending) : pending'[k] = pending[k] /\ k \in 1 .. Len(pending')
            /\ Len(pending') \in 1 .. Len(pending') /\ pending'[Len(pending')] = op
            /\ \A k \in 1 .. Len(pending') : k \in 1 .. Len(pending) \/ k = Len(pending')
            /\ DOMAIN pending = 1 .. Len(pending) /\ DOMAIN pending' = 1 .. Len(pending')
        BY <1>0, <2>2
      <3>1. \A s : Queued(s)' <=> Queued(s) \/ s = op.seq
        BY <3>0 DEF Queued
      <3>2. \A s : Sent(s)' <=> Sent(s)
        BY <2>2 DEF Sent
      <3>3. \A j, k \in 1 .. Len(pending') : pending'[j].seq = pending'[k].seq => j = k
        <4>1. \A j \in 1 .. Len(pending) : pending[j].seq # op.seq
          BY <1>3, Zenon DEF Queued
        <4>. QED  BY <1>1, <3>0, <4>1
      <3>4. /\ op \in Range(pending') \cup dispatched'
            /\ Range(pending) \cup dispatched \subseteq Range(pending') \cup dispatched'
        BY <2>2, <3>0 DEF Range
      <3>. QED  BY <1>1, <2>2, <3>1, <3>2, <3>3, <3>4, Zenon
    <2>. QED  BY <2>1, <2>2, Zenon
  <1>7. \A s \in 1 .. MaxOps : ~(Queued(s)' /\ Sent(s)')
    <2>1. ~(dispatched' = dispatched \cup {op} /\ pending' = Append(pending, op))
      <3>1. Append(pending, op) # pending
        BY <1>0
      <3>2. dispatched \cup {op} # dispatched
        BY <1>4
      <3>. QED  BY <3>1, <3>2, Zenon
    <2>. QED  BY <1>1, <1>3, <1>6, <2>1, Zenon
  <1>8. \A s \in 1 .. MaxOps :
            Queued(s)' \/ Sent(s)' => s \in 1 .. Len(done') /\ done'[s] = 0
    BY <1>1, <1>2, <1>6
  <1>9. \A s \in 1 .. Len(done') : done'[s] = 0 => Queued(s)' \/ Sent(s)'
    BY <1>1, <1>2, <1>6
  <1>. QED  BY <1>2, <1>4, <1>5, <1>6, <1>7, <1>8, <1>9, Zenon DEF Places

\* Sending the requests that are queued.
LEMMA PlacesDispatched ==
    ASSUME TypeInv, Places, dispatched' = dispatched \cup Range(pending), pending' = <<>>,
           done' = done
    PROVE  /\ Places' /\ dispatched' \subseteq Op /\ IsFiniteSet(dispatched')
           /\ \A j, k \in 1 .. Len(pending) : pending[j] = pending[k] => j = k
           /\ \A k \in 1 .. Len(pending) : pending[k] \notin dispatched
           /\ \A k \in 1 .. Len(pending) : ~IsSent(pending[k].seq)
  <1>0. /\ pending \in Seq(Op) /\ dispatched \subseteq Op /\ IsFiniteSet(dispatched)
        /\ \A k \in 1 .. Len(pending) : pending[k] \in Op /\ pending[k].seq \in 1 .. MaxOps
    <2>1. pending \in Seq(Op) /\ dispatched \subseteq Op /\ IsFiniteSet(dispatched)
      BY Zenon DEF TypeInv
    <2>2. \A k \in 1 .. Len(pending) : pending[k] \in Op
      BY <2>1
    <2>3. \A op \in Op : op.seq \in 1 .. MaxOps
      BY DEF Op
    <2>. QED  BY <2>1, <2>2, <2>3, Zenon
  <1>1. /\ \A j, k \in 1 .. Len(pending) : pending[j].seq = pending[k].seq => j = k
        /\ \A a, b \in dispatched : a.seq = b.seq => a = b
        /\ \A s \in 1 .. MaxOps : ~(Queued(s) /\ Sent(s))
        /\ \A s \in 1 .. MaxOps : Queued(s) \/ Sent(s) => s \in 1 .. Len(done) /\ done[s] = 0
        /\ \A s \in 1 .. Len(done) : done[s] = 0 => Queued(s) \/ Sent(s)
    BY DEF Places
  <1>2. DOMAIN pending = 1 .. Len(pending) /\ Len(pending) \in Nat
    BY <1>0
  <1>3. IsFiniteSet(Range(pending))
    <2>1. IsFiniteSet(1 .. Len(pending))
      BY <1>2, FS_Interval
    <2>2. IsFiniteSet({pending[k] : k \in 1 .. Len(pending)})
      <3>. DEFINE f == [k \in 1 .. Len(pending) |-> pending[k]]
                  T == {pending[k] : k \in 1 .. Len(pending)}
      <3>1. f \in Surjection(1 .. Len(pending), T)
        BY DEF Surjection
      <3>. HIDE DEF f, T
      <3>2. IsFiniteSet(T)
        BY <2>1, <3>1, FS_Surjection, Zenon
      <3>. QED  BY <3>2, Zenon DEF T
    <2>. QED  BY <1>2, <2>2, Zenon DEF Range
  <1>4. IsFiniteSet(dispatched')
    <2>1. IsFiniteSet(dispatched \cup Range(pending))
      BY <1>0, <1>3, FS_Union, Zenon
    <2>. QED  BY <2>1, Zenon
  <1>5. \A op : op \in dispatched' <=>
            op \in dispatched \/ \E k \in 1 .. Len(pending) : op = pending[k]
    BY <1>2 DEF Range
  <1>6. dispatched' \subseteq Op
    BY <1>0, <1>5
  <1>7. \A s : ~Queued(s)' /\ (Sent(s)' <=> Queued(s) \/ Sent(s))
    <2>1. \A s : ~Queued(s)'
      BY DEF Queued
    <2>2. \A s : Sent(s)' <=> Queued(s) \/ Sent(s)
      BY <1>5, Zenon DEF Queued, Sent
    <2>. QED  BY <2>1, <2>2, Zenon
  <1>8. \A k \in 1 .. Len(pending) : \A op \in dispatched : pending[k].seq # op.seq
    BY <1>0, <1>1, Zenon DEF Queued, Sent
  <1>9. \A a, b \in dispatched' : a.seq = b.seq => a = b
    BY <1>1, <1>5, <1>8
  <1>10. /\ \A j, k \in 1 .. Len(pending) : pending[j] = pending[k] => j = k
         /\ \A k \in 1 .. Len(pending) : pending[k] \notin dispatched
    BY <1>1, <1>8
  <1>11. \A j, k \in 1 .. Len(pending') : pending'[j].seq = pending'[k].seq => j = k
    OBVIOUS
  <1>12. \A k \in 1 .. Len(pending) : ~IsSent(pending[k].seq)
    BY <1>8, Zenon DEF IsSent
  <1>. QED  BY <1>1, <1>4, <1>6, <1>7, <1>9, <1>10, <1>11, <1>12, Zenon DEF Places

\* Steps that leave the requests alone.
LEMMA PlacesKept ==
    ASSUME Places, UNCHANGED <<pending, dispatched, done>>
    PROVE  Places'
  BY DEF Places, Queued, Sent

\* The clerk waits for a renewal that is still there.
LEMMA RenewStays ==
    ASSUME RenewKept, lease' \in {lease, NoLease} \/ ~lease'.renewSent,
           Range(pending) \cup dispatched \subseteq Range(pending') \cup dispatched'
    PROVE  RenewKept'
  BY DEF RenewKept, RenewOutstanding, NoLease

-----------------------------------------------------------------------------
(* The steps of the chunk server.                                          *)

\* Connecting starts with empty wires.
LEMMA ConnectStep ==
    ASSUME Inv, Connect
    PROVE  Inv'
  <1>0. TypeInv /\ Handshake /\ Places /\ Travelling /\ RenewKept
    BY Zenon DEF Inv
  <1>1. TypeInv'
    BY <1>0, EmptyWire, Zenon DEF TypeInv, Connect, clerk, meta, bounds
  <1>2. /\ c2m' = <<>> /\ m2c' = <<>> /\ responses' = <<>>
        /\ authOp' = FALSE /\ helloOp' = FALSE /\ sentHello' = FALSE
        /\ UNCHANGED <<pending, dispatched, done, lease>>
    BY <1>0 DEF Connect, Handshake, clerk
  <1>3. Handshake'
    BY <1>2, EmptyWire, Zenon DEF Handshake, Only, IsUp, IsHandshakeDone
  <1>4. Travelling'
    BY <1>2, EmptyWire, Zenon DEF Travelling, IsUp, IsHandshakeDone
  <1>5. Places' /\ RenewKept'
    BY <1>0, <1>2, PlacesKept DEF RenewKept, RenewOutstanding
  <1>. QED  BY <1>1, <1>3, <1>4, <1>5, Zenon DEF Inv

\* The first message on a connection is the authentication or the hello.
LEMMA NetWroteStep ==
    ASSUME Inv, NetWrote
    PROVE  Inv'
  <1>0. TypeInv /\ Handshake /\ Places /\ Travelling /\ RenewKept
    BY Zenon DEF Inv
  <1>1. c2m \in Seq(MsgT) /\ m2c \in Seq(MsgT)
    BY <1>0, Zenon DEF TypeInv
  <1>2. /\ conn /\ ~authOp /\ ~sentHello /\ ~helloOp
        /\ UNCHANGED <<conn, pending, dispatched, responses, done, lease, m2c>>
    BY DEF NetWrote, clerk
  <1>3. c2m = <<>> /\ m2c = <<>> /\ responses = <<>>
    BY <1>0, <1>1, <1>2, NothingLeft, Zenon DEF Handshake
  <1>4. PICK ty \in {"auth", "hello"} :
            /\ c2m' = Append(c2m, Msg(ty, NoOp, TRUE))
            /\ ty = "auth" => authOp' = TRUE /\ helloOp' = helloOp /\ sentHello' = sentHello
            /\ ty = "hello" => authOp' = authOp /\ helloOp' = TRUE /\ sentHello' = TRUE
    BY Zenon DEF NetWrote
  <1>5. PICK m : m = Msg(ty, NoOp, TRUE)
    BY Zenon
  <1>6. /\ m \in MsgT /\ m.type = ty /\ \A D : m \notin Stray(D)
        /\ m \in Auths <=> ty = "auth"
        /\ \A types : m \in Except(types) <=> ty \notin types
    <2>1. m \in MsgT /\ m.type = ty
      BY <1>5, MadeTrue, NoOps, Zenon
    <2>. QED  BY <2>1, Notice
  <1>7. c2m' = Append(c2m, m) /\ c2m' \in Seq(MsgT)
    BY <1>1, <1>4, <1>5, <1>6, AppendWire, Zenon
  <1>8. TypeInv'
    <2>1. died' = FALSE
      BY <1>2, Zenon DEF NetWrote, InvalidStart
    <2>. QED  BY <1>0, <1>7, <2>1, Zenon DEF TypeInv, NetWrote, clerk, meta, bounds
  <1>9. /\ \A M : m \notin M => NoneOf(c2m', M)
        /\ \A M : m \in M => OneOf(c2m', M)
        /\ \A M : NoneOf(m2c', M) /\ NoneOf(responses', M)
        /\ c2m' # <<>> /\ Head(c2m') = m /\ Tail(c2m') = <<>>
    <2>1. \A M : NoneOf(c2m, M) /\ NoneOf(m2c, M) /\ NoneOf(responses, M)
      BY <1>3, EmptyWire
    <2>. QED  BY <1>1, <1>2, <1>3, <1>6, <1>7, <2>1, AppendWire, AppendLead, Zenon
  <1>10. Travelling'
    <2>1. ~IsUp'
      BY <1>2, <1>4 DEF IsUp, IsHandshakeDone
    <2>. QED  BY <1>6, <1>9, <2>1, Zenon DEF Travelling
  <1>11. Handshake'
    <2>1. CASE ty = "auth"
      <3>1. m \in Auths /\ m \notin Except({"auth"})
        BY <1>6, <2>1
      <3>2. authOp' /\ ~helloOp' /\ ~sentHello' /\ conn' /\ responses' = <<>>
        BY <1>2, <1>3, <1>4, <2>1
      <3>. QED  BY <1>9, <3>1, <3>2, Zenon DEF Handshake, Only, OneWay, IsUp, IsHandshakeDone
    <2>2. CASE ty = "hello"
      <3>1. m \notin Auths /\ m.type = "hello"
        BY <1>6, <2>2
      <3>2. ~authOp' /\ helloOp' /\ sentHello' /\ conn' /\ responses' = <<>> /\ m2c' = <<>>
        BY <1>2, <1>3, <1>4, <2>2
      <3>3. HelloLeads'
        <4>1. Only(Tail(c2m'), {"response"})
          BY <1>9, EmptyWire, Zenon DEF Only
        <4>. QED  BY <1>9, <3>1, <3>2, <4>1, Zenon DEF HelloLeads
      <3>. QED  BY <1>9, <3>1, <3>2, <3>3, Zenon DEF Handshake, Only, IsUp, IsHandshakeDone
    <2>. QED  BY <2>1, <2>2
  <1>12. Places' /\ RenewKept'
    BY <1>0, <1>2, PlacesKept DEF RenewKept, RenewOutstanding
  <1>. QED  BY <1>8, <1>10, <1>11, <1>12, Zenon DEF Inv

\* Closing the connection empties the wires; what was sent and is not to be
\* retried is completed, and the clerk has no lease.
LEMMA DisconnectStep ==
    ASSUME Inv, Disconnect, helloOp' \in {helloOp, FALSE}, UNCHANGED <<authEnabled, leaseIds>>
    PROVE  Inv'
  <1>0. TypeInv /\ Handshake /\ Places /\ Travelling /\ RenewKept
    BY Zenon DEF Inv
  <1>1. PICK S : S = {op \in dispatched : noRetry(op)}
    BY Zenon
  <1>2. S \subseteq dispatched /\ dispatched' = dispatched \ S /\ done' = Completed(S)
    BY <1>1 DEF Disconnect, FailOps
  <1>3. /\ c2m' = <<>> /\ m2c' = <<>> /\ responses' = <<>> /\ lease' = NoLease
        /\ authOp' = FALSE /\ conn' = FALSE
        /\ UNCHANGED <<sentHello, pending, allocs, died, metaLease, metaAlloc>>
    BY DEF Disconnect, meta
  <1>4. /\ Places' /\ dispatched' \subseteq Op /\ IsFiniteSet(dispatched')
        /\ done' \in Seq({0, 1}) /\ Len(done') = Len(done)
    BY <1>0, <1>2, <1>3, PlacesCompleted, Zenon
  <1>5. TypeInv'
    <2>1. lease' \in [id : 0 .. MaxLeases, renewSent : BOOLEAN]
      BY <1>3, BoundsAssumption DEF NoLease
    <2>2. /\ c2m' \in Seq(MsgT) /\ m2c' \in Seq(MsgT) /\ responses' \in Seq(MsgT)
      BY <1>3, EmptyWire, Zenon
    <2>. QED  BY <1>0, <1>3, <1>4, <2>1, <2>2, Zenon DEF TypeInv
  <1>6. Handshake'
    <2>1. helloOp' => sentHello'
      BY <1>0, <1>3, Zenon DEF Handshake
    <2>. QED  BY <1>3, <2>1, EmptyWire, Zenon DEF Handshake, Only, IsUp, IsHandshakeDone
  <1>7. Travelling'
    BY <1>3, EmptyWire, Zenon DEF Travelling, IsUp, IsHandshakeDone
  <1>8. RenewKept'
    BY <1>3 DEF RenewKept, RenewOutstanding, NoLease
  <1>. QED  BY <1>4, <1>5, <1>6, <1>7, <1>8, Zenon DEF Inv

-----------------------------------------------------------------------------
(* The wires of an open session.                                           *)

\* The part of the invariant about the wires while the session is open, of
\* wires c and m and the requests D that were sent.
UpWires(c, m, D) ==
    /\ Only(c, {"auth", "request", "response"})
    /\ Only(m, {"auth", "reply", "alloc", "heartbeat"})
    /\ NoneOf(c, Stray(D)) /\ NoneOf(m, Stray(D))
    /\ \A op \in D : OneWay(c, m, Carry(op))

\* An authentication has one message on the way.
AuthWires(a, c, m) ==
    /\ a => OneWay(c, m, Auths)
    /\ ~a => NoneOf(c, Auths) /\ NoneOf(m, Auths)

\* The invariant of an open session.
LEMMA UpStart ==
    ASSUME Handshake, Travelling
    PROVE  AuthWires(authOp, c2m, m2c) /\ (IsUp => UpWires(c2m, m2c, dispatched))
  BY Zenon DEF Handshake, Travelling, UpWires, AuthWires

\* What is shown of the wires of an open session gives back the invariant.
LEMMA UpEnd ==
    ASSUME IsUp', UpWires(c2m', m2c', dispatched'), AuthWires(authOp', c2m', m2c'),
           Only(responses', {"response"}), responses' # <<>> => authOp'
    PROVE  Handshake' /\ Travelling'
  BY Zenon DEF Handshake, Travelling, UpWires, AuthWires, IsUp, IsHandshakeDone

\* The chunk server sends a response or an authentication.
LEMMA UpSend ==
    ASSUME NEW c \in Seq(MsgT), NEW m \in Seq(MsgT), NEW D \in SUBSET Op, UpWires(c, m, D),
           NEW n \in MsgT, n.type \in {"auth", "response"}
    PROVE  UpWires(Append(c, n), m, D)
  <1>1. /\ \A D1 : n \notin Stray(D1)
        /\ \A op \in D : n \notin Carry(op)
        /\ n \notin Except({"auth", "request", "response"})
    BY Notice
  <1>. QED  BY <1>1, AppendWire, Zenon DEF UpWires, Only, OneWay

\* Any other message leaves the authentication on its way as it was.
LEMMA AuthSend ==
    ASSUME NEW c \in Seq(MsgT), NEW m \in Seq(MsgT), NEW a, AuthWires(a, c, m),
           NEW n \in MsgT
    PROVE  n.type # "auth" => AuthWires(a, Append(c, n), m) /\ AuthWires(a, c, Append(m, n))
  <1>1. n \in Auths <=> n.type = "auth"
    BY Fields
  <1>2. ASSUME n \notin Auths
        PROVE  AuthWires(a, Append(c, n), m) /\ AuthWires(a, c, Append(m, n))
    BY <1>2, AppendWire, Zenon DEF AuthWires, OneWay
  <1>. QED  BY <1>1, <1>2, Zenon

\* The meta server sends an allocation or a heartbeat.
LEMMA UpTold ==
    ASSUME NEW c \in Seq(MsgT), NEW m \in Seq(MsgT), NEW D \in SUBSET Op, UpWires(c, m, D),
           NEW n \in MsgT, n.type \in {"alloc", "heartbeat"}
    PROVE  UpWires(c, Append(m, n), D)
  <1>1. /\ \A D1 : n \notin Stray(D1)
        /\ \A op \in D : n \notin Carry(op)
        /\ n \notin Except({"auth", "reply", "alloc", "heartbeat"})
    BY Notice
  <1>. QED  BY <1>1, AppendWire, Zenon DEF UpWires, Only, OneWay

\* The chunk server reads a message that is not a reply.
LEMMA UpRead ==
    ASSUME NEW c \in Seq(MsgT), NEW m \in Seq(MsgT), NEW D \in SUBSET Op, UpWires(c, m, D),
           m # <<>>, Head(m).type \notin {"request", "reply"}
    PROVE  UpWires(c, Tail(m), D)
  <1>1. Head(m) \in MsgT /\ \A op \in D : Head(m) \notin Carry(op)
    BY TailWire, Notice
  <1>. QED  BY <1>1, TailWire, Zenon DEF UpWires, Only, OneWay

\* Reading the meta server's answer to an authentication ends it; reading anything
\* else leaves it.
LEMMA AuthRead ==
    ASSUME NEW c \in Seq(MsgT), NEW m \in Seq(MsgT), NEW a, AuthWires(a, c, m), m # <<>>
    PROVE  /\ Head(m).type # "auth" => AuthWires(a, c, Tail(m))
           /\ Head(m).type = "auth" => a /\ AuthWires(FALSE, c, Tail(m))
  <1>1. Head(m) \in MsgT /\ (Head(m) \in Auths <=> Head(m).type = "auth")
    BY TailWire, Fields
  <1>2. ASSUME Head(m) \notin Auths
        PROVE  AuthWires(a, c, Tail(m))
    BY <1>2, TailWire, Zenon DEF AuthWires, OneWay
  <1>3. ASSUME Head(m) \in Auths
        PROVE  a /\ NoneOf(c, Auths) /\ NoneOf(Tail(m), Auths)
    <2>1. ~NoneOf(m, Auths)
      BY <1>3, TailWire, Zenon
    <2>. QED  BY <1>3, <2>1, TailWire, Zenon DEF AuthWires, OneWay
  <1>4. ASSUME Head(m) \in Auths
        PROVE  a /\ AuthWires(FALSE, c, Tail(m))
    BY <1>3, <1>4, Zenon DEF AuthWires
  <1>. QED  BY <1>1, <1>2, <1>4, Zenon

\* The chunk server reads the reply of a request.
LEMMA UpReply ==
    ASSUME NEW c \in Seq(MsgT), NEW m \in Seq(MsgT), NEW D \in SUBSET Op, UpWires(c, m, D),
           m # <<>>, Head(m).type = "reply"
    PROVE  Head(m).op \in D /\ UpWires(c, Tail(m), D \ {Head(m).op})
  <1>. DEFINE o == Head(m).op
  <1>1. /\ Head(m) \in MsgT /\ Head(m).type \in {"request", "reply"}
        /\ \A op : Head(m) \in Carry(op) <=> o = op
        /\ \A D1 : Head(m) \in Stray(D1) <=> o \notin D1
    BY TailWire, Call
  <1>. HIDE DEF o
  <1>2. o \in D
    BY <1>1, TailWire, Zenon DEF UpWires
  <1>3. NoneOf(c, Carry(o)) /\ NoneOf(Tail(m), Carry(o))
    <2>1. ~NoneOf(m, Carry(o))
      BY <1>1, TailWire, Zenon
    <2>. QED  BY <1>1, <1>2, <2>1, TailWire, Zenon DEF UpWires, OneWay
  <1>4. NoneOf(c, Stray(D)) /\ NoneOf(Tail(m), Stray(D))
    BY TailWire, Zenon DEF UpWires
  <1>5. \A x : x \in Stray(D \ {o}) => x \in Stray(D) \/ x \in Carry(o)
    BY DEF Stray, Carry
  <1>6. NoneOf(c, Stray(D \ {o})) /\ NoneOf(Tail(m), Stray(D \ {o}))
    BY <1>3, <1>4, <1>5, Zenon DEF NoneOf
  <1>7. ASSUME NEW op \in D \ {o}
        PROVE  OneWay(c, Tail(m), Carry(op))
    <2>1. op \in D /\ Head(m) \notin Carry(op)
      BY <1>1, <1>7
    <2>. QED  BY <2>1, TailWire, Zenon DEF UpWires, OneWay
  <1>8. UpWires(c, Tail(m), D \ {o})
    BY <1>6, <1>7, TailWire, Zenon DEF UpWires, Only
  <1>. QED  BY <1>2, <1>8, Zenon DEF o

\* A wire has no message about a request that was not sent, and none that was
\* sent becomes a stray when more are sent.
LEMMA Absent ==
    ASSUME NEW s \in Seq(MsgT), NEW D, NoneOf(s, Stray(D))
    PROVE  /\ \A op \in Op : op \notin D => NoneOf(s, Carry(op))
           /\ \A D1 : D \subseteq D1 => NoneOf(s, Stray(D1))
  <1>1. \A op \in Op : op \notin D => \A x : x \in Carry(op) => x \in Stray(D)
    <2>. SUFFICES ASSUME NEW op \in Op, op \notin D, NEW x \in Carry(op)
                  PROVE  x \in Stray(D)
      OBVIOUS
    <2>1. x \in MsgT /\ x.op = op
      BY DEF Carry
    <2>2. x.type \in {"request", "reply"}
      BY <2>1, Fields
    <2>. QED  BY <2>1, <2>2 DEF Stray
  <1>2. \A D1 : D \subseteq D1 => \A x : x \in Stray(D1) => x \in Stray(D)
    BY DEF Stray
  <1>. QED  BY <1>1, <1>2, Zenon DEF NoneOf

\* The requests of ops are distinct and not in D; E has those of D and of ops.
Fresh(ops, D) ==
    /\ \A j, k \in 1 .. Len(ops) : ops[j] = ops[k] => j = k
    /\ \A k \in 1 .. Len(ops) : ops[k] \notin D
Joined(E, D, ops) == \A op : op \in E <=> op \in D \/ \E k \in 1 .. Len(ops) : op = ops[k]

\* The chunk server sends requests that it has not sent before.
LEMMA UpRequests ==
    ASSUME NEW c \in Seq(MsgT), NEW m \in Seq(MsgT), NEW D \in SUBSET Op, UpWires(c, m, D),
           NEW ops \in Seq(Op), Fresh(ops, D), NEW E, Joined(E, D, ops)
    PROVE  /\ c \o Requests(ops) \in Seq(MsgT) /\ UpWires(c \o Requests(ops), m, E)
           /\ \A a : AuthWires(a, c, m) => AuthWires(a, c \o Requests(ops), m)
  <1>. DEFINE r == Requests(ops)
  <1>1. /\ r \in Seq(MsgT) /\ Only(r, {"request"}) /\ NoneOf(r, Auths)
        /\ \A D1 : (\A k \in 1 .. Len(ops) : ops[k] \in D1) => NoneOf(r, Stray(D1))
        /\ \A op : (\A k \in 1 .. Len(ops) : ops[k] # op) => NoneOf(r, Carry(op))
        /\ \A k \in 1 .. Len(ops) : OneOf(r, Carry(ops[k]))
    BY RequestWire, Zenon DEF Fresh
  <1>. HIDE DEF r
  <1>2. D \subseteq E /\ \A k \in 1 .. Len(ops) : ops[k] \in E /\ ops[k] \in Op
    BY DEF Joined
  <1>3. NoneOf(c \o r, Stray(E)) /\ NoneOf(m, Stray(E))
    <2>1. NoneOf(c, Stray(E)) /\ NoneOf(m, Stray(E))
      BY <1>2, Absent, Zenon DEF UpWires
    <2>2. NoneOf(r, Stray(E))
      BY <1>1, <1>2, Zenon
    <2>. QED  BY <1>1, <2>1, <2>2, JoinWire, Zenon
  <1>4. ASSUME NEW op \in E
        PROVE  OneWay(c \o r, m, Carry(op))
    <2>1. CASE op \in D
      <3>1. NoneOf(r, Carry(op))
        BY <1>1, <2>1, Zenon DEF Fresh
      <3>2. OneWay(c, m, Carry(op))
        BY <2>1, Zenon DEF UpWires
      <3>. QED  BY <1>1, <3>1, <3>2, JoinWire, Zenon DEF OneWay
    <2>2. ASSUME NEW k \in 1 .. Len(ops), op = ops[k]
          PROVE  OneWay(c \o r, m, Carry(op))
      <3>1. NoneOf(c, Carry(op)) /\ NoneOf(m, Carry(op))
        BY <1>2, <2>2, Absent, Zenon DEF UpWires, Fresh
      <3>2. OneOf(r, Carry(op))
        BY <1>1, <2>2, Zenon
      <3>. QED  BY <1>1, <3>1, <3>2, JoinWire, Zenon DEF OneWay
    <2>. QED  BY <1>4, <2>1, <2>2, Zenon DEF Joined
  <1>5. /\ Only(c \o r, {"auth", "request", "response"})
        /\ Only(m, {"auth", "reply", "alloc", "heartbeat"})
    <2>1. {"request"} \subseteq {"auth", "request", "response"}
      OBVIOUS
    <2>2. Only(r, {"auth", "request", "response"})
      BY <1>1, <2>1, OnlyNone
    <2>. QED  BY <1>1, <2>2, JoinWire, Zenon DEF UpWires, Only
  <1>6. \A a : AuthWires(a, c, m) => AuthWires(a, c \o r, m)
    BY <1>1, JoinWire, Zenon DEF AuthWires, OneWay
  <1>7. c \o r \in Seq(MsgT) /\ UpWires(c \o r, m, E)
    BY <1>1, <1>3, <1>4, <1>5, JoinWire, Zenon DEF UpWires
  <1>. QED  BY <1>6, <1>7, Zenon DEF r

\* The chunk server sends one request.
LEMMA UpRequest ==
    ASSUME NEW c \in Seq(MsgT), NEW m \in Seq(MsgT), NEW D \in SUBSET Op, UpWires(c, m, D),
           NEW n \in MsgT, n.type = "request", n.op \notin D
    PROVE  /\ Append(c, n) \in Seq(MsgT) /\ UpWires(Append(c, n), m, D \cup {n.op})
           /\ \A a : AuthWires(a, c, m) => AuthWires(a, Append(c, n), m)
  <1>. DEFINE o == n.op
              E == D \cup {o}
  <1>1. /\ n \notin Auths /\ n \notin Except({"auth", "request", "response"})
        /\ n \notin Stray(E) /\ o \in Op
        /\ n \in Carry(o) /\ \A op \in D : n \notin Carry(op)
    BY Call, Fields
  <1>2. o \notin D /\ D \subseteq E /\ \A op \in E : op \in D \/ op = o
    OBVIOUS
  <1>. HIDE DEF o, E
  <1>3. NoneOf(Append(c, n), Stray(E)) /\ NoneOf(m, Stray(E))
    BY <1>1, <1>2, Absent, AppendWire, Zenon DEF UpWires
  <1>4. ASSUME NEW op \in D
        PROVE  OneWay(Append(c, n), m, Carry(op))
    BY <1>1, <1>4, AppendWire, Zenon DEF UpWires, OneWay
  <1>5. OneWay(Append(c, n), m, Carry(o))
    <2>1. NoneOf(c, Carry(o)) /\ NoneOf(m, Carry(o))
      BY <1>1, <1>2, Absent, Zenon DEF UpWires
    <2>. QED  BY <1>1, <2>1, AppendWire, Zenon DEF OneWay
  <1>6. \A op \in E : OneWay(Append(c, n), m, Carry(op))
    BY <1>2, <1>4, <1>5, Zenon
  <1>7. Append(c, n) \in Seq(MsgT) /\ UpWires(Append(c, n), m, E)
    BY <1>1, <1>3, <1>6, AppendWire, Zenon DEF UpWires, Only
  <1>8. \A a : AuthWires(a, c, m) => AuthWires(a, Append(c, n), m)
    BY <1>1, AppendWire, Zenon DEF AuthWires, OneWay
  <1>. QED  BY <1>7, <1>8, Zenon DEF o, E

\* The meta server reads: an authentication comes back, a request is answered,
\* a response is taken.
LEMMA UpAnswer ==
    ASSUME NEW c \in Seq(MsgT), NEW m \in Seq(MsgT), NEW D \in SUBSET Op, UpWires(c, m, D),
           c # <<>>, NEW n \in MsgT,
           \/ Head(c).type = "auth" /\ n.type = "auth"
           \/ Head(c).type = "request" /\ n.type = "reply" /\ n.op = Head(c).op
    PROVE  /\ UpWires(Tail(c), Append(m, n), D)
           /\ \A a : AuthWires(a, c, m) => AuthWires(a, Tail(c), Append(m, n))
  <1>1. PICK h : h = Head(c)
    OBVIOUS
  <1>2. h \in MsgT /\ \A M : NoneOf(c, M) => h \notin M
    BY <1>1, TailWire, Zenon
  <1>3. h \notin Stray(D)
    BY <1>2, Zenon DEF UpWires
  <1>4. /\ h \in Auths <=> n \in Auths
        /\ n \notin Except({"auth", "reply", "alloc", "heartbeat"})
        /\ n \notin Stray(D)
        /\ \A op \in D : h \in Carry(op) <=> n \in Carry(op)
    <2>1. CASE h.type = "auth" /\ n.type = "auth"
      BY <1>2, <2>1, Notice
    <2>2. CASE h.type = "request" /\ n.type = "reply" /\ n.op = h.op
      BY <1>2, <1>3, <2>2, Call
    <2>. QED  BY <1>1, <2>1, <2>2
  <1>5. ASSUME NEW M, h \in M <=> n \in M, OneWay(c, m, M)
        PROVE  OneWay(Tail(c), Append(m, n), M)
    BY <1>1, <1>5, TailWire, AppendWire, Zenon DEF OneWay
  <1>6. \A op \in D : OneWay(Tail(c), Append(m, n), Carry(op))
    BY <1>4, <1>5, Zenon DEF UpWires
  <1>7. UpWires(Tail(c), Append(m, n), D)
    <2>1. /\ Only(Tail(c), {"auth", "request", "response"}) /\ NoneOf(Tail(c), Stray(D))
      BY TailWire, Zenon DEF UpWires, Only
    <2>2. /\ Only(Append(m, n), {"auth", "reply", "alloc", "heartbeat"})
          /\ NoneOf(Append(m, n), Stray(D))
      BY <1>4, AppendWire, Zenon DEF UpWires, Only
    <2>. QED  BY <1>6, <2>1, <2>2, Zenon DEF UpWires
  <1>8. ASSUME NEW a, AuthWires(a, c, m)
        PROVE  AuthWires(a, Tail(c), Append(m, n))
    <2>1. a => OneWay(Tail(c), Append(m, n), Auths)
      BY <1>4, <1>5, <1>8, Zenon DEF AuthWires
    <2>2. ~a => NoneOf(Tail(c), Auths) /\ NoneOf(Append(m, n), Auths)
      BY <1>1, <1>4, <1>8, TailWire, AppendWire, Zenon DEF AuthWires
    <2>. QED  BY <2>1, <2>2, Zenon DEF AuthWires
  <1>. QED  BY <1>7, <1>8, Zenon

\* The meta server takes a response from the connection.
LEMMA UpTaken ==
    ASSUME NEW c \in Seq(MsgT), NEW m \in Seq(MsgT), NEW D \in SUBSET Op, UpWires(c, m, D),
           c # <<>>, Head(c).type = "response"
    PROVE  /\ UpWires(Tail(c), m, D)
           /\ \A a : AuthWires(a, c, m) => AuthWires(a, Tail(c), m)
  <1>1. Head(c) \in MsgT /\ Head(c) \notin Auths /\ \A op \in D : Head(c) \notin Carry(op)
    BY TailWire, Notice
  <1>. QED  BY <1>1, TailWire, Zenon DEF UpWires, AuthWires, Only, OneWay

\* The wires while the hello is on its way, and before it.
LEMMA HelloEnd ==
    ASSUME c2m' \in Seq(MsgT), m2c' \in Seq(MsgT), helloOp', sentHello', authOp' = FALSE, conn',
           responses' = <<>>, HelloLeads'
    PROVE  Handshake' /\ Travelling'
  <1>1. ASSUME NEW s \in Seq(MsgT), NEW types, {"request", "reply", "auth"} \cap types = {},
               Only(s, types) \/ (s # <<>> /\ Head(s).type = "hello" /\ Only(Tail(s), types))
        PROVE  NoneOf(s, Auths) /\ \A D : NoneOf(s, Stray(D))
    <2>1. ASSUME NEW t \in Seq(MsgT), Only(t, types)
          PROVE  NoneOf(t, Auths) /\ \A D : NoneOf(t, Stray(D))
      <3>1. "auth" \notin types /\ {"request", "reply"} \cap types = {}
        BY <1>1
      <3>. QED  BY <2>1, <3>1, OnlyNone, Zenon
    <2>2. ASSUME s # <<>>, Head(s).type = "hello", Only(Tail(s), types)
          PROVE  NoneOf(s, Auths) /\ \A D : NoneOf(s, Stray(D))
      <3>1. Tail(s) \in Seq(MsgT) /\ Head(s) \in MsgT
        BY <2>2, TailWire, Zenon
      <3>2. Head(s) \notin Auths /\ \A D : Head(s) \notin Stray(D)
        BY <2>2, <3>1, Notice
      <3>. QED  BY <2>1, <2>2, <3>1, <3>2, TailWire, Zenon
    <2>. QED  BY <1>1, <2>1, <2>2, Zenon
  <1>2. /\ {"request", "reply", "auth"} \cap {"response"} = {}
        /\ {"request", "reply", "auth"} \cap {"alloc", "heartbeat"} = {}
    OBVIOUS
  <1>3. /\ NoneOf(c2m', Auths) /\ \A D : NoneOf(c2m', Stray(D))
    BY <1>1, <1>2, Zenon DEF HelloLeads
  <1>4. /\ NoneOf(m2c', Auths) /\ \A D : NoneOf(m2c', Stray(D))
    <2>1. CASE m2c' = <<>>
      BY <2>1, EmptyWire, Zenon
    <2>2. CASE m2c' # <<>>
      BY <1>1, <1>2, <2>2, Zenon DEF HelloLeads
    <2>. QED  BY <2>1, <2>2, Zenon
  <1>5. Only(responses', {"response"})
    BY EmptyWire, Zenon DEF Only
  <1>. QED  BY <1>3, <1>4, <1>5, Zenon DEF Handshake, Travelling, IsUp, IsHandshakeDone

\* Before the hello only the authentication may be on the wires.
LEMMA ColdEnd ==
    ASSUME c2m' \in Seq(MsgT), m2c' \in Seq(MsgT), ~helloOp', ~sentHello', conn',
           responses' = <<>>, AuthWires(authOp', c2m', m2c'), Only(c2m', {"auth"}),
           Only(m2c', {"auth"})
    PROVE  Handshake' /\ Travelling'
  <1>1. {"request", "reply"} \cap {"auth"} = {}
    OBVIOUS
  <1>2. NoneOf(c2m', Stray(dispatched')) /\ NoneOf(m2c', Stray(dispatched'))
    BY <1>1, OnlyNone, Zenon
  <1>3. Only(responses', {"response"})
    BY EmptyWire, Zenon DEF Only
  <1>. QED  BY <1>2, <1>3, Zenon DEF Handshake, Travelling, AuthWires, IsUp, IsHandshakeDone

\* Steps that leave the connection alone.
LEMMA WiresKept ==
    ASSUME Handshake, Travelling,
           UNCHANGED <<conn, authOp, helloOp, sentHello, responses, c2m, m2c, dispatched>>
    PROVE  Handshake' /\ Travelling'
  <1>1. Handshake'
    BY DEF Handshake, HelloLeads, IsUp, IsHandshakeDone
  <1>2. Travelling'
    BY DEF Travelling, IsUp, IsHandshakeDone
  <1>. QED  BY <1>1, <1>2

-----------------------------------------------------------------------------
(* The other steps of the chunk server.                                    *)

\* DispatchOps sends each queued request once.
LEMMA DispatchStep ==
    ASSUME Inv, DispatchOps
    PROVE  Inv'
  <1>0. TypeInv /\ Handshake /\ Places /\ Travelling /\ RenewKept
    BY Zenon DEF Inv
  <1>1. /\ IsUp /\ ~authOp /\ dispatched' = dispatched \cup Range(pending)
        /\ c2m' = c2m \o Requests(pending) /\ pending' = <<>>
        /\ UNCHANGED <<conn, authOp, helloOp, sentHello, responses, done, lease, m2c>>
    BY DEF DispatchOps, clerk
  <1>2. /\ Places' /\ dispatched' \subseteq Op /\ IsFiniteSet(dispatched')
        /\ \A j, k \in 1 .. Len(pending) : pending[j] = pending[k] => j = k
        /\ \A k \in 1 .. Len(pending) : pending[k] \notin dispatched
        /\ \A k \in 1 .. Len(pending) : ~IsSent(pending[k].seq)
    BY <1>0, <1>1, PlacesDispatched, Zenon
  <1>3. /\ c2m \in Seq(MsgT) /\ m2c \in Seq(MsgT) /\ pending \in Seq(Op)
        /\ dispatched \in SUBSET Op
    BY <1>0, Zenon DEF TypeInv
  <1>4. \A op : op \in dispatched' <=> op \in dispatched \/ \E k \in 1 .. Len(pending) : op = pending[k]
    BY <1>1, <1>3 DEF Range
  <1>5. AuthWires(authOp, c2m, m2c) /\ UpWires(c2m, m2c, dispatched)
    BY <1>0, <1>1, UpStart, Zenon
  <1>6. /\ c2m \o Requests(pending) \in Seq(MsgT)
        /\ UpWires(c2m \o Requests(pending), m2c, dispatched')
        /\ AuthWires(authOp, c2m \o Requests(pending), m2c)
    <2>1. Fresh(pending, dispatched) /\ Joined(dispatched', dispatched, pending)
      BY <1>2, <1>4, Zenon DEF Fresh, Joined
    <2>. QED  BY <1>3, <1>5, <2>1, UpRequests, Zenon
  <1>7. Handshake' /\ Travelling'
    <2>1. Only(responses', {"response"}) /\ (responses' # <<>> => authOp')
      BY <1>0, <1>1, Zenon DEF Handshake
    <2>2. IsUp'
      BY <1>1 DEF IsUp, IsHandshakeDone
    <2>. QED  BY <1>1, <1>6, <2>1, <2>2, UpEnd
  <1>8. TypeInv'
    <2>1. c2m' \in Seq(MsgT) /\ pending' \in Seq(Op)
      BY <1>1, <1>6
    <2>2. died' = FALSE
      <3>1. \A j, k \in 1 .. Len(pending) : pending[j].seq = pending[k].seq => j = k
        BY <1>0, Zenon DEF Places
      <3>2. DOMAIN pending = 1 .. Len(pending)
        BY <1>3
      <3>. QED  BY <1>2, <3>1, <3>2 DEF DispatchOps
    <2>. QED  BY <1>0, <1>1, <1>2, <2>1, <2>2 DEF TypeInv, DispatchOps, clerk, meta, bounds
  <1>9. RenewKept'
    <2>1. Range(pending) \cup dispatched \subseteq Range(pending') \cup dispatched'
      BY <1>1
    <2>. QED  BY <1>0, <1>1, <2>1, RenewStays
  <1>. QED  BY <1>2, <1>7, <1>8, <1>9, Zenon DEF Inv

\* A new request: EnqueueOp sends it or queues it.
LEMMA RequestStep ==
    ASSUME Inv, NEW kind \in {"renew", "relinquish", "corrupt"}, Request(kind),
           lease' \in [id : 0 .. MaxLeases, renewSent : BOOLEAN]
    PROVE  /\ TypeInv' /\ Handshake' /\ Places' /\ Travelling'
           /\ NewOp(kind) \in Range(pending') \cup dispatched'
           /\ Range(pending) \cup dispatched \subseteq Range(pending') \cup dispatched'
  <1>0. TypeInv /\ Handshake /\ Places /\ Travelling /\ RenewKept
    BY Zenon DEF Inv
  <1>1. PICK op : op = NewOp(kind)
    OBVIOUS
  <1>2. /\ Len(done) < MaxOps /\ EnqueueOp(op)
        /\ UNCHANGED <<conn, authOp, helloOp, sentHello, responses, allocs, m2c, metaLease,
                       metaAlloc, authEnabled, leaseIds, errors, heartbeats>>
    BY <1>1 DEF Request, meta, bounds
  <1>3. op \in Op /\ op.seq = Len(done) + 1
    <2>1. /\ lease.id \in 0 .. MaxLeases /\ Len(done) \in Nat /\ MaxOps \in Nat
          /\ Len(done) + 1 \in 1 .. MaxOps
      BY <1>0, <1>2, BoundsAssumption DEF TypeInv
    <2>. QED  BY <1>1, <2>1 DEF NewOp, Op
  <1>4. /\ c2m \in Seq(MsgT) /\ m2c \in Seq(MsgT) /\ dispatched \in SUBSET Op
    BY <1>0, Zenon DEF TypeInv
  <1>5. PICK n : n = Msg("request", op, TRUE)
    BY Zenon
  <1>6. n \in MsgT /\ n.type = "request" /\ n.op = op
    BY <1>3, <1>5, MadeTrue, Zenon
  <1>7. /\ done' = Append(done, 0)
        /\ \/ /\ ~authOp /\ IsUp /\ dispatched' = dispatched \cup {op} /\ pending' = pending
              /\ c2m' = Append(c2m, n) /\ died' = IsSent(op.seq)
           \/ /\ dispatched' = dispatched /\ pending' = Append(pending, op) /\ c2m' = c2m
              /\ died' = died
    BY <1>2, <1>5, Zenon DEF EnqueueOp
  <1>8. /\ Places' /\ dispatched' \subseteq Op /\ IsFiniteSet(dispatched')
        /\ pending' \in Seq(Op) /\ done' \in Seq({0, 1}) /\ Len(done') <= MaxOps
        /\ op \notin dispatched /\ ~IsSent(op.seq)
        /\ op \in Range(pending') \cup dispatched'
        /\ Range(pending) \cup dispatched \subseteq Range(pending') \cup dispatched'
    BY <1>0, <1>2, <1>3, <1>7, PlacesNew, Zenon
  <1>9. c2m' \in Seq(MsgT) /\ Handshake' /\ Travelling'
    <2>1. ASSUME IsUp, dispatched' = dispatched \cup {op}, c2m' = Append(c2m, n)
          PROVE  c2m' \in Seq(MsgT) /\ Handshake' /\ Travelling'
      <3>1. AuthWires(authOp, c2m, m2c) /\ UpWires(c2m, m2c, dispatched)
        BY <1>0, <2>1, UpStart, Zenon
      <3>2. n.op \notin dispatched
        BY <1>6, <1>8, Zenon
      <3>3. /\ Append(c2m, n) \in Seq(MsgT)
            /\ UpWires(Append(c2m, n), m2c, dispatched \cup {n.op})
            /\ AuthWires(authOp, Append(c2m, n), m2c)
        BY <1>4, <1>6, <3>1, <3>2, UpRequest, Zenon
      <3>4. c2m' \in Seq(MsgT) /\ UpWires(c2m', m2c', dispatched') /\ AuthWires(authOp', c2m', m2c')
        BY <1>2, <1>6, <2>1, <3>3
      <3>5. Only(responses', {"response"}) /\ (responses' # <<>> => authOp')
        BY <1>0, <1>2, Zenon DEF Handshake
      <3>6. IsUp'
        BY <1>2, <2>1 DEF IsUp, IsHandshakeDone
      <3>. QED  BY <3>4, <3>5, <3>6, UpEnd, Zenon
    <2>2. ASSUME dispatched' = dispatched, c2m' = c2m
          PROVE  c2m' \in Seq(MsgT) /\ Handshake' /\ Travelling'
      BY <1>0, <1>2, <1>4, <2>2, WiresKept
    <2>. QED  BY <1>7, <2>1, <2>2, Zenon
  <1>10. TypeInv'
    <2>1. died' = FALSE
      BY <1>0, <1>7, <1>8 DEF TypeInv
    <2>. QED  BY <1>0, <1>2, <1>8, <1>9, <2>1 DEF TypeInv
  <1>. QED  BY <1>1, <1>8, <1>9, <1>10, Zenon

\* The requests of the clerk and the chunk manager.
LEMMA ClerkStep ==
    ASSUME Inv, Renew \/ Expire \/ RelinquishLease \/ CorruptChunk
    PROVE  Inv'
  <1>0. TypeInv /\ Handshake /\ Places /\ Travelling /\ RenewKept
    BY Zenon DEF Inv
  <1>1. lease \in [id : 0 .. MaxLeases, renewSent : BOOLEAN]
    BY <1>0, Zenon DEF TypeInv
  <1>2. NoLease \in [id : 0 .. MaxLeases, renewSent : BOOLEAN] /\ ~NoLease.renewSent
    BY BoundsAssumption DEF NoLease
  <1>3. CASE Renew
    <2>1. /\ Request("renew") /\ lease.id # 0 /\ lease' = [lease EXCEPT !.renewSent = TRUE]
      BY <1>3 DEF Renew
    <2>2. lease' \in [id : 0 .. MaxLeases, renewSent : BOOLEAN] /\ lease'.id = lease.id
      BY <1>1, <2>1, Zenon
    <2>3. /\ TypeInv' /\ Handshake' /\ Places' /\ Travelling'
          /\ NewOp("renew") \in Range(pending') \cup dispatched'
      BY <2>1, <2>2, RequestStep
    <2>4. RenewKept'
      <3>1. NewOp("renew").kind = "renew" /\ NewOp("renew").lease = lease'.id
        BY <2>2 DEF NewOp
      <3>. QED  BY <2>1, <2>2, <2>3, <3>1, Zenon DEF RenewKept, RenewOutstanding
    <2>. QED  BY <2>3, <2>4, Zenon DEF Inv
  <1>4. ASSUME NEW kind \in {"relinquish", "corrupt"}, Request(kind), lease' = NoLease
        PROVE  Inv'
    <2>1. lease' \in [id : 0 .. MaxLeases, renewSent : BOOLEAN] /\ ~lease'.renewSent
      BY <1>2, <1>4, Zenon
    <2>2. /\ TypeInv' /\ Handshake' /\ Places' /\ Travelling'
          /\ Range(pending) \cup dispatched \subseteq Range(pending') \cup dispatched'
      BY <1>4, <2>1, RequestStep
    <2>3. RenewKept'
      BY <1>0, <2>1, <2>2, RenewStays, Zenon
    <2>. QED  BY <2>2, <2>3, Zenon DEF Inv
  <1>5. CASE Expire
    <2>1. /\ lease' = NoLease
          /\ UNCHANGED <<conn, authOp, helloOp, sentHello, responses, c2m, m2c, dispatched, pending,
                         done>>
      BY <1>5 DEF Expire, sm
    <2>2. TypeInv'
      BY <1>0, <1>2, <1>5, Zenon DEF Expire, TypeInv, sm, meta, bounds
    <2>3. RenewKept'
      BY <1>2, <2>1 DEF RenewKept, RenewOutstanding
    <2>. QED  BY <1>0, <2>1, <2>2, <2>3, WiresKept, PlacesKept DEF Inv
  <1>. QED  BY <1>3, <1>4, <1>5 DEF RelinquishLease, CorruptChunk

-----------------------------------------------------------------------------
(* What the chunk server reads.                                            *)

\* The responses that waited for an authentication.
LEMMA UpResponses ==
    ASSUME NEW c \in Seq(MsgT), NEW m \in Seq(MsgT), NEW D \in SUBSET Op, UpWires(c, m, D),
           NEW r \in Seq(MsgT), Only(r, {"response"})
    PROVE  /\ c \o r \in Seq(MsgT) /\ UpWires(c \o r, m, D)
           /\ \A a : AuthWires(a, c, m) => AuthWires(a, c \o r, m)
  <1>1. /\ {"request", "reply"} \cap {"response"} = {} /\ "auth" \notin {"response"}
        /\ {"response"} \subseteq {"auth", "request", "response"}
    OBVIOUS
  <1>2. /\ \A D1 : NoneOf(r, Stray(D1))
        /\ \A op \in Op : NoneOf(r, Carry(op))
        /\ NoneOf(r, Auths)
    BY <1>1, OnlyNone, Zenon
  <1>3. Only(r, {"auth", "request", "response"})
    BY <1>1, OnlyNone
  <1>4. \A op \in D : OneWay(c \o r, m, Carry(op))
    BY <1>2, JoinWire, Zenon DEF UpWires, OneWay
  <1>5. c \o r \in Seq(MsgT) /\ UpWires(c \o r, m, D)
    BY <1>2, <1>3, <1>4, JoinWire, Zenon DEF UpWires, Only
  <1>6. \A a : AuthWires(a, c, m) => AuthWires(a, c \o r, m)
    BY <1>2, JoinWire, Zenon DEF AuthWires, OneWay
  <1>. QED  BY <1>5, <1>6, Zenon

\* What arrives tells the phase of the handshake.
LEMMA Arrives ==
    ASSUME TypeInv, Handshake, conn, m2c # <<>>, NEW m, m = Head(m2c)
    PROVE  /\ m \in MsgT /\ Tail(m2c) \in Seq(MsgT) /\ c2m \in Seq(MsgT) /\ m2c \in Seq(MsgT)
           /\ dispatched \in SUBSET Op
           /\ m.type \in {"auth", "hello", "reply", "alloc", "heartbeat"}
           /\ m.type = "auth" => IsUp \/ (~sentHello /\ ~helloOp)
           /\ m.type = "hello" => helloOp /\ sentHello
           /\ m.type \in {"reply", "alloc", "heartbeat"} => IsUp
  <1>1. c2m \in Seq(MsgT) /\ m2c \in Seq(MsgT) /\ dispatched \in SUBSET Op
    BY Zenon DEF TypeInv
  <1>2. m \in MsgT /\ Tail(m2c) \in Seq(MsgT)
    BY <1>1, TailWire, Zenon
  <1>3. ~sentHello => ~helloOp /\ m.type = "auth"
    <2>1. ~sentHello => ~helloOp /\ Only(m2c, {"auth"})
      BY Zenon DEF Handshake
    <2>2. Only(m2c, {"auth"}) => m.type \in {"auth"}
      BY <1>1, OnlyNone, Zenon
    <2>. QED  BY <2>1, <2>2
  <1>4. helloOp => sentHello /\ m.type = "hello"
    BY Zenon DEF Handshake, HelloLeads
  <1>5. IsUp => m.type \in {"auth", "reply", "alloc", "heartbeat"}
    BY <1>1, OnlyNone, Zenon DEF Handshake
  <1>6. IsUp <=> sentHello /\ ~helloOp
    BY DEF IsUp, IsHandshakeDone
  <1>. QED  BY <1>1, <1>2, <1>3, <1>4, <1>5, <1>6

\* The answer to an authentication, read or completed by the end of the filter.
LEMMA AuthStep ==
    ASSUME Inv, conn, m2c # <<>>, Head(m2c).type = "auth", HandleAuthResponse,
           m2c' = IF conn' THEN Tail(m2c) ELSE <<>>,
           UNCHANGED <<metaLease, metaAlloc, authEnabled, leaseIds>>
    PROVE  Inv'
  <1>0. TypeInv /\ Handshake /\ Places /\ Travelling /\ RenewKept
    BY Zenon DEF Inv
  <1>1. PICK m : m = Head(m2c)
    OBVIOUS
  <1>2. /\ conn /\ m2c # <<>> /\ m.type = "auth" /\ HandleAuthResponse
        /\ m2c' = IF conn' THEN Tail(m2c) ELSE <<>>
        /\ UNCHANGED <<metaLease, metaAlloc, authEnabled, leaseIds>>
    BY <1>1, Zenon
  <1>3. /\ authOp' = FALSE /\ m2c' = Tail(m2c) /\ responses' = <<>>
        /\ UNCHANGED <<conn, pending, dispatched, done, lease, allocs>>
    <2>1. /\ authOp' = FALSE /\ responses' = <<>>
          /\ UNCHANGED <<conn, pending, dispatched, done, lease, allocs>>
      BY DEF HandleAuthResponse
    <2>. QED  BY <1>2, <2>1
  <1>4. /\ m \in MsgT /\ Tail(m2c) \in Seq(MsgT) /\ c2m \in Seq(MsgT) /\ m2c \in Seq(MsgT)
        /\ dispatched \in SUBSET Op
        /\ IsUp \/ (~sentHello /\ ~helloOp)
    BY <1>0, <1>1, <1>2, Arrives, Zenon
  <1>5. authOp /\ AuthWires(FALSE, c2m, Tail(m2c))
    BY <1>0, <1>1, <1>2, <1>4, UpStart, AuthRead, Zenon
  <1>. DEFINE Good == /\ c2m' \in Seq(MsgT) /\ died' = FALSE
                      /\ helloOp' \in BOOLEAN /\ sentHello' \in BOOLEAN
                      /\ Handshake' /\ Travelling'
  <1>6. ASSUME IsUp
        PROVE  Good
    <2>1. IsHandshakeDone
      BY <1>6 DEF IsUp
    <2>2. c2m' = c2m \o responses /\ UNCHANGED <<helloOp, sentHello, died>>
      BY <1>2, <2>1 DEF HandleAuthResponse
    <2>3. UpWires(c2m, Tail(m2c), dispatched)
      <3>1. UpWires(c2m, m2c, dispatched)
        BY <1>0, <1>6, UpStart, Zenon
      <3>2. Head(m2c).type \notin {"request", "reply"}
        BY <1>1, <1>2
      <3>. QED  BY <1>2, <1>4, <3>1, <3>2, UpRead, Zenon
    <2>4. responses \in Seq(MsgT) /\ Only(responses, {"response"})
      BY <1>0, Zenon DEF TypeInv, Handshake
    <2>5. /\ c2m \o responses \in Seq(MsgT) /\ UpWires(c2m \o responses, Tail(m2c), dispatched)
          /\ AuthWires(FALSE, c2m \o responses, Tail(m2c))
      BY <1>4, <1>5, <2>3, <2>4, UpResponses, Zenon
    <2>6. IsUp'
      BY <1>3, <1>6, <2>2 DEF IsUp, IsHandshakeDone
    <2>7. /\ UpWires(c2m', m2c', dispatched') /\ AuthWires(authOp', c2m', m2c')
          /\ c2m' \in Seq(MsgT) /\ Only(responses', {"response"})
      <3>1. Only(responses', {"response"})
        BY <1>3, EmptyWire, Zenon DEF Only
      <3>. QED  BY <1>3, <2>2, <2>5, <3>1, Zenon
    <2>8. Handshake' /\ Travelling'
      BY <1>3, <2>6, <2>7, UpEnd, Zenon
    <2>. QED  BY <1>0, <2>2, <2>7, <2>8 DEF TypeInv
  <1>7. ASSUME ~sentHello, ~helloOp
        PROVE  Good
    <2>1. ~IsHandshakeDone /\ responses = <<>>
      BY <1>0, <1>7, Zenon DEF IsHandshakeDone, IsUp, Handshake
    <2>2. /\ died' = FALSE /\ helloOp' = TRUE /\ sentHello' = TRUE
          /\ c2m' = Append(c2m, Msg("hello", NoOp, TRUE))
      BY <1>2, <1>7, <2>1, Zenon DEF HandleAuthResponse
    <2>3. c2m = <<>> /\ Tail(m2c) = <<>>
      <3>1. Only(c2m, {"auth"}) /\ Only(m2c, {"auth"})
        BY <1>0, <1>2, <1>7, Zenon DEF Handshake
      <3>2. Only(Tail(m2c), {"auth"})
        BY <1>2, <1>4, <3>1, TailWire, Zenon DEF Only
      <3>3. NoneOf(c2m, Auths) /\ NoneOf(Tail(m2c), Auths)
        BY <1>5, Zenon DEF AuthWires
      <3>. QED  BY <1>4, <3>1, <3>2, <3>3, NothingLeft, Zenon
    <2>4. PICK n : n = Msg("hello", NoOp, TRUE)
      BY Zenon
    <2>5. n \in MsgT /\ n.type = "hello"
      BY <2>4, MadeTrue, NoOps, Zenon
    <2>6. c2m' \in Seq(MsgT) /\ c2m' # <<>> /\ Head(c2m') = n /\ Tail(c2m') = <<>>
      <3>1. c2m' = Append(c2m, n)
        BY <2>2, <2>4, Zenon
      <3>. QED  BY <1>4, <2>3, <2>5, <3>1, AppendWire, AppendLead
    <2>7. HelloLeads'
      <3>1. Only(Tail(c2m'), {"response"})
        BY <2>6, EmptyWire, Zenon DEF Only
      <3>. QED  BY <1>3, <2>3, <2>5, <2>6, <3>1 DEF HelloLeads
    <2>8. Handshake' /\ Travelling'
      <3>1. m2c' \in Seq(MsgT) /\ conn' /\ helloOp' /\ sentHello'
        BY <1>2, <1>3, <1>4, <2>2
      <3>. QED  BY <1>3, <2>6, <2>7, <3>1, HelloEnd, Zenon
    <2>. QED  BY <2>2, <2>6, <2>8, Zenon
  <1>8. Good
    BY <1>4, <1>6, <1>7, Zenon
  <1>. HIDE DEF Good
  <1>9. TypeInv'
    <2>1. c2m' \in Seq(MsgT) /\ died' = FALSE /\ helloOp' \in BOOLEAN /\ sentHello' \in BOOLEAN
      BY <1>8, Zenon DEF Good
    <2>2. m2c' \in Seq(MsgT) /\ responses' \in Seq(MsgT)
      BY <1>3, <1>4, EmptyWire, Zenon
    <2>. QED  BY <1>0, <1>2, <1>3, <2>1, <2>2, Zenon DEF TypeInv
  <1>10. Places' /\ RenewKept'
    BY <1>0, <1>3, PlacesKept DEF RenewKept, RenewOutstanding
  <1>. QED  BY <1>8, <1>9, <1>10, Zenon DEF Inv, Good

\* The requests of a sequence have numbers.
LEMMA Numbers ==
    ASSUME NEW s \in Seq(Op), NEW k \in 1 .. Len(s)
    PROVE  s[k] \in Op /\ s[k].seq \in Int
  <1>1. s[k] \in Op
    OBVIOUS
  <1>. QED  BY <1>1 DEF Op

\* The answer to the hello: what was sent before is sent again, once.
LEMMA HelloStep ==
    ASSUME Inv, Receive, Head(m2c).type = "hello"
    PROVE  Inv'
  <1>0. TypeInv /\ Handshake /\ Places /\ Travelling /\ RenewKept
    BY Zenon DEF Inv
  <1>1. PICK m : m = Head(m2c)
    OBVIOUS
  <1>2. /\ conn /\ m2c # <<>> /\ m.type = "hello" /\ HelloReply(m)
        /\ m2c' = IF conn' THEN Tail(m2c) ELSE <<>>
        /\ UNCHANGED <<metaLease, metaAlloc, authEnabled, leaseIds>>
    BY <1>1, Zenon DEF Receive, meta, bounds
  <1>3. /\ m \in MsgT /\ Tail(m2c) \in Seq(MsgT) /\ c2m \in Seq(MsgT) /\ m2c \in Seq(MsgT)
        /\ dispatched \in SUBSET Op /\ helloOp /\ sentHello
    BY <1>0, <1>1, <1>2, Arrives, Zenon
  <1>4. CASE Disconnect
    BY <1>2, <1>4, DisconnectStep, Zenon DEF HelloReply
  <1>5. ASSUME ResubmitOps, UNCHANGED <<conn, authOp, sentHello, pending, dispatched, responses,
                                        done, died, clerk>>
        PROVE  Inv'
    <2>1. /\ helloOp' = FALSE /\ m2c' = Tail(m2c) /\ UNCHANGED <<lease, allocs>>
      BY <1>2, <1>5 DEF HelloReply, clerk
    <2>2. ~authOp /\ Only(c2m, {"response"}) /\ Only(Tail(m2c), {"alloc", "heartbeat"})
      BY <1>0, <1>2, <1>3, Zenon DEF Handshake, HelloLeads
    <2>3. UpWires(c2m, Tail(m2c), {}) /\ AuthWires(authOp, c2m, Tail(m2c))
      <3>1. /\ {"request", "reply"} \cap {"response"} = {} /\ "auth" \notin {"response"}
            /\ {"response"} \subseteq {"auth", "request", "response"}
            /\ {"request", "reply"} \cap {"alloc", "heartbeat"} = {}
            /\ "auth" \notin {"alloc", "heartbeat"}
            /\ {"alloc", "heartbeat"} \subseteq {"auth", "reply", "alloc", "heartbeat"}
        OBVIOUS
      <3>2. /\ NoneOf(c2m, Auths) /\ NoneOf(c2m, Stray({}))
            /\ NoneOf(Tail(m2c), Auths) /\ NoneOf(Tail(m2c), Stray({}))
        BY <1>3, <2>2, <3>1, OnlyNone, Zenon
      <3>3. /\ Only(c2m, {"auth", "request", "response"})
            /\ Only(Tail(m2c), {"auth", "reply", "alloc", "heartbeat"})
        BY <1>3, <2>2, <3>1, OnlyNone, Zenon
      <3>4. \A op \in {} : OneWay(c2m, Tail(m2c), Carry(op))
        OBVIOUS
      <3>. QED  BY <2>2, <3>2, <3>3, <3>4, Zenon DEF UpWires, AuthWires
    <2>4. PICK ops \in [1 .. Cardinality(dispatched) -> dispatched] :
              /\ \A i, j \in DOMAIN ops : i < j => ops[i].seq < ops[j].seq
              /\ Range(ops) = dispatched
              /\ c2m' = c2m \o Requests(ops)
      BY <1>5, Zenon DEF ResubmitOps
    <2>5. ops \in Seq(Op) /\ DOMAIN ops = 1 .. Len(ops)
      <3>1. Cardinality(dispatched) \in Nat
        BY <1>0, FS_CardinalityType, Zenon DEF TypeInv
      <3>2. PICK n \in Nat : n = Cardinality(dispatched)
        BY <3>1, Zenon
      <3>3. ops \in [1 .. n -> dispatched]
        BY <2>4, <3>2, Zenon
      <3>4. ops \in [1 .. n -> Op]
        BY <1>3, <3>3
      <3>. QED  BY <3>4
    <2>6. Fresh(ops, {})
      <3>1. \A k \in 1 .. Len(ops) : ops[k].seq \in Int
        BY <2>5, Numbers, Zenon
      <3>2. \A j, k \in 1 .. Len(ops) : ops[j] = ops[k] => ~(j < k) /\ ~(k < j)
        BY <2>4, <2>5, <3>1
      <3>. QED  BY <3>2 DEF Fresh
    <2>7. Joined(dispatched, {}, ops)
      BY <2>4, <2>5 DEF Joined, Range
    <2>8. /\ c2m \o Requests(ops) \in Seq(MsgT)
          /\ UpWires(c2m \o Requests(ops), Tail(m2c), dispatched)
          /\ AuthWires(authOp, c2m \o Requests(ops), Tail(m2c))
      <3>1. {} \in SUBSET Op
        OBVIOUS
      <3>. QED  BY <1>3, <2>3, <2>5, <2>6, <2>7, <3>1, UpRequests, Zenon
    <2>9. /\ c2m' \in Seq(MsgT) /\ UpWires(c2m', m2c', dispatched')
          /\ AuthWires(authOp', c2m', m2c')
      BY <1>5, <2>1, <2>4, <2>8
    <2>10. Handshake' /\ Travelling'
      <3>1. IsUp'
        BY <1>2, <1>3, <1>5, <2>1 DEF IsUp, IsHandshakeDone
      <3>2. Only(responses', {"response"}) /\ (responses' # <<>> => authOp')
        BY <1>0, <1>5, Zenon DEF Handshake
      <3>. QED  BY <2>9, <3>1, <3>2, UpEnd, Zenon
    <2>11. TypeInv'
      BY <1>0, <1>2, <1>3, <1>5, <2>1, <2>9, Zenon DEF TypeInv
    <2>12. Places' /\ RenewKept'
      BY <1>0, <1>5, <2>1, PlacesKept DEF RenewKept, RenewOutstanding
    <2>. QED  BY <2>10, <2>11, <2>12, Zenon DEF Inv
  <1>. QED  BY <1>2, <1>4, <1>5, Zenon DEF HelloReply

\* The reply of a request.  The clerk no longer waits once a renewal is answered.
LEMMA ReplyStep ==
    ASSUME Inv, Receive, Head(m2c).type = "reply"
    PROVE  Inv'
  <1>0. TypeInv /\ Handshake /\ Places /\ Travelling /\ RenewKept
    BY Zenon DEF Inv
  <1>1. PICK m : m = Head(m2c)
    OBVIOUS
  <1>2. /\ conn /\ m2c # <<>> /\ m.type = "reply" /\ Reply(m)
        /\ m2c' = IF conn' THEN Tail(m2c) ELSE <<>>
        /\ UNCHANGED <<metaLease, metaAlloc, authEnabled, leaseIds>>
    BY <1>1, Zenon DEF Receive, meta, bounds
  <1>3. /\ m.op \in dispatched /\ dispatched' = dispatched \ {m.op} /\ done' = Completed({m.op})
        /\ ClerkDone(m.op, m.ok) /\ m2c' = Tail(m2c)
        /\ UNCHANGED <<conn, authOp, helloOp, sentHello, pending, responses, died, allocs, c2m>>
    <2>1. m2c \in Seq(MsgT) /\ NoneOf(m2c, Stray(dispatched))
      BY <1>0, Zenon DEF TypeInv, Travelling
    <2>2. m \in MsgT /\ m \notin Stray(dispatched)
      BY <1>1, <1>2, <2>1, TailWire, Zenon
    <2>3. m.type \in {"request", "reply"}
      BY <1>2
    <2>4. m.op \in dispatched
      BY <2>2, <2>3, Call, Zenon
    <2>. QED  BY <1>2, <2>4 DEF Reply
  <1>4. /\ m \in MsgT /\ Tail(m2c) \in Seq(MsgT) /\ c2m \in Seq(MsgT) /\ m2c \in Seq(MsgT)
        /\ dispatched \in SUBSET Op /\ IsUp
    <2>1. m.type \in {"reply", "alloc", "heartbeat"}
      BY <1>2
    <2>. QED  BY <1>0, <1>1, <1>2, <2>1, Arrives, Zenon
  <1>5. UpWires(c2m, Tail(m2c), dispatched \ {m.op}) /\ AuthWires(authOp, c2m, Tail(m2c))
    <2>1. AuthWires(authOp, c2m, m2c) /\ UpWires(c2m, m2c, dispatched)
      BY <1>0, <1>4, UpStart, Zenon
    <2>2. Head(m2c).type = "reply" /\ Head(m2c).type # "auth"
      BY <1>1, <1>2
    <2>3. UpWires(c2m, Tail(m2c), dispatched \ {Head(m2c).op})
      BY <1>2, <1>4, <2>1, <2>2, UpReply, Zenon
    <2>. QED  BY <1>1, <1>2, <1>4, <2>1, <2>2, <2>3, AuthRead, Zenon
  <1>6. Handshake' /\ Travelling'
    <2>1. IsUp'
      BY <1>3, <1>4 DEF IsUp, IsHandshakeDone
    <2>2. Only(responses', {"response"}) /\ (responses' # <<>> => authOp')
      BY <1>0, <1>3, Zenon DEF Handshake
    <2>3. UpWires(c2m', m2c', dispatched') /\ AuthWires(authOp', c2m', m2c')
      BY <1>3, <1>5
    <2>. QED  BY <2>1, <2>2, <2>3, UpEnd, Zenon
  <1>7. /\ Places' /\ dispatched' \subseteq Op /\ IsFiniteSet(dispatched')
        /\ done' \in Seq({0, 1}) /\ Len(done') = Len(done)
    <2>1. PICK S : S = {m.op}
      BY Zenon
    <2>2. S \subseteq dispatched /\ dispatched' = dispatched \ S /\ done' = Completed(S)
      BY <1>3, <2>1
    <2>. QED  BY <1>0, <1>3, <2>2, PlacesCompleted, Zenon
  <1>8. /\ lease \in [id : 0 .. MaxLeases, renewSent : BOOLEAN]
        /\ NoLease \in [id : 0 .. MaxLeases, renewSent : BOOLEAN]
    BY <1>0, BoundsAssumption DEF TypeInv, NoLease
  <1>9. /\ lease' \in [id : 0 .. MaxLeases, renewSent : BOOLEAN]
        /\ ~lease'.renewSent \/ (lease' = lease /\ m.op.kind # "renew")
    <2>1. CASE m.op.kind # "renew"
      BY <1>3, <1>8, <2>1 DEF ClerkDone
    <2>2. CASE m.op.kind = "renew" /\ lease.id = 0
      BY <1>0, <1>3, <1>8, <2>2 DEF ClerkDone, RenewKept
    <2>3. CASE m.op.kind = "renew" /\ lease.id # 0
      <3>1. lease' = IF m.ok THEN [lease EXCEPT !.renewSent = FALSE] ELSE NoLease
        BY <1>3, <2>3 DEF ClerkDone
      <3>2. ~NoLease.renewSent
        BY DEF NoLease
      <3>. QED  BY <1>8, <3>1, <3>2, Zenon
    <2>. QED  BY <2>1, <2>2, <2>3
  <1>10. TypeInv'
    BY <1>0, <1>2, <1>3, <1>4, <1>7, <1>9 DEF TypeInv
  <1>11. RenewKept'
    <2>1. CASE ~lease'.renewSent
      BY <2>1 DEF RenewKept, RenewOutstanding
    <2>2. CASE lease' = lease /\ m.op.kind # "renew"
      <3>1. \A op \in Range(pending) \cup dispatched :
                op.kind = "renew" => op \in Range(pending') \cup dispatched'
        BY <1>3, <2>2
      <3>. QED  BY <1>0, <2>2, <3>1 DEF RenewKept, RenewOutstanding
    <2>. QED  BY <1>9, <2>1, <2>2
  <1>. QED  BY <1>6, <1>7, <1>10, <1>11, Zenon DEF Inv

\* An allocation arrives, or a heartbeat, which may start an authentication.
LEMMA CommandStep ==
    ASSUME Inv, Receive, Head(m2c).type \in {"alloc", "heartbeat"}
    PROVE  Inv'
  <1>0. TypeInv /\ Handshake /\ Places /\ Travelling /\ RenewKept
    BY Zenon DEF Inv
  <1>1. PICK m : m = Head(m2c)
    OBVIOUS
  <1>2. /\ conn /\ m2c # <<>> /\ m.type \in {"alloc", "heartbeat"}
        /\ m.type = "alloc" => AllocChunk(m.op.lease)
        /\ m.type = "heartbeat" => Heartbeat(m)
        /\ m2c' = IF conn' THEN Tail(m2c) ELSE <<>>
        /\ UNCHANGED <<metaLease, metaAlloc, authEnabled, leaseIds>>
    BY <1>1, Zenon DEF Receive, meta, bounds
  <1>3. /\ UNCHANGED <<conn, helloOp, sentHello, pending, dispatched, done, died>>
        /\ m2c' = Tail(m2c)
    BY <1>2, Zenon DEF AllocChunk, Heartbeat, sm
  <1>4. /\ m \in MsgT /\ Tail(m2c) \in Seq(MsgT) /\ c2m \in Seq(MsgT) /\ m2c \in Seq(MsgT)
        /\ dispatched \in SUBSET Op /\ IsUp
    <2>1. m.type \in {"reply", "alloc", "heartbeat"}
      BY <1>2
    <2>. QED  BY <1>0, <1>1, <1>2, <2>1, Arrives, Zenon
  <1>5. UpWires(c2m, Tail(m2c), dispatched) /\ AuthWires(authOp, c2m, Tail(m2c))
    <2>1. AuthWires(authOp, c2m, m2c) /\ UpWires(c2m, m2c, dispatched)
      BY <1>0, <1>4, UpStart, Zenon
    <2>2. Head(m2c).type \notin {"request", "reply"} /\ Head(m2c).type # "auth"
      BY <1>1, <1>2
    <2>. QED  BY <1>2, <1>4, <2>1, <2>2, UpRead, AuthRead, Zenon
  <1>6. /\ responses \in Seq(MsgT) /\ Only(responses, {"response"})
        /\ (responses # <<>> => authOp) /\ authOp \in BOOLEAN /\ authEnabled \in BOOLEAN
        /\ allocs \in Seq(0 .. MaxLeases)
        /\ lease \in [id : 0 .. MaxLeases, renewSent : BOOLEAN]
    BY <1>0, Zenon DEF TypeInv, Handshake
  <1>7. NoLease \in [id : 0 .. MaxLeases, renewSent : BOOLEAN]
    BY BoundsAssumption DEF NoLease
  <1>. DEFINE Good == /\ c2m' \in Seq(MsgT) /\ UpWires(c2m', Tail(m2c), dispatched)
                      /\ AuthWires(authOp', c2m', Tail(m2c)) /\ authOp' \in BOOLEAN
                      /\ responses' \in Seq(MsgT) /\ Only(responses', {"response"})
                      /\ responses' # <<>> => authOp'
                      /\ allocs' \in Seq(0 .. MaxLeases) /\ lease' \in {lease, NoLease}
  <1>8. ASSUME m.type = "alloc"
        PROVE  Good
    <2>1. /\ lease' = NoLease /\ allocs' = Append(allocs, m.op.lease)
          /\ UNCHANGED <<authOp, responses, c2m>>
      BY <1>2, <1>8 DEF AllocChunk, sm
    <2>2. m.op.lease \in 0 .. MaxLeases
      <3>1. m.op \in Other
        BY <1>4, <1>8, Fields
      <3>. QED  BY <3>1 DEF Other
    <2>3. allocs' \in Seq(0 .. MaxLeases)
      BY <1>6, <2>1, <2>2
    <2>. QED  BY <1>4, <1>5, <1>6, <2>1, <2>3
  <1>9. ASSUME m.type = "heartbeat"
        PROVE  Good
    <2>1. PICK n : n = Msg("response", NoOp, TRUE)
      BY Zenon
    <2>2. PICK a : a = Msg("auth", NoOp, TRUE)
      BY Zenon
    <2>3. /\ n \in MsgT /\ n.type = "response" /\ a \in MsgT /\ a.type = "auth"
          /\ n.type # "auth" /\ n.type \in {"auth", "response"} /\ a.type \in {"auth", "response"}
      <3>1. n \in MsgT /\ n.type = "response"
        BY <2>1, MadeTrue, NoOps, Zenon
      <3>2. a \in MsgT /\ a.type = "auth"
        BY <2>2, MadeTrue, NoOps, Zenon
      <3>. QED  BY <3>1, <3>2
    <2>4. UNCHANGED <<lease, allocs>> /\ sentHello
      BY <1>2, <1>4, <1>9 DEF Heartbeat, IsUp, IsHandshakeDone
    <2>5. \/ /\ ~authOp /\ authOp' = TRUE /\ c2m' = Append(c2m, a)
             /\ responses' = Append(responses, n)
          \/ /\ authOp /\ authOp' = TRUE /\ c2m' = c2m /\ responses' = Append(responses, n)
          \/ /\ ~authOp /\ authOp' = FALSE /\ c2m' = Append(c2m, n) /\ responses' = responses
      BY <1>2, <1>6, <1>9, <2>1, <2>2, <2>4, Zenon DEF Heartbeat
    <2>6. /\ Append(responses, n) \in Seq(MsgT) /\ Only(Append(responses, n), {"response"})
      <3>1. n \notin Except({"response"})
        BY <2>3, Fields
      <3>. QED  BY <1>6, <2>3, <3>1, AppendWire, Zenon DEF Only
    <2>7. CASE /\ ~authOp /\ authOp' = TRUE /\ c2m' = Append(c2m, a)
               /\ responses' = Append(responses, n)
      <3>1. /\ Append(c2m, a) \in Seq(MsgT) /\ UpWires(Append(c2m, a), Tail(m2c), dispatched)
            /\ OneWay(Append(c2m, a), Tail(m2c), Auths)
        <4>1. Append(c2m, a) \in Seq(MsgT)
          BY <1>4, <2>3, AppendWire, Zenon
        <4>2. UpWires(Append(c2m, a), Tail(m2c), dispatched)
          BY <1>4, <1>5, <2>3, UpSend, Zenon
        <4>3. OneWay(Append(c2m, a), Tail(m2c), Auths)
          <5>1. NoneOf(c2m, Auths) /\ NoneOf(Tail(m2c), Auths)
            BY <1>5, <2>7, Zenon DEF AuthWires
          <5>2. a \in Auths
            BY <2>3, Fields
          <5>. QED  BY <1>4, <2>3, <5>1, <5>2, AppendWire, Zenon DEF OneWay
        <4>. QED  BY <4>1, <4>2, <4>3, Zenon
      <3>2. AuthWires(authOp', c2m', Tail(m2c))
        BY <2>7, <3>1 DEF AuthWires
      <3>. QED  BY <1>6, <2>4, <2>6, <2>7, <3>1, <3>2, Zenon
    <2>8. CASE authOp /\ authOp' = TRUE /\ c2m' = c2m /\ responses' = Append(responses, n)
      BY <1>4, <1>5, <1>6, <2>4, <2>6, <2>8, Zenon
    <2>9. CASE ~authOp /\ authOp' = FALSE /\ c2m' = Append(c2m, n) /\ responses' = responses
      <3>1. /\ Append(c2m, n) \in Seq(MsgT) /\ UpWires(Append(c2m, n), Tail(m2c), dispatched)
            /\ AuthWires(authOp, Append(c2m, n), Tail(m2c))
        BY <1>4, <1>5, <2>3, AppendWire, UpSend, AuthSend, Zenon
      <3>. QED  BY <1>6, <2>4, <2>9, <3>1, Zenon
    <2>. QED  BY <2>5, <2>7, <2>8, <2>9, Zenon
  <1>10. Good
    BY <1>2, <1>8, <1>9
  <1>. HIDE DEF Good
  <1>11. Handshake' /\ Travelling'
    <2>1. IsUp'
      BY <1>3, <1>4 DEF IsUp, IsHandshakeDone
    <2>2. UpWires(c2m', m2c', dispatched') /\ AuthWires(authOp', c2m', m2c')
      BY <1>3, <1>10 DEF Good
    <2>3. Only(responses', {"response"}) /\ (responses' # <<>> => authOp')
      BY <1>10, Zenon DEF Good
    <2>. QED  BY <2>1, <2>2, <2>3, UpEnd, Zenon
  <1>12. TypeInv'
    <2>1. /\ c2m' \in Seq(MsgT) /\ m2c' \in Seq(MsgT) /\ authOp' \in BOOLEAN
          /\ responses' \in Seq(MsgT) /\ allocs' \in Seq(0 .. MaxLeases)
          /\ lease' \in [id : 0 .. MaxLeases, renewSent : BOOLEAN]
      BY <1>3, <1>4, <1>6, <1>7, <1>10 DEF Good
    <2>. QED  BY <1>0, <1>2, <1>3, <2>1 DEF TypeInv
  <1>13. Places' /\ RenewKept'
    <2>1. lease' \in {lease, NoLease}
      BY <1>10, Zenon DEF Good
    <2>2. Range(pending) \cup dispatched \subseteq Range(pending') \cup dispatched'
      BY <1>3
    <2>. QED  BY <1>0, <1>3, <2>1, <2>2, PlacesKept, RenewStays
  <1>. QED  BY <1>11, <1>12, <1>13, Zenon DEF Inv

\* Reading from the connection.
LEMMA ReceiveStep ==
    ASSUME Inv, Receive
    PROVE  Inv'
  <1>1. PICK m : m = Head(m2c)
    OBVIOUS
  <1>2. conn /\ m2c # <<>>
    BY DEF Receive
  <1>3. m.type \in {"auth", "hello", "reply", "alloc", "heartbeat"}
    BY <1>1, <1>2, Arrives, Zenon DEF Inv
  <1>4. ASSUME Head(m2c).type = "auth"
        PROVE  Inv'
    <2>1. /\ HandleAuthResponse /\ m2c' = IF conn' THEN Tail(m2c) ELSE <<>>
          /\ UNCHANGED <<metaLease, metaAlloc, authEnabled, leaseIds>>
      BY <1>4, Zenon DEF Receive, meta, bounds
    <2>. QED  BY <1>2, <1>4, <2>1, AuthStep, Zenon
  <1>. QED  BY <1>1, <1>3, <1>4, HelloStep, ReplyStep, CommandStep

\* A response is dropped, waits for an authentication, or is sent.
LEMMA AllocDoneStep ==
    ASSUME Inv, NEW ok \in BOOLEAN, ChunkAllocDone(ok)
    PROVE  Inv'
  <1>0. TypeInv /\ Handshake /\ Places /\ Travelling /\ RenewKept
    BY Zenon DEF Inv
  <1>1. PICK id : id = Head(allocs)
    OBVIOUS
  <1>2. /\ allocs # <<>> /\ allocs' = Tail(allocs) /\ SendResponse(id, ok)
        /\ lease' = [id |-> id, renewSent |-> FALSE] \/ lease' = lease
        /\ UNCHANGED <<conn, authOp, helloOp, sentHello, pending, dispatched, done, died, m2c,
                       metaLease, metaAlloc, authEnabled, leaseIds>>
    BY <1>1 DEF ChunkAllocDone, meta, bounds
  <1>3. /\ c2m \in Seq(MsgT) /\ m2c \in Seq(MsgT) /\ responses \in Seq(MsgT)
        /\ dispatched \in SUBSET Op
        /\ allocs \in Seq(0 .. MaxLeases)
        /\ lease \in [id : 0 .. MaxLeases, renewSent : BOOLEAN]
    BY <1>0, Zenon DEF TypeInv
  <1>4. id \in 0 .. MaxLeases /\ allocs' \in Seq(0 .. MaxLeases)
    <2>. DEFINE Ids == 0 .. MaxLeases
    <2>1. allocs \in Seq(Ids) /\ allocs # <<>> /\ id = Head(allocs) /\ allocs' = Tail(allocs)
      BY <1>1, <1>2, <1>3, Zenon
    <2>. HIDE DEF Ids
    <2>2. id \in Ids /\ allocs' \in Seq(Ids)
      BY <2>1
    <2>. QED  BY <2>2, Zenon DEF Ids
  <1>5. lease' \in [id : 0 .. MaxLeases, renewSent : BOOLEAN] /\ (lease' = lease \/ ~lease'.renewSent)
    <2>. DEFINE Ids == 0 .. MaxLeases
                Rec == [id |-> id, renewSent |-> FALSE]
    <2>1. id \in Ids
      BY <1>4
    <2>. HIDE DEF Ids
    <2>2. Rec \in [id : Ids, renewSent : BOOLEAN] /\ ~Rec.renewSent
      BY <2>1
    <2>. QED  BY <1>2, <1>3, <2>2, Zenon DEF Ids
  <1>6. PICK n : n = Msg("response", AllocOp(id), ok)
    OBVIOUS
  <1>7. /\ n \in MsgT /\ n.type = "response" /\ n.type # "auth"
        /\ n.type \in {"auth", "response"}
    BY <1>4, <1>6, Made, NoOps
  <1>. DEFINE Good == /\ c2m' \in Seq(MsgT) /\ responses' \in Seq(MsgT)
                      /\ Handshake' /\ Travelling'
  <1>8. ASSUME ~sentHello \/ ~conn
        PROVE  Good
    <2>1. UNCHANGED <<responses, c2m>>
      BY <1>2, <1>8 DEF SendResponse
    <2>. QED  BY <1>0, <1>2, <1>3, <2>1, WiresKept
  <1>9. ASSUME sentHello, conn, authOp
        PROVE  Good
    <2>1. responses' = Append(responses, n) /\ c2m' = c2m
      BY <1>2, <1>6, <1>9 DEF SendResponse
    <2>2. IsUp
      BY <1>0, <1>9, Zenon DEF Handshake, IsUp, IsHandshakeDone
    <2>3. UpWires(c2m', m2c', dispatched') /\ AuthWires(authOp', c2m', m2c')
      <3>1. AuthWires(authOp, c2m, m2c) /\ UpWires(c2m, m2c, dispatched)
        BY <1>0, <2>2, UpStart, Zenon
      <3>. QED  BY <1>2, <2>1, <3>1
    <2>4. responses' \in Seq(MsgT) /\ Only(responses', {"response"})
      <3>1. n \notin Except({"response"}) /\ Only(responses, {"response"})
        BY <1>0, <1>7, Fields DEF Handshake
      <3>2. Append(responses, n) \in Seq(MsgT) /\ Only(Append(responses, n), {"response"})
        BY <1>3, <1>7, <3>1, AppendWire, Zenon DEF Only
      <3>. QED  BY <2>1, <3>2
    <2>5. IsUp' /\ authOp'
      BY <1>2, <1>9, <2>2 DEF IsUp, IsHandshakeDone
    <2>. QED  BY <1>3, <2>1, <2>3, <2>4, <2>5, UpEnd
  <1>10. ASSUME sentHello, conn, ~authOp
         PROVE  Good
    <2>1. c2m' = Append(c2m, n) /\ responses' = responses
      BY <1>2, <1>6, <1>10 DEF SendResponse
    <2>2. c2m' \in Seq(MsgT) /\ responses' \in Seq(MsgT) /\ m2c' \in Seq(MsgT)
      BY <1>2, <1>3, <1>7, <2>1, AppendWire
    <2>3. responses' = <<>> /\ Only(responses', {"response"})
      <3>1. responses = <<>> /\ Only(responses, {"response"})
        BY <1>0, <1>10, Zenon DEF Handshake
      <3>. QED  BY <2>1, <3>1
    <2>4. CASE helloOp
      <3>1. HelloLeads
        BY <1>0, <1>10, <2>4, Zenon DEF Handshake
      <3>2. n \notin Except({"response"})
        BY <1>7, Fields
      <3>3. HelloLeads'
        <4>1. ASSUME c2m # <<>>, Head(c2m).type = "hello", Only(Tail(c2m), {"response"}), m2c = <<>>
              PROVE  HelloLeads'
          <5>1. /\ Append(c2m, n) # <<>> /\ Head(Append(c2m, n)) = Head(c2m)
                /\ Tail(Append(c2m, n)) = Append(Tail(c2m), n) /\ Tail(c2m) \in Seq(MsgT)
            BY <1>3, <1>7, <4>1, AppendLead, Zenon
          <5>2. Only(Append(Tail(c2m), n), {"response"})
            BY <1>7, <3>2, <4>1, <5>1, AppendWire, Zenon DEF Only
          <5>. QED  BY <1>2, <2>1, <4>1, <5>1, <5>2, Zenon DEF HelloLeads
        <4>2. ASSUME Only(c2m, {"response"}), m2c # <<>>, Head(m2c).type = "hello",
                     Only(Tail(m2c), {"alloc", "heartbeat"})
              PROVE  HelloLeads'
          <5>1. Only(Append(c2m, n), {"response"})
            BY <1>3, <1>7, <3>2, <4>2, AppendWire, Zenon DEF Only
          <5>. QED  BY <1>2, <2>1, <4>2, <5>1 DEF HelloLeads
        <4>. QED  BY <3>1, <4>1, <4>2, Zenon DEF HelloLeads
      <3>4. conn' /\ helloOp' /\ sentHello' /\ authOp' = FALSE
        BY <1>0, <1>2, <1>10, <2>4 DEF TypeInv
      <3>. QED  BY <2>2, <2>3, <3>3, <3>4, HelloEnd, Zenon
    <2>5. CASE ~helloOp
      <3>1. IsUp /\ IsUp'
        BY <1>2, <1>10, <2>5 DEF IsUp, IsHandshakeDone
      <3>2. AuthWires(authOp, c2m, m2c) /\ UpWires(c2m, m2c, dispatched)
        BY <1>0, <3>1, UpStart, Zenon
      <3>3. /\ UpWires(Append(c2m, n), m2c, dispatched)
            /\ AuthWires(authOp, Append(c2m, n), m2c)
        BY <1>3, <1>7, <3>2, UpSend, AuthSend, Zenon
      <3>4. UpWires(c2m', m2c', dispatched') /\ AuthWires(authOp', c2m', m2c')
        BY <1>2, <2>1, <3>3
      <3>. QED  BY <2>2, <2>3, <3>1, <3>4, UpEnd, Zenon
    <2>. QED  BY <2>4, <2>5, Zenon
  <1>11. Good
    BY <1>8, <1>9, <1>10, Zenon
  <1>. HIDE DEF Good
  <1>12. TypeInv'
    <2>1. c2m' \in Seq(MsgT) /\ responses' \in Seq(MsgT)
      BY <1>11, Zenon DEF Good
    <2>. QED  BY <1>0, <1>2, <1>4, <1>5, <2>1 DEF TypeInv
  <1>13. Places' /\ RenewKept'
    <2>1. Range(pending) \cup dispatched \subseteq Range(pending') \cup dispatched'
      BY <1>2
    <2>. QED  BY <1>0, <1>2, <1>5, <2>1, PlacesKept, RenewStays
  <1>. QED  BY <1>11, <1>12, <1>13, Zenon DEF Inv, Good

-----------------------------------------------------------------------------
(* The steps of the meta server.                                           *)

\* It sends an allocation or a heartbeat after its answer to the hello.
LEMMA Tells ==
    ASSUME Inv, MetaSession, NEW n \in MsgT, n.type \in {"alloc", "heartbeat"},
           m2c' = Append(m2c, n),
           UNCHANGED <<conn, authOp, helloOp, sentHello, responses, c2m, dispatched>>
    PROVE  m2c' \in Seq(MsgT) /\ Handshake' /\ Travelling'
  <1>0. TypeInv /\ Handshake /\ Places /\ Travelling /\ RenewKept
    BY Zenon DEF Inv
  <1>1. /\ c2m \in Seq(MsgT) /\ m2c \in Seq(MsgT) /\ dispatched \in SUBSET Op
        /\ authOp \in BOOLEAN
    BY <1>0, Zenon DEF TypeInv
  <1>2. conn /\ sentHello /\ \A i \in DOMAIN c2m : c2m[i].type # "hello"
    BY DEF MetaSession
  <1>3. m2c' \in Seq(MsgT) /\ c2m' \in Seq(MsgT)
    BY <1>1, AppendWire
  <1>4. CASE helloOp
    <2>1. ~authOp /\ HelloLeads /\ responses = <<>>
      BY <1>0, <1>2, <1>4, Zenon DEF Handshake, IsUp, IsHandshakeDone
    <2>2. c2m # <<>> => Head(c2m).type # "hello"
      <3>1. c2m # <<>> => 1 \in DOMAIN c2m /\ Head(c2m) = c2m[1]
        BY <1>1
      <3>. QED  BY <1>2, <3>1
    <2>3. /\ Only(c2m, {"response"}) /\ m2c # <<>> /\ Head(m2c).type = "hello"
          /\ Only(Tail(m2c), {"alloc", "heartbeat"})
      BY <2>1, <2>2, Zenon DEF HelloLeads
    <2>4. /\ Append(m2c, n) # <<>> /\ Head(Append(m2c, n)) = Head(m2c)
          /\ Tail(Append(m2c, n)) = Append(Tail(m2c), n) /\ Tail(m2c) \in Seq(MsgT)
      BY <1>1, <2>3, AppendLead, Zenon
    <2>5. Only(Append(Tail(m2c), n), {"alloc", "heartbeat"})
      <3>1. n \notin Except({"alloc", "heartbeat"})
        BY Fields
      <3>. QED  BY <2>3, <2>4, <3>1, AppendWire, Zenon DEF Only
    <2>6. HelloLeads'
      BY <2>3, <2>4, <2>5, Zenon DEF HelloLeads
    <2>7. conn' /\ helloOp' /\ sentHello' /\ authOp' = FALSE /\ responses' = <<>>
      BY <1>1, <1>2, <1>4, <2>1
    <2>. QED  BY <1>3, <2>6, <2>7, HelloEnd, Zenon
  <1>5. CASE ~helloOp
    <2>1. IsUp /\ IsUp'
      BY <1>2, <1>5 DEF IsUp, IsHandshakeDone
    <2>2. AuthWires(authOp, c2m, m2c) /\ UpWires(c2m, m2c, dispatched)
      BY <1>0, <2>1, UpStart, Zenon
    <2>3. n.type # "auth"
      OBVIOUS
    <2>4. UpWires(c2m, Append(m2c, n), dispatched) /\ AuthWires(authOp, c2m, Append(m2c, n))
      BY <1>1, <2>2, <2>3, UpTold, AuthSend, Zenon
    <2>5. UpWires(c2m', m2c', dispatched') /\ AuthWires(authOp', c2m', m2c')
      BY <2>4
    <2>6. Only(responses', {"response"}) /\ (responses' # <<>> => authOp')
      BY <1>0, Zenon DEF Handshake
    <2>. QED  BY <1>3, <2>1, <2>5, <2>6, UpEnd, Zenon
  <1>. QED  BY <1>4, <1>5, Zenon

\* The meta server sends an allocation or a heartbeat (MetaAllocates,
\* MetaHeartbeat).
LEMMA MetaTellsStep ==
    ASSUME Inv, MetaAllocates \/ \E a \in BOOLEAN : MetaHeartbeat(a)
    PROVE  Inv'
  <1>0. TypeInv /\ Handshake /\ Places /\ Travelling /\ RenewKept
    BY Zenon DEF Inv
  <1>. DEFINE Same == UNCHANGED <<conn, authOp, helloOp, sentHello, responses, c2m, dispatched,
                                  pending, done, lease, died, allocs, authEnabled>>
  <1>1. PICK n \in MsgT : /\ MetaSession /\ n.type \in {"alloc", "heartbeat"}
                          /\ m2c' = Append(m2c, n) /\ Same
                          /\ leaseIds' \in 0 .. MaxLeases
                          /\ metaLease' \in 0 .. leaseIds' /\ metaAlloc' \in 0 .. leaseIds'
    <2>1. /\ leaseIds \in 0 .. MaxLeases /\ metaLease \in 0 .. leaseIds
          /\ metaAlloc \in 0 .. leaseIds
      BY <1>0, Zenon DEF TypeInv
    <2>2. CASE MetaAllocates
      <3>1. PICK n : n = Msg("alloc", AllocOp(leaseIds'), TRUE)
        BY Zenon
      <3>2. /\ leaseIds' \in 0 .. MaxLeases
            /\ metaLease' \in 0 .. leaseIds' /\ metaAlloc' \in 0 .. leaseIds'
        BY <2>1, <2>2, BoundsAssumption DEF MetaAllocates
      <3>3. n \in MsgT /\ n.type = "alloc"
        BY <3>1, <3>2, MadeTrue, NoOps, Zenon
      <3>4. MetaSession /\ Same /\ m2c' = Append(m2c, n)
        BY <2>2, <3>1 DEF MetaAllocates, sm, clerk
      <3>. QED  BY <3>2, <3>3, <3>4
    <2>3. ASSUME NEW a \in BOOLEAN, MetaHeartbeat(a)
          PROVE  \E n \in MsgT : /\ MetaSession /\ n.type \in {"alloc", "heartbeat"}
                                 /\ m2c' = Append(m2c, n) /\ Same
                                 /\ leaseIds' = leaseIds
                                 /\ metaLease' = metaLease /\ metaAlloc' = metaAlloc
      <3>1. PICK n : n = Msg("heartbeat", NoOp, a)
        OBVIOUS
      <3>2. n \in MsgT /\ n.type = "heartbeat"
        BY <3>1, Made, NoOps
      <3>3. /\ MetaSession /\ Same /\ m2c' = Append(m2c, n)
            /\ leaseIds' = leaseIds /\ metaLease' = metaLease /\ metaAlloc' = metaAlloc
        BY <2>3, <3>1 DEF MetaHeartbeat, sm, clerk, meta
      <3>. QED  BY <3>2, <3>3
    <2>. QED  BY <2>1, <2>2, <2>3
  <1>2. m2c' \in Seq(MsgT) /\ Handshake' /\ Travelling'
    BY <1>1, Tells
  <1>3. TypeInv'
    BY <1>0, <1>1, <1>2 DEF TypeInv
  <1>4. Places' /\ RenewKept'
    BY <1>0, <1>1, PlacesKept DEF RenewKept, RenewOutstanding
  <1>. QED  BY <1>2, <1>3, <1>4, Zenon DEF Inv

\* It reads the next message of the chunk server.
LEMMA MetaReceiveStep ==
    ASSUME Inv, NEW helloOk \in BOOLEAN, MetaReceive(helloOk)
    PROVE  Inv'
  <1>0. TypeInv /\ Handshake /\ Places /\ Travelling /\ RenewKept
    BY Zenon DEF Inv
  <1>1. PICK m : m = Head(c2m)
    OBVIOUS
  <1>2. PICK renewed \in BOOLEAN : renewed = (m.op.kind = "renew" => m.op.lease = metaLease)
    BY Zenon
  <1>3. /\ c2m # <<>> /\ c2m' = Tail(c2m)
        /\ m.type = "auth" => m2c' = Append(m2c, m)
        /\ m.type = "hello" => m2c' = Append(m2c, Msg("hello", NoOp, helloOk))
        /\ m.type = "request" => m2c' = Append(m2c, Msg("reply", m.op, renewed))
        /\ m.type = "response" => m2c' = m2c
        /\ metaLease' \in {0, metaLease} /\ metaAlloc' \in {0, metaAlloc}
        /\ UNCHANGED <<conn, authOp, helloOp, sentHello, responses, dispatched, pending, done,
                       lease, died, allocs, authEnabled, leaseIds>>
    BY <1>1, <1>2 DEF MetaReceive, sm, clerk
  <1>4. /\ c2m \in Seq(MsgT) /\ m2c \in Seq(MsgT) /\ dispatched \in SUBSET Op
        /\ authOp \in BOOLEAN
    BY <1>0, Zenon DEF TypeInv
  <1>5. m \in MsgT /\ c2m' \in Seq(MsgT) /\ conn
    <2>1. conn
      BY <1>0, <1>3, Zenon DEF Handshake
    <2>. QED  BY <1>1, <1>3, <1>4, <2>1, TailWire
  <1>6. Only(responses', {"response"}) /\ (responses' # <<>> => authOp' /\ IsUp)
    BY <1>0, <1>3, Zenon DEF Handshake
  <1>. DEFINE Good == m2c' \in Seq(MsgT) /\ Handshake' /\ Travelling'
  <1>7. ASSUME ~sentHello
        PROVE  Good
    <2>1. ~helloOp /\ Only(c2m, {"auth"}) /\ Only(m2c, {"auth"}) /\ AuthWires(authOp, c2m, m2c)
      BY <1>0, <1>5, <1>7, UpStart, Zenon DEF Handshake
    <2>2. m.type = "auth" /\ m \in Auths /\ m \notin Except({"auth"})
      <3>1. m.type \in {"auth"}
        BY <1>1, <1>3, <1>4, <2>1, OnlyNone, Zenon
      <3>. QED  BY <1>5, <3>1, Fields
    <2>3. m2c' = Append(m2c, m) /\ m2c' \in Seq(MsgT)
      <3>1. m2c' = Append(m2c, m)
        BY <1>3, <2>2, Zenon
      <3>2. Append(m2c, m) \in Seq(MsgT)
        BY <1>4, <1>5, AppendWire, Zenon
      <3>. QED  BY <3>1, <3>2, Zenon
    <2>4. Only(Tail(c2m), {"auth"}) /\ Only(Append(m2c, m), {"auth"})
      BY <1>3, <1>4, <1>5, <2>1, <2>2, TailWire, AppendWire, Zenon DEF Only
    <2>5. AuthWires(authOp, Tail(c2m), Append(m2c, m))
      <3>1. OneWay(c2m, m2c, Auths) /\ authOp
        BY <1>1, <1>3, <1>4, <2>1, <2>2, TailWire, Zenon DEF AuthWires
      <3>2. OneWay(Tail(c2m), Append(m2c, m), Auths)
        BY <1>1, <1>3, <1>4, <1>5, <2>2, <3>1, TailWire, AppendWire, Zenon DEF OneWay
      <3>. QED  BY <3>1, <3>2, Zenon DEF AuthWires
    <2>6. /\ AuthWires(authOp', c2m', m2c') /\ Only(c2m', {"auth"}) /\ Only(m2c', {"auth"})
          /\ ~helloOp' /\ ~sentHello' /\ conn'
      BY <1>3, <1>5, <1>7, <2>1, <2>3, <2>4, <2>5
    <2>7. responses' = <<>>
      BY <1>6, <1>7, Zenon DEF IsUp, IsHandshakeDone
    <2>. QED  BY <1>5, <2>3, <2>6, <2>7, ColdEnd, Zenon
  <1>8. ASSUME sentHello, helloOp
        PROVE  Good
    <2>1. ~authOp /\ HelloLeads
      BY <1>0, <1>5, <1>8, Zenon DEF Handshake
    <2>2. /\ conn' /\ helloOp' /\ sentHello' /\ authOp' = FALSE
      BY <1>3, <1>4, <1>5, <1>8, <2>1
    <2>3. responses' = <<>>
      BY <1>6, <1>8, Zenon DEF IsUp, IsHandshakeDone
    <2>4. ASSUME m.type = "hello", Only(Tail(c2m), {"response"}), m2c = <<>>
          PROVE  m2c' \in Seq(MsgT) /\ HelloLeads'
      <3>1. PICK n : n = Msg("hello", NoOp, helloOk)
        OBVIOUS
      <3>2. n \in MsgT /\ n.type = "hello"
        BY <3>1, Made, NoOps
      <3>3. m2c' = Append(m2c, n)
        BY <1>3, <2>4, <3>1, Zenon
      <3>4. m2c' \in Seq(MsgT) /\ m2c' # <<>> /\ Head(m2c') = n /\ Tail(m2c') = <<>>
        BY <1>4, <2>4, <3>2, <3>3, AppendWire, AppendLead
      <3>5. Only(Tail(m2c'), {"alloc", "heartbeat"})
        BY <3>4, EmptyWire, Zenon DEF Only
      <3>. QED  BY <1>3, <2>4, <3>2, <3>4, <3>5 DEF HelloLeads
    <2>5. ASSUME Only(c2m, {"response"}), m2c # <<>>, Head(m2c).type = "hello",
                 Only(Tail(m2c), {"alloc", "heartbeat"})
          PROVE  m2c' \in Seq(MsgT) /\ HelloLeads'
      <3>1. m.type \in {"response"}
        BY <1>1, <1>3, <1>4, <2>5, OnlyNone, Zenon
      <3>2. Only(Tail(c2m), {"response"})
        BY <1>3, <1>4, <2>5, TailWire, Zenon DEF Only
      <3>. QED  BY <1>3, <1>4, <2>5, <3>1, <3>2 DEF HelloLeads
    <2>6. m2c' \in Seq(MsgT) /\ HelloLeads'
      BY <1>1, <2>1, <2>4, <2>5, Zenon DEF HelloLeads
    <2>. QED  BY <1>5, <2>2, <2>3, <2>6, HelloEnd, Zenon
  <1>9. ASSUME sentHello, ~helloOp
        PROVE  Good
    <2>1. IsUp /\ IsUp'
      BY <1>3, <1>5, <1>9 DEF IsUp, IsHandshakeDone
    <2>2. AuthWires(authOp, c2m, m2c) /\ UpWires(c2m, m2c, dispatched)
      BY <1>0, <2>1, UpStart, Zenon
    <2>3. m.type \in {"auth", "request", "response"}
      BY <1>1, <1>3, <1>4, <2>2, OnlyNone, Zenon DEF UpWires
    <2>4. CASE m.type = "response"
      <3>1. Head(c2m).type = "response"
        BY <1>1, <2>4, Zenon
      <3>2. UpWires(Tail(c2m), m2c, dispatched) /\ AuthWires(authOp, Tail(c2m), m2c)
        BY <1>3, <1>4, <2>2, <3>1, UpTaken, Zenon
      <3>3. /\ UpWires(c2m', m2c', dispatched') /\ AuthWires(authOp', c2m', m2c')
            /\ m2c' \in Seq(MsgT)
        BY <1>3, <1>4, <2>4, <3>2
      <3>. QED  BY <1>6, <2>1, <3>3, UpEnd, Zenon
    <2>5. ASSUME NEW n \in MsgT, m2c' = Append(m2c, n),
                 \/ Head(c2m).type = "auth" /\ n.type = "auth"
                 \/ Head(c2m).type = "request" /\ n.type = "reply" /\ n.op = Head(c2m).op
          PROVE  Good
      <3>1. UpWires(Tail(c2m), Append(m2c, n), dispatched) /\ AuthWires(authOp, Tail(c2m), Append(m2c, n))
        BY <1>3, <1>4, <2>2, <2>5, UpAnswer, Zenon
      <3>2. /\ UpWires(c2m', m2c', dispatched') /\ AuthWires(authOp', c2m', m2c')
            /\ m2c' \in Seq(MsgT)
        BY <1>3, <1>4, <2>5, <3>1, AppendWire
      <3>. QED  BY <1>6, <2>1, <3>2, UpEnd, Zenon
    <2>6. CASE m.type = "auth"
      BY <1>1, <1>3, <1>5, <2>5, <2>6, Zenon
    <2>7. CASE m.type = "request"
      <3>1. PICK n : n = Msg("reply", m.op, renewed)
        OBVIOUS
      <3>2. m.op \in Op
        BY <1>5, <2>7, Fields
      <3>3. n \in MsgT /\ n.type = "reply" /\ n.op = m.op
        BY <3>1, <3>2, Made
      <3>4. m2c' = Append(m2c, n) /\ Head(c2m).type = "request" /\ n.op = Head(c2m).op
        BY <1>1, <1>3, <2>7, <3>1, <3>3, Zenon
      <3>. QED  BY <2>5, <3>3, <3>4, Zenon
    <2>. QED  BY <2>3, <2>4, <2>6, <2>7
  <1>10. Good
    BY <1>7, <1>8, <1>9, Zenon
  <1>. HIDE DEF Good
  <1>11. TypeInv'
    <2>1. m2c' \in Seq(MsgT)
      BY <1>10, Zenon DEF Good
    <2>2. metaLease' \in 0 .. leaseIds' /\ metaAlloc' \in 0 .. leaseIds'
      BY <1>0, <1>3, BoundsAssumption DEF TypeInv
    <2>. QED  BY <1>0, <1>3, <1>5, <2>1, <2>2 DEF TypeInv
  <1>12. Places' /\ RenewKept'
    BY <1>0, <1>3, PlacesKept DEF RenewKept, RenewOutstanding
  <1>. QED  BY <1>10, <1>11, <1>12, Zenon DEF Inv, Good

-----------------------------------------------------------------------------
(* The theorems.                                                           *)

\* Every step keeps the invariant.
LEMMA InvStep ==
    ASSUME Inv, [Next]_vars
    PROVE  Inv'
  <1>0. TypeInv /\ Handshake /\ Places /\ Travelling /\ RenewKept
    BY Zenon DEF Inv
  <1>1. CASE NetError
    <2>1. CASE Disconnect /\ UNCHANGED helloOp
      BY <1>1, <2>1, DisconnectStep DEF NetError
    <2>2. CASE /\ m2c # <<>> /\ Head(m2c).type = "auth" /\ HandleAuthResponse
               /\ m2c' = Tail(m2c) /\ UNCHANGED meta
      <3>1. /\ conn /\ UNCHANGED conn
            /\ UNCHANGED <<metaLease, metaAlloc, authEnabled, leaseIds>>
        BY <1>1, <2>2 DEF NetError, meta, HandleAuthResponse
      <3>2. m2c' = IF conn' THEN Tail(m2c) ELSE <<>>
        BY <2>2, <3>1
      <3>. QED  BY <2>2, <3>1, <3>2, AuthStep, Zenon
    <2>. QED  BY <1>1, <2>1, <2>2, Zenon DEF NetError
  <1>2. CASE MetaLeaseExpires
    <2>1. /\ metaLease' = 0
          /\ UNCHANGED <<conn, authOp, helloOp, sentHello, responses, c2m, m2c, dispatched, pending,
                         done, lease, died, allocs, authEnabled, leaseIds, metaAlloc>>
      BY <1>2 DEF MetaLeaseExpires, sm, clerk, bounds
    <2>2. TypeInv'
      BY <1>0, <2>1, BoundsAssumption DEF TypeInv
    <2>3. RenewKept'
      BY <1>0, <2>1 DEF RenewKept, RenewOutstanding
    <2>. QED  BY <1>0, <2>1, <2>2, <2>3, WiresKept, PlacesKept DEF Inv
  <1>3. CASE UNCHANGED vars
    <2>1. UNCHANGED <<conn, authOp, helloOp, sentHello, responses, c2m, m2c, dispatched, pending,
                      done, lease, died, allocs, authEnabled, leaseIds, metaLease, metaAlloc>>
      BY <1>3 DEF vars, sm, clerk, meta, bounds
    <2>2. TypeInv'
      BY <1>0, <2>1 DEF TypeInv
    <2>3. RenewKept'
      BY <1>0, <2>1 DEF RenewKept, RenewOutstanding
    <2>. QED  BY <1>0, <2>1, <2>2, <2>3, WiresKept, PlacesKept DEF Inv
  <1>. QED  BY <1>1, <1>2, <1>3, ConnectStep, NetWroteStep, DispatchStep, ClerkStep, ReceiveStep,
               AllocDoneStep, MetaReceiveStep, MetaTellsStep, Zenon, Zenon DEF Next

\* The invariant holds at start up.
LEMMA InvInit ==
    ASSUME Init
    PROVE  Inv
  <1>1. /\ pending = <<>> /\ dispatched = {} /\ c2m = <<>> /\ m2c = <<>> /\ responses = <<>>
        /\ conn = FALSE /\ authOp = FALSE /\ helloOp = FALSE /\ sentHello = FALSE
        /\ lease = NoLease /\ done = <<>>
    BY DEF Init
  <1>2. TypeInv
    <2>1. IsFiniteSet(dispatched)
      BY <1>1, FS_EmptySet, Zenon
    <2>2. lease \in [id : 0 .. MaxLeases, renewSent : BOOLEAN] /\ ~lease.renewSent
      BY <1>1, BoundsAssumption DEF NoLease
    <2>3. /\ pending \in Seq(Op) /\ responses \in Seq(MsgT) /\ allocs \in Seq(0 .. MaxLeases)
          /\ c2m \in Seq(MsgT) /\ m2c \in Seq(MsgT)
      BY DEF Init
    <2>4. done \in Seq({0, 1}) /\ Len(done) = 0 /\ MaxOps \in Nat /\ MaxLeases \in Nat
      BY <1>1, BoundsAssumption
    <2>5. /\ leaseIds \in 0 .. MaxLeases /\ metaLease \in 0 .. leaseIds
          /\ metaAlloc \in 0 .. leaseIds /\ Len(done) <= MaxOps
      BY <2>4 DEF Init
    <2>6. /\ authEnabled \in BOOLEAN /\ conn \in BOOLEAN /\ authOp \in BOOLEAN
          /\ helloOp \in BOOLEAN /\ sentHello \in BOOLEAN /\ died = FALSE
          /\ dispatched \subseteq Op
      BY Zenon DEF Init
    <2>. QED  BY <2>1, <2>2, <2>3, <2>4, <2>5, <2>6, Zenon DEF TypeInv
  <1>3. Handshake
    BY <1>1, EmptyWire, Zenon DEF Handshake, Only, IsUp, IsHandshakeDone
  <1>4. Travelling
    BY <1>1, EmptyWire, Zenon DEF Travelling, IsUp, IsHandshakeDone
  <1>5. Places
    BY <1>1 DEF Places, Queued, Sent
  <1>6. RenewKept
    BY <1>1 DEF RenewKept, RenewOutstanding, NoLease
  <1>. QED  BY <1>2, <1>3, <1>4, <1>5, <1>6, Zenon DEF Inv

\* The invariant holds in every state.
LEMMA InvAlways == Spec => []Inv
  <1>1. Init => Inv
    BY InvInit
  <1>2. Inv /\ [Next]_vars => Inv'
    BY InvStep
  <1>. QED  BY <1>1, <1>2, PTL DEF Spec

\* The die() calls of Authenticate and DispatchHello as SendHello reaches them,
\* and of HandleAuthResponse, EnqueueOp and DispatchOps, are not
\* reached, whenever connections break and whatever completes late.
THEOREM ConnectionNeverDies == Spec => []NeverDies
  <1>1. Inv => NeverDies
    <2>. SUFFICES ASSUME Inv PROVE NeverDies
      OBVIOUS
    <2>0. TypeInv /\ Handshake
      BY Zenon DEF Inv
    <2>1. /\ responses # <<>> => authOp /\ IsUp
          /\ authOp => conn
          /\ ~conn => c2m = <<>> /\ m2c = <<>>
      BY <2>0, Zenon DEF Handshake
    <2>2. Range(pending) \cup dispatched \subseteq OpType
      <3>1. Op \subseteq OpType
        BY BoundsAssumption DEF Op, OpType
      <3>2. pending \in Seq(Op) /\ dispatched \subseteq Op
        BY <2>0, Zenon DEF TypeInv
      <3>3. Range(pending) \subseteq Op
        BY <3>2 DEF Range
      <3>. QED  BY <3>1, <3>2, <3>3
    <2>3. TypeOK
      BY <2>0, <2>1, <2>2, Zenon DEF TypeInv, TypeOK
    <2>. QED  BY <2>0, <2>3 DEF NeverDies, TypeInv
  <1>. QED  BY <1>1, InvAlways, PTL

\* A lease whose renewal was sent (leaseRenewSent) has it queued or on its way,
\* through reconnects, new allocations and replies for an earlier lease.
THEOREM RenewalOnItsWay == Spec => []RenewOutstanding
  <1>1. Inv => RenewOutstanding
    BY Zenon DEF Inv, RenewKept
  <1>. QED  BY <1>1, InvAlways, PTL

\* One element, and no other.
Sole(S) == \E x \in S : \A y \in S : y = x

\* A set without an element has none, and one with a sole element has one.
LEMMA Counts ==
    ASSUME NEW S
    PROVE  /\ S = {} => Cardinality(S) = 0
           /\ Sole(S) => Cardinality(S) = 1
  <1>1. S = {} => Cardinality(S) = 0
    BY FS_EmptySet
  <1>2. ASSUME Sole(S)
        PROVE  Cardinality(S) = 1
    <2>1. PICK x : S = {x}
      BY <1>2 DEF Sole
    <2>. QED  BY <2>1, FS_Singleton
  <1>. QED  BY <1>1, <1>2, Zenon

\* The messages about a request on a wire.
LEMMA CopiesOnWire ==
    ASSUME NEW s \in Seq(MsgT), NEW op
    PROVE  /\ NoneOf(s, Carry(op)) => Copies(op, s) = 0
           /\ OneOf(s, Carry(op)) => Copies(op, s) = 1
  <1>. DEFINE S == {i \in DOMAIN s : s[i].op = op}
  <1>1. DOMAIN s = 1 .. Len(s) /\ \A k \in 1 .. Len(s) : s[k] \in MsgT
    OBVIOUS
  <1>2. \A k : k \in S <=> k \in 1 .. Len(s) /\ s[k] \in Carry(op)
    BY <1>1 DEF Carry
  <1>. HIDE DEF S
  <1>3. ASSUME NoneOf(s, Carry(op))
        PROVE  Cardinality(S) = 0
    <2>1. S = {}
      BY <1>2, <1>3 DEF NoneOf
    <2>. QED  BY <2>1, Counts, Zenon
  <1>4. ASSUME OneOf(s, Carry(op))
        PROVE  Cardinality(S) = 1
    <2>1. PICK k \in 1 .. Len(s) :
              s[k] \in Carry(op) /\ \A j \in 1 .. Len(s) : s[j] \in Carry(op) => j = k
      BY <1>4, Zenon DEF OneOf
    <2>2. Sole(S)
      BY <1>2, <2>1, Zenon DEF Sole
    <2>. QED  BY <2>2, Counts, Zenon
  <1>. QED  BY <1>3, <1>4, Zenon DEF Copies, S

\* Every request is queued, sent or completed once, and one that was sent has
\* its request or its reply on an open session once: EnqueueOp, DispatchOps,
\* FailOps, ResubmitOps and HandleReply neither lose nor repeat one.
THEOREM RequestsAccounted == Spec => []OpsAccounted
  <1>1. ASSUME Inv
        PROVE  OpsAccounted
    <2>0. TypeInv /\ Places /\ Travelling
      BY <1>1, Zenon DEF Inv
    <2>1. /\ pending \in Seq(Op) /\ dispatched \subseteq Op /\ done \in Seq({0, 1})
          /\ Len(done) \in Nat /\ Len(done) <= MaxOps /\ MaxOps \in Nat
          /\ c2m \in Seq(MsgT) /\ m2c \in Seq(MsgT)
      BY <2>0, BoundsAssumption DEF TypeInv
    <2>2. DOMAIN done = 1 .. Len(done) /\ DOMAIN pending = 1 .. Len(pending)
      BY <2>1
    <2>3. ASSUME NEW s \in 1 .. Len(done)
          PROVE  Cardinality({i \in DOMAIN pending : pending[i].seq = s})
                     + Cardinality({op \in dispatched : op.seq = s}) + done[s] = 1
      <3>. DEFINE A == {i \in DOMAIN pending : pending[i].seq = s}
                  B == {op \in dispatched : op.seq = s}
      <3>1. s \in 1 .. MaxOps /\ done[s] \in {0, 1}
        BY <2>1
      <3>2. /\ Queued(s) => Sole(A)
            /\ ~Queued(s) => A = {}
        BY <2>0, <2>2 DEF Places, Queued, Sole
      <3>3. /\ Sent(s) => Sole(B)
            /\ ~Sent(s) => B = {}
        BY <2>0 DEF Places, Sent, Sole
      <3>. HIDE DEF A, B
      <3>4. /\ Queued(s) => Cardinality(A) = 1
            /\ ~Queued(s) => Cardinality(A) = 0
        BY <3>2, Counts, Zenon
      <3>5. /\ Sent(s) => Cardinality(B) = 1
            /\ ~Sent(s) => Cardinality(B) = 0
        BY <3>3, Counts, Zenon
      <3>6. /\ ~(Queued(s) /\ Sent(s))
            /\ Queued(s) \/ Sent(s) <=> done[s] = 0
        BY <2>0, <3>1, Zenon DEF Places
      <3>7. Cardinality(A) + Cardinality(B) + done[s] = 1
        BY <3>1, <3>4, <3>5, <3>6
      <3>. QED  BY <3>7, Zenon DEF A, B
    <2>4. ASSUME IsUp, NEW op \in dispatched
          PROVE  Copies(op, c2m) + Copies(op, m2c) = 1
      <3>1. OneWay(c2m, m2c, Carry(op))
        BY <2>0, <2>4, Zenon DEF Travelling
      <3>2. \/ Copies(op, c2m) = 1 /\ Copies(op, m2c) = 0
            \/ Copies(op, c2m) = 0 /\ Copies(op, m2c) = 1
        BY <2>1, <3>1, CopiesOnWire, Zenon DEF OneWay
      <3>. QED  BY <3>2
    <2>. QED  BY <2>2, <2>3, <2>4, Zenon DEF OpsAccounted
  <1>. QED  BY <1>1, InvAlways, PTL
=============================================================================
