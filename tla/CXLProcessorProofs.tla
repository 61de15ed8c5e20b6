------------------------- MODULE CXLProcessorProofs -------------------------
(***************************************************************************)
(* Proofs for module CXLProcessor, for any number of requests of any size. *)
(***************************************************************************)
EXTENDS CXLProcessor, SequenceTheorems, TLAPS

(***************************************************************************)
(* The inductive invariant.  The list holds the last requests made, whole  *)
(* but for the first (Queue); what was sent is in order (Ordered) and ends *)
(* just before the packet that is next (Before, Frontier); and a refused   *)
(* packet is the one that is next.                                         *)
(***************************************************************************)
Queue(q, sz) ==
  /\ q \in Seq(ReqStates)
  /\ Len(q) <= Len(sz)
  /\ \A i \in 1 .. Len(q) :
       /\ q[i].req = Len(sz) - Len(q) + i
       /\ q[i].size = sz[q[i].req]
       /\ q[i].gen <= q[i].size
       /\ i > 1 => q[i].gen = 1

Frontier(q, sz) ==
  IF q = <<>> THEN [req |-> Len(sz) + 1, chunk |-> 1] ELSE createPacket(Head(q))

\* Packet p comes after packet o, with nothing between them.
Follows(sz, o, p) ==
  \/ p.req = o.req /\ p.chunk = o.chunk + 1
  \/ p = [req |-> o.req + 1, chunk |-> 1] /\ o.chunk = sz[o.req]

Before(sz, snt, p) ==
  IF snt = <<>> THEN p = [req |-> 1, chunk |-> 1]
  ELSE Follows(sz, snt[Len(snt)], p)

Ordered(sz, snt) ==
  /\ \A i \in 2 .. Len(snt) : Follows(sz, snt[i-1], snt[i])
  /\ snt # <<>> => snt[1] = [req |-> 1, chunk |-> 1]

Known(sz, snt) ==
  /\ sz \in Seq(1 .. MaxChunks)
  /\ Len(sz) <= MaxReqs
  /\ snt \in Seq(Packets)
  /\ \A i \in 1 .. Len(snt) : snt[i].req <= Len(sz) /\ snt[i].chunk <= sz[snt[i].req]

Progress(q, sz, snt) ==
  /\ Queue(q, sz)
  /\ Known(sz, snt)
  /\ Ordered(sz, snt)
  /\ Before(sz, snt, Frontier(q, sz))

Sending(k) ==
  /\ k \in [transmitList: Seq(ReqStates), pendingCount: Nat,
            inRetry: Packets \cup {NoPacket},
            retryPending: BOOLEAN, sendEvent: BOOLEAN]
  /\ k.inRetry # NoPacket <=> k.retryPending
  /\ k.retryPending =>
       /\ ~ k.sendEvent
       /\ k.transmitList # <<>>
       /\ k.inRetry = createPacket(Head(k.transmitList))

Inv ==
  /\ timing \in BOOLEAN /\ owesRetry \in BOOLEAN /\ respWaits \in BOOLEAN
  /\ Sending(port)
  /\ Progress(port.transmitList, sizes, sent)
  /\ WorkIsScheduled
  /\ ~ timing => port.transmitList = <<>>

-----------------------------------------------------------------------------
(***************************************************************************)
(* Lemmas on the list and on what was sent.                                *)
(***************************************************************************)

\* The packet that is next is one of the request's.
LEMMA FrontierPacket ==
  ASSUME NEW q, NEW sz, q # <<>>, Queue(q, sz), sz \in Seq(1 .. MaxChunks),
         Len(sz) <= MaxReqs
  PROVE  LET p == Frontier(q, sz)
         IN  /\ p \in Packets
             /\ p = createPacket(Head(q))
             /\ p.req \in 1 .. Len(sz)
             /\ p.chunk <= sz[p.req]
  <1>1. q \in Seq(ReqStates) /\ Len(q) >= 1 /\ Head(q) = q[1] /\ q[1] \in ReqStates
    BY DEF Queue
  <1>2. /\ q[1].req = Len(sz) - Len(q) + 1
        /\ q[1].size = sz[q[1].req]
        /\ q[1].gen <= q[1].size
    BY <1>1 DEF Queue
  <1>. QED
    BY <1>1, <1>2 DEF Queue, Frontier, createPacket, Packets, ReqStates

\* Sending the packet that is next keeps the order.
LEMMA SendKeepsOrder ==
  ASSUME NEW sz, NEW snt, NEW p \in Packets, Known(sz, snt), Ordered(sz, snt),
         Before(sz, snt, p), p.req \in 1 .. Len(sz), p.chunk <= sz[p.req]
  PROVE  Known(sz, Append(snt, p)) /\ Ordered(sz, Append(snt, p))
  <1>. DEFINE t == Append(snt, p)
  <1>1. /\ t \in Seq(Packets)
        /\ Len(t) = Len(snt) + 1
        /\ \A i \in 1 .. Len(snt) : t[i] = snt[i]
        /\ t[Len(t)] = p
        /\ Len(snt) \in Nat
    BY DEF Known
  <1>. HIDE DEF t
  <1>2. Known(sz, t)
    BY <1>1 DEF Known
  <1>3. ASSUME NEW i \in 2 .. Len(t) PROVE Follows(sz, t[i-1], t[i])
    <2>1. CASE i = Len(t)
      <3>1. snt # <<>> /\ t[i-1] = snt[Len(snt)] /\ t[i] = p
        BY <1>1, <2>1
      <3>. QED
        BY <3>1 DEF Before
    <2>2. CASE i # Len(t)
      <3>1. i \in 2 .. Len(snt) /\ t[i-1] = snt[i-1] /\ t[i] = snt[i]
        BY <1>1, <2>2
      <3>. QED
        BY <3>1 DEF Ordered
    <2>. QED
      BY <2>1, <2>2
  <1>4. t[1] = [req |-> 1, chunk |-> 1]
    <2>1. CASE snt = <<>>
      BY <1>1, <2>1 DEF Before
    <2>2. CASE snt # <<>>
      <3>1. 1 \in 1 .. Len(snt)
        BY <2>2 DEF Known
      <3>. QED
        BY <1>1, <2>2, <3>1 DEF Ordered
    <2>. QED
      BY <2>1, <2>2
  <1>5. Ordered(sz, t)
    BY <1>3, <1>4 DEF Ordered
  <1>. QED
    BY <1>2, <1>5 DEF t

\* gen.next() and the pop leave the packet after the one sent as the next one.
LEMMA AdvanceProgress ==
  ASSUME NEW k, NEW sz, NEW snt, k.transmitList # <<>>,
         Progress(k.transmitList, sz, snt)
  PROVE  Progress(advance(k), sz, Append(snt, Frontier(k.transmitList, sz)))
  <1>. DEFINE q == k.transmitList
              p == Frontier(q, sz)
              t == Append(snt, p)
              r == advance(k)
  <1>1. /\ q # <<>> /\ Queue(q, sz) /\ Known(sz, snt) /\ Ordered(sz, snt)
        /\ Before(sz, snt, p)
        /\ r = IF Head(q).gen = Head(q).size THEN Tail(q)
               ELSE [q EXCEPT ![1].gen = @ + 1]
    BY DEF Progress, advance
  <1>. HIDE DEF q, r
  <1>2. /\ p \in Packets /\ p = createPacket(Head(q))
        /\ p.req \in 1 .. Len(sz) /\ p.chunk <= sz[p.req]
    BY <1>1, FrontierPacket DEF Known
  <1>. HIDE DEF p
  <1>3. Known(sz, t) /\ Ordered(sz, t)
    BY <1>1, <1>2, SendKeepsOrder
  <1>4. t # <<>> /\ t[Len(t)] = p
    BY <1>1, SMTT(30), Z3T(30) DEF Known
  <1>. HIDE DEF t
  <1>5. /\ q \in Seq(ReqStates) /\ Len(q) \in Nat \ {0} /\ Head(q) = q[1]
        /\ Len(sz) \in Nat /\ Len(q) <= Len(sz)
        /\ q[1] \in ReqStates
    BY <1>1 DEF Queue, Known
  <1>6. /\ q[1].req = Len(sz) - Len(q) + 1
        /\ q[1].size = sz[q[1].req]
        /\ q[1].gen <= q[1].size
    BY <1>1, <1>5 DEF Queue
  <1>7. p.req = q[1].req /\ p.chunk = q[1].gen
    BY <1>2, <1>5 DEF createPacket
  <1>8. CASE q[1].gen = q[1].size
    <2>1. r = Tail(q)
      BY <1>1, <1>5, <1>8
    <2>2. /\ r \in Seq(ReqStates) /\ Len(r) = Len(q) - 1
          /\ \A i \in 1 .. Len(r) : r[i] = q[i+1]
      BY <1>5, <2>1
    <2>3. Queue(r, sz)
      <3>1. ASSUME NEW i \in 1 .. Len(r)
            PROVE  /\ r[i].req = Len(sz) - Len(r) + i
                   /\ r[i].size = sz[r[i].req]
                   /\ r[i].gen <= r[i].size
                   /\ r[i].gen = 1
        <4>1. i + 1 \in 1 .. Len(q) /\ i + 1 > 1 /\ r[i] = q[i+1]
          BY <1>5, <2>2
        <4>2. /\ q[i+1].req = Len(sz) - Len(q) + (i+1)
              /\ q[i+1].size = sz[q[i+1].req]
              /\ q[i+1].gen <= q[i+1].size
              /\ q[i+1].gen = 1
          BY <1>1, <4>1 DEF Queue
        <4>. QED
          BY <4>1, <4>2, <2>2, <1>5
      <3>. QED
        BY <3>1, <2>2, <1>5 DEF Queue
    <2>4. Frontier(r, sz) = [req |-> p.req + 1, chunk |-> 1]
      <3>1. CASE r = <<>>
        <4>1. Len(r) = 0
          BY <3>1
        <4>2. Len(q) = 1
          BY <4>1, <2>2, <1>5
        <4>3. p.req = Len(sz)
          BY <4>2, <1>5, <1>6, <1>7
        <4>. QED
          BY <3>1, <4>3 DEF Frontier
      <3>2. CASE r # <<>>
        <4>1. Head(r) = r[1] /\ 1 \in 1 .. Len(r) /\ r[1] = q[2] /\ 2 \in 1 .. Len(q)
          BY <3>2, <2>2, <1>5
        <4>2. q[2].req = Len(sz) - Len(q) + 2 /\ q[2].gen = 1
          BY <1>1, <4>1, SMTT(30), Z3T(30) DEF Queue
        <4>. QED
          BY <3>2, <4>1, <4>2, <1>5, <1>6, <1>7 DEF Frontier, createPacket
      <3>. QED
        BY <3>1, <3>2
    <2>5. p.chunk = sz[p.req]
      BY <1>6, <1>7, <1>8
    <2>6. Before(sz, t, Frontier(r, sz))
      BY <1>4, <2>4, <2>5 DEF Before, Follows
    <2>. QED
      BY <1>3, <2>3, <2>6 DEF Progress, q, p, r, t
  <1>9. CASE q[1].gen # q[1].size
    <2>1. r = [q EXCEPT ![1] = [q[1] EXCEPT !.gen = q[1].gen + 1]]
      BY <1>1, <1>5, <1>9
    <2>2. /\ r[1] = [q[1] EXCEPT !.gen = q[1].gen + 1]
          /\ Len(r) = Len(q) /\ \A i \in 2 .. Len(q) : r[i] = q[i]
      BY <1>5, <2>1
    <2>3. /\ r[1].req = q[1].req /\ r[1].size = q[1].size
          /\ r[1].gen = q[1].gen + 1 /\ r[1].gen <= r[1].size
          /\ r[1] \in ReqStates
      <3>1. /\ q[1].gen \in 1 .. MaxChunks /\ q[1].size \in 1 .. MaxChunks
            /\ q[1].req \in 1 .. MaxReqs
            /\ q[1] = [req |-> q[1].req, size |-> q[1].size, gen |-> q[1].gen]
        BY <1>5 DEF ReqStates
      <3>2. r[1] = [req |-> q[1].req, size |-> q[1].size, gen |-> q[1].gen + 1]
        BY <3>1, <2>2
      <3>3. q[1].gen + 1 <= q[1].size /\ q[1].gen + 1 \in 1 .. MaxChunks
        BY <3>1, <1>6, <1>9, BoundAssumption
      <3>. QED
        BY <3>1, <3>2, <3>3 DEF ReqStates
    <2>4. r \in Seq(ReqStates) /\ Head(r) = r[1] /\ r # <<>>
      BY <1>5, <2>1, <2>2, <2>3
    <2>5. Queue(r, sz)
      <3>1. ASSUME NEW i \in 1 .. Len(r)
            PROVE  /\ r[i].req = Len(sz) - Len(r) + i
                   /\ r[i].size = sz[r[i].req]
                   /\ r[i].gen <= r[i].size
                   /\ i > 1 => r[i].gen = 1
        <4>1. CASE i = 1
          BY <4>1, <1>6, <2>2, <2>3
        <4>2. CASE i # 1
          <5>1. i \in 2 .. Len(q) /\ i \in 1 .. Len(q) /\ r[i] = q[i]
            BY <4>2, <1>5, <2>2
          <5>2. /\ q[i].req = Len(sz) - Len(q) + i
                /\ q[i].size = sz[q[i].req]
                /\ q[i].gen <= q[i].size
                /\ i > 1 => q[i].gen = 1
            BY <1>1, <5>1 DEF Queue
          <5>. QED
            BY <5>1, <5>2, <2>2
        <4>. QED
          BY <4>1, <4>2
      <3>. QED
        BY <3>1, <2>2, <2>4, <1>5 DEF Queue
    <2>6. Frontier(r, sz) = [req |-> p.req, chunk |-> p.chunk + 1]
      BY <2>3, <2>4, <1>7 DEF Frontier, createPacket
    <2>7. Before(sz, t, Frontier(r, sz))
      BY <1>4, <2>6 DEF Before, Follows
    <2>. QED
      BY <1>3, <2>5, <2>7 DEF Progress, q, p, r, t
  <1>. QED
    BY <1>8, <1>9


\* What was sent stays known and in order when the size of a request is added.
LEMMA SizeKeepsOrder ==
  ASSUME NEW sz, NEW snt, NEW n \in 1 .. MaxChunks, Known(sz, snt), Ordered(sz, snt),
         Len(sz) + 1 <= MaxReqs
  PROVE  /\ Known(Append(sz, n), snt)
         /\ Ordered(Append(sz, n), snt)
         /\ \A p : Before(sz, snt, p) => Before(Append(sz, n), snt, p)
  <1>. DEFINE z == Append(sz, n)
  <1>1. /\ z \in Seq(1 .. MaxChunks)
        /\ Len(sz) \in Nat /\ Len(z) = Len(sz) + 1
        /\ \A i \in 1 .. Len(sz) : z[i] = sz[i]
    BY DEF Known
  <1>. HIDE DEF z
  <1>2. ASSUME NEW i \in 1 .. Len(snt)
        PROVE  snt[i].req \in 1 .. Len(sz) /\ z[snt[i].req] = sz[snt[i].req]
    <2>1. snt[i] \in Packets /\ snt[i].req <= Len(sz)
      BY DEF Known
    <2>2. snt[i].req \in 1 .. MaxReqs
      BY <2>1 DEF Packets
    <2>. QED
      BY <1>1, <2>1, <2>2, BoundAssumption, SMTT(30), Z3T(30)
  <1>3. Known(z, snt)
    <2>1. ASSUME NEW i \in 1 .. Len(snt)
          PROVE  snt[i].req <= Len(z) /\ snt[i].chunk <= z[snt[i].req]
      BY <1>1, <1>2 DEF Known
    <2>. QED
      BY <1>1, <2>1 DEF Known
  <1>4. Ordered(z, snt)
    <2>1. ASSUME NEW i \in 2 .. Len(snt) PROVE Follows(z, snt[i-1], snt[i])
      <3>1. i - 1 \in 1 .. Len(snt)
        BY DEF Known
      <3>2. z[snt[i-1].req] = sz[snt[i-1].req]
        BY <1>2, <3>1
      <3>. QED
        BY <3>2 DEF Ordered, Follows
    <2>. QED
      BY <2>1 DEF Ordered
  <1>5. ASSUME NEW p, Before(sz, snt, p) PROVE Before(z, snt, p)
    <2>1. CASE snt = <<>>
      BY <1>5, <2>1 DEF Before
    <2>2. CASE snt # <<>>
      <3>1. Len(snt) \in 1 .. Len(snt)
        BY <2>2 DEF Known
      <3>2. z[snt[Len(snt)].req] = sz[snt[Len(snt)].req]
        BY <1>2, <3>1
      <3>. QED
        BY <1>5, <2>2, <3>2 DEF Before, Follows
    <2>. QED
      BY <2>1, <2>2
  <1>. QED
    BY <1>3, <1>4, <1>5 DEF z

\* A request added to the list leaves the packet that is next as it is.
LEMMA RequestProgress ==
  ASSUME NEW q, NEW sz, NEW snt, NEW n \in 1 .. MaxChunks, Progress(q, sz, snt),
         Len(sz) + 1 <= MaxReqs
  PROVE  LET r == Append(q, [req |-> Len(sz) + 1, size |-> n, gen |-> 1])
         IN  /\ Progress(r, Append(sz, n), snt)
             /\ r # <<>>
             /\ q # <<>> => Head(r) = Head(q)
  <1>. DEFINE s == [req |-> Len(sz) + 1, size |-> n, gen |-> 1]
              r == Append(q, s)
              z == Append(sz, n)
  <1>1. /\ Queue(q, sz) /\ Known(sz, snt) /\ Ordered(sz, snt)
        /\ Before(sz, snt, Frontier(q, sz))
    BY DEF Progress
  <1>2. /\ z \in Seq(1 .. MaxChunks)
        /\ Len(sz) \in Nat /\ Len(z) = Len(sz) + 1
        /\ z[Len(z)] = n
        /\ \A i \in 1 .. Len(sz) : z[i] = sz[i]
    BY <1>1 DEF Known
  <1>3. s \in ReqStates /\ s.req = Len(sz) + 1 /\ s.size = n /\ s.gen = 1
    BY <1>2, BoundAssumption DEF ReqStates
  <1>4. /\ q \in Seq(ReqStates) /\ Len(q) \in Nat /\ Len(q) <= Len(sz)
    BY <1>1 DEF Queue
  <1>. HIDE DEF s, z
  <1>5a. /\ r \in Seq(ReqStates) /\ Len(r) = Len(q) + 1
         /\ r[Len(r)] = s
         /\ \A i \in 1 .. Len(q) : r[i] = q[i]
    BY <1>3, <1>4
  <1>. HIDE DEF r
  <1>5. /\ r \in Seq(ReqStates) /\ Len(r) = Len(q) + 1
        /\ r[Len(r)] = s /\ r # <<>> /\ Head(r) = r[1]
        /\ \A i \in 1 .. Len(q) : r[i] = q[i]
    BY <1>4, <1>5a
  <1>6. Known(z, snt) /\ Ordered(z, snt) /\ Before(z, snt, Frontier(q, sz))
    BY <1>1, SizeKeepsOrder, Zenon DEF z
  <1>7. Queue(r, z)
    <2>1. ASSUME NEW i \in 1 .. Len(r)
          PROVE  /\ r[i].req = Len(z) - Len(r) + i
                 /\ r[i].size = z[r[i].req]
                 /\ r[i].gen <= r[i].size
                 /\ i > 1 => r[i].gen = 1
      <3>1. CASE i = Len(r)
        <4>1. r[i] = s /\ Len(z) - Len(r) + i = Len(z)
          BY <3>1, <1>5, <1>2, <1>4
        <4>. QED
          BY <4>1, <1>2, <1>3
      <3>2. CASE i # Len(r)
        <4>1. i \in 1 .. Len(q) /\ r[i] = q[i]
          BY <3>2, <1>4, <1>5
        <4>2. /\ q[i].req = Len(sz) - Len(q) + i
              /\ q[i].size = sz[q[i].req]
              /\ q[i].gen <= q[i].size
              /\ i > 1 => q[i].gen = 1
          BY <1>1, <4>1 DEF Queue
        <4>3. q[i].req = Len(z) - Len(r) + i /\ q[i].req \in 1 .. Len(sz)
          BY <4>1, <4>2, <1>2, <1>4, <1>5
        <4>. QED
          BY ONLY <4>1, <4>2, <4>3, <1>2, Zenon
      <3>. QED
        BY <3>1, <3>2
    <2>2. Len(r) <= Len(z)
      BY <1>2, <1>4, <1>5
    <2>. QED
      BY <2>1, <2>2, <1>5 DEF Queue
  <1>8. Frontier(r, z) = Frontier(q, sz)
    <2>1. CASE q = <<>>
      <3>1. Len(r) = 1 /\ Head(r) = s
        BY <2>1, <1>5
      <3>. QED
        BY <2>1, <3>1, <1>3, <1>5 DEF Frontier, createPacket
    <2>2. CASE q # <<>>
      BY <2>2, <1>4, <1>5 DEF Frontier
    <2>. QED
      BY <2>1, <2>2
  <1>9. q # <<>> => Head(r) = Head(q)
    BY <1>4, <1>5
  <1>. QED
    BY <1>5, <1>6, <1>7, <1>8, <1>9 DEF Progress, r, s, z

\* Atomic mode: a whole request is sent at once.
LEMMA AtomicProgress ==
  ASSUME NEW sz, NEW snt, NEW n \in 1 .. MaxChunks, Progress(<<>>, sz, snt),
         Len(sz) + 1 <= MaxReqs
  PROVE  Progress(<<>>, Append(sz, n), snt \o sendReq(Len(sz) + 1, n))
  <1>. DEFINE z == Append(sz, n)
              e == sendReq(Len(sz) + 1, n)
              t == snt \o e
              p == [req |-> Len(sz) + 1, chunk |-> 1]
  <1>1. /\ Known(sz, snt) /\ Ordered(sz, snt) /\ Before(sz, snt, p)
    BY DEF Progress, Frontier
  <1>2. /\ z \in Seq(1 .. MaxChunks)
        /\ Len(sz) \in Nat /\ Len(z) = Len(sz) + 1
        /\ z[Len(z)] = n
    BY <1>1 DEF Known
  <1>3. /\ Known(z, snt) /\ Ordered(z, snt) /\ Before(z, snt, p)
    BY <1>1, SizeKeepsOrder
  <1>. HIDE DEF z
  <1>4. \A c \in 1 .. n : [req |-> Len(sz) + 1, chunk |-> c] \in Packets
    BY <1>2, BoundAssumption DEF Packets
  <1>5. /\ e \in Seq(Packets) /\ Len(e) = n
        /\ \A c \in 1 .. n : e[c] = [req |-> Len(sz) + 1, chunk |-> c]
    BY <1>4, BoundAssumption DEF sendReq
  <1>. HIDE DEF e
  <1>6. snt \in Seq(Packets) /\ Len(snt) \in Nat /\ n \in Nat /\ n >= 1
    BY <1>1, BoundAssumption DEF Known
  <1>7. /\ t \in Seq(Packets) /\ Len(t) = Len(snt) + n
        /\ \A i \in 1 .. Len(snt) : t[i] = snt[i]
        /\ \A i \in 1 .. Len(t) : i > Len(snt) => t[i] = e[i - Len(snt)]
    BY <1>5, <1>6, SMTT(30), Z3T(30)
  <1>. HIDE DEF t
  <1>8. \A i \in 1 .. Len(t) : i > Len(snt) =>
          t[i] = [req |-> Len(z), chunk |-> i - Len(snt)]
    <2>1. ASSUME NEW i \in 1 .. Len(t), i > Len(snt)
          PROVE  t[i] = [req |-> Len(z), chunk |-> i - Len(snt)]
      <3>1. i - Len(snt) \in 1 .. n
        BY <1>6, <1>7, <2>1
      <3>. QED
        BY <1>2, <1>5, <1>7, <2>1, <3>1
    <2>. QED
      BY <2>1
  <1>9. Known(z, t)
    <2>1. ASSUME NEW i \in 1 .. Len(t)
          PROVE  t[i].req <= Len(z) /\ t[i].chunk <= z[t[i].req]
      <3>1. CASE i \in 1 .. Len(snt)
        BY <1>3, <1>7, <3>1 DEF Known
      <3>2. CASE i > Len(snt)
        <4>1. t[i].req = Len(z) /\ t[i].chunk = i - Len(snt) /\ i - Len(snt) <= n
          BY <1>6, <1>7, <1>8, <3>2
        <4>. QED
          BY <4>1, <1>2
      <3>. QED
        BY <3>1, <3>2, <1>6
    <2>. QED
      BY <2>1, <1>3, <1>7 DEF Known
  <1>10. ASSUME NEW i \in 2 .. Len(t) PROVE Follows(z, t[i-1], t[i])
    <2>1. CASE i <= Len(snt)
      <3>1. i \in 2 .. Len(snt) /\ t[i-1] = snt[i-1] /\ t[i] = snt[i]
        BY <2>1, <1>6, <1>7, SMTT(30), Z3T(30)
      <3>. QED
        BY <3>1, <1>3 DEF Ordered
    <2>2. CASE i = Len(snt) + 1
      <3>1. i \in 1 .. Len(t) /\ i > Len(snt) /\ i - Len(snt) = 1
        BY <2>2, <1>6, <1>7
      <3>2. t[i] = p
        BY <3>1, <1>2, <1>8
      <3>3. snt # <<>> /\ t[i-1] = snt[Len(snt)]
        BY <2>2, <1>6, <1>7, SMTT(30), Z3T(30)
      <3>. QED
        BY <3>2, <3>3, <1>3 DEF Before
    <2>3. CASE i > Len(snt) + 1
      <3>1. /\ i \in 1 .. Len(t) /\ i - 1 \in 1 .. Len(t)
            /\ i > Len(snt) /\ i - 1 > Len(snt)
        BY <2>3, <1>6, <1>7
      <3>2. /\ t[i] = [req |-> Len(z), chunk |-> i - Len(snt)]
            /\ t[i-1] = [req |-> Len(z), chunk |-> (i - 1) - Len(snt)]
        BY <3>1, <1>8, Zenon
      <3>. QED
        BY <3>2, <1>6 DEF Follows
    <2>. QED
      BY <2>1, <2>2, <2>3, <1>6
  <1>11. t # <<>> /\ t[1] = [req |-> 1, chunk |-> 1]
    <2>1. CASE snt = <<>>
      <3>1. Len(snt) = 0 /\ 1 \in 1 .. Len(t)
        BY <2>1, <1>6, <1>7
      <3>2. t[1] = p
        BY <3>1, <1>2, <1>8
      <3>. QED
        BY <2>1, <3>1, <3>2, <1>3 DEF Before
    <2>2. CASE snt # <<>>
      <3>1. 1 \in 1 .. Len(snt)
        BY <2>2, <1>6
      <3>. QED
        BY <2>2, <3>1, <1>3, <1>7 DEF Ordered
    <2>. QED
      BY <2>1, <2>2
  <1>12. Ordered(z, t)
    BY <1>10, <1>11 DEF Ordered
  <1>13. Before(z, t, Frontier(<<>>, z))
    <2>1. Len(t) \in 1 .. Len(t) /\ Len(t) > Len(snt) /\ Len(t) - Len(snt) = n
      BY <1>6, <1>7
    <2>2. t[Len(t)] = [req |-> Len(z), chunk |-> n]
      BY <2>1, <1>8, Zenon
    <2>. QED
      BY <2>2, <1>2, <1>11 DEF Before, Follows, Frontier
  <1>14. Queue(<<>>, z)
    BY <1>2 DEF Queue
  <1>. QED
    BY <1>9, <1>12, <1>13, <1>14 DEF Progress, t, e, z

\* trySendTimingReq when the peer takes the packet.
LEMMA AcceptedKeeps ==
  ASSUME NEW k, NEW sz, NEW snt, Sending(k), k.transmitList # <<>>,
         ~ k.retryPending, ~ k.sendEvent, Progress(k.transmitList, sz, snt)
  PROVE  /\ Sending(accepted(k))
         /\ Progress(accepted(k).transmitList, sz, Append(snt, NextPacket(k)))
         /\ accepted(k).transmitList # <<>> <=>
              accepted(k).sendEvent \/ accepted(k).retryPending
  <1>. DEFINE a == advance(k)
  <1>1. NextPacket(k) = Frontier(k.transmitList, sz)
    BY DEF Sending, NextPacket, Frontier
  <1>2. Progress(a, sz, Append(snt, NextPacket(k)))
    BY <1>1, AdvanceProgress, Zenon
  <1>3. a \in Seq(ReqStates)
    BY <1>2 DEF Progress, Queue
  <1>. HIDE DEF a
  <1>4. /\ k.pendingCount \in Nat
        /\ k = [transmitList |-> k.transmitList, pendingCount |-> k.pendingCount,
                inRetry |-> k.inRetry, retryPending |-> k.retryPending,
                sendEvent |-> k.sendEvent]
    BY DEF Sending
  <1>5. k.retryPending = FALSE
    BY DEF Sending
  <1>. DEFINE e == (a # <<>>)
  <1>6. accepted(k) = [k EXCEPT !.transmitList = a, !.inRetry = NoPacket,
                                !.pendingCount = @ + 1, !.sendEvent = e]
    BY Zenon DEF accepted, a
  <1>7. e \in BOOLEAN
    OBVIOUS
  <1>. HIDE DEF e
  <1>8. accepted(k) = [transmitList |-> a, pendingCount |-> k.pendingCount + 1,
                       inRetry |-> NoPacket, retryPending |-> FALSE,
                       sendEvent |-> e]
    BY <1>4, <1>5, <1>6, Zenon
  <1>9. Sending(accepted(k))
    BY <1>3, <1>4, <1>7, <1>8 DEF Sending
  <1>10. accepted(k).transmitList = a
    BY <1>8
  <1>11. accepted(k).sendEvent \/ accepted(k).retryPending <=> e
    BY <1>8
  <1>. QED
    BY <1>2, <1>9, <1>10, <1>11 DEF e

\* trySendTimingReq when the peer refuses it.
LEMMA RefusedKeeps ==
  ASSUME NEW k, NEW sz, NEW snt, Sending(k), k.transmitList # <<>>,
         ~ k.retryPending, ~ k.sendEvent, Progress(k.transmitList, sz, snt)
  PROVE  /\ Sending(refused(k))
         /\ Progress(refused(k).transmitList, sz, snt)
         /\ refused(k).transmitList # <<>> /\ refused(k).retryPending
  <1>. DEFINE q == k.transmitList
              p == createPacket(Head(q))
  <1>1. NextPacket(k) = p
    BY DEF Sending, NextPacket
  <1>2. p \in Packets
    BY FrontierPacket DEF Progress, Known, Frontier
  <1>3. /\ k.pendingCount \in Nat /\ q \in Seq(ReqStates)
        /\ k = [transmitList |-> q, pendingCount |-> k.pendingCount,
                inRetry |-> k.inRetry, retryPending |-> k.retryPending,
                sendEvent |-> k.sendEvent]
    BY DEF Sending
  <1>4. p # NoPacket
    BY <1>2, PacketAssumption DEF Packets
  <1>. HIDE DEF p
  <1>5. refused(k) = [transmitList |-> q, pendingCount |-> k.pendingCount,
                      inRetry |-> p, retryPending |-> TRUE, sendEvent |-> FALSE]
    <2>1. k.sendEvent = FALSE
      BY DEF Sending
    <2>2. refused(k) = [k EXCEPT !.inRetry = p, !.retryPending = TRUE]
      BY <1>1, Zenon DEF refused
    <2>. QED
      BY ONLY <1>3, <2>1, <2>2, Zenon
  <1>6. Sending(refused(k))
    BY <1>2, <1>3, <1>4, <1>5 DEF Sending, p
  <1>. QED
    BY <1>5, <1>6

-----------------------------------------------------------------------------
(***************************************************************************)
(* The theorems.                                                           *)
(***************************************************************************)

\* A call of sendPacket on a port with work, from execCXLProc or from sendEvent.
LEMMA SendPacketStep ==
  ASSUME NEW STATE k, NEW ACTION sz, sendPacket(k), Sending(k), k.transmitList # <<>>,
         Progress(k.transmitList, sz, sent), owesRetry \in BOOLEAN
  PROVE  /\ Sending(port')
         /\ Progress(port'.transmitList, sz, sent')
         /\ port'.transmitList # <<>> <=> port'.sendEvent \/ port'.retryPending
         /\ owesRetry' \in BOOLEAN
  <1>1. CASE k.retryPending \/ k.sendEvent
    BY <1>1 DEF sendPacket
  <1>2. CASE ~ (k.retryPending \/ k.sendEvent)
    <2>1. CASE /\ port' = accepted(k)
               /\ sent' = Append(sent, NextPacket(k))
               /\ UNCHANGED owesRetry
      BY <1>2, <2>1, AcceptedKeeps
    <2>2. CASE /\ port' = refused(k)
               /\ owesRetry' = TRUE
               /\ UNCHANGED sent
      BY <1>2, <2>2, RefusedKeeps
    <2>. QED
      BY <1>2, <2>1, <2>2, Zenon DEF sendPacket
  <1>. QED
    BY <1>1, <1>2

\* A request: execCXLProc, in both memory modes.
LEMMA RequestStep ==
  ASSUME Inv, NEW n \in 1 .. MaxChunks, execCXLProc(n)
  PROVE  Inv'
  <1>. DEFINE s == [req |-> Len(sizes) + 1, size |-> n, gen |-> 1]
              q == Append(port.transmitList, s)
              k == [port EXCEPT !.transmitList = q]
  <1>1. /\ Sending(port) /\ Progress(port.transmitList, sizes, sent)
        /\ Len(sizes) + 1 <= MaxReqs
        /\ sizes' = Append(sizes, n)
        /\ timing' = timing /\ respWaits' = respWaits
        /\ timing \in BOOLEAN /\ owesRetry \in BOOLEAN /\ respWaits \in BOOLEAN
    BY DEF Inv, execCXLProc
  <1>2. CASE timing
    <2>1. /\ Progress(q, sizes', sent) /\ q # <<>>
          /\ port.transmitList # <<>> => Head(q) = Head(port.transmitList)
      BY <1>1, RequestProgress
    <2>2. sendPacket(k)
      BY <1>2 DEF execCXLProc
    <2>. HIDE DEF s, q
    <2>3. /\ port = [transmitList |-> port.transmitList,
                     pendingCount |-> port.pendingCount, inRetry |-> port.inRetry,
                     retryPending |-> port.retryPending, sendEvent |-> port.sendEvent]
      BY <1>1 DEF Sending
    <2>4. k = [transmitList |-> q, pendingCount |-> port.pendingCount,
               inRetry |-> port.inRetry, retryPending |-> port.retryPending,
               sendEvent |-> port.sendEvent]
      BY <2>3
    <2>5. q \in Seq(ReqStates)
      BY <2>1 DEF Progress, Queue
    <2>. HIDE DEF k
    <2>6. Sending(k) /\ k.transmitList = q
      BY <1>1, <2>1, <2>4, <2>5 DEF Sending
    <2>7. /\ Sending(port')
          /\ Progress(port'.transmitList, sizes', sent')
          /\ port'.transmitList # <<>> <=> port'.sendEvent \/ port'.retryPending
          /\ owesRetry' \in BOOLEAN
      BY <1>1, <2>1, <2>2, <2>6, SendPacketStep
    <2>. QED
      BY <1>1, <1>2, <2>7 DEF Inv, WorkIsScheduled
  <1>3. CASE ~ timing
    <2>1. /\ sent' = sent \o sendReq(Len(sizes) + 1, n)
          /\ port' = port /\ owesRetry' = owesRetry
          /\ port.transmitList = <<>>
      BY <1>3 DEF execCXLProc, Inv
    <2>2. Progress(port'.transmitList, sizes', sent')
      BY <1>1, <2>1, AtomicProgress
    <2>. QED
      BY <1>1, <1>3, <2>1, <2>2 DEF Inv, WorkIsScheduled
  <1>. QED
    BY <1>2, <1>3

\* sendEvent.
LEMMA EventStep ==
  ASSUME Inv, SendEvent
  PROVE  Inv'
  <1>. DEFINE k == [port EXCEPT !.sendEvent = FALSE]
  <1>1. /\ Sending(port) /\ Progress(port.transmitList, sizes, sent)
        /\ port.sendEvent /\ timing /\ port.transmitList # <<>>
        /\ sendPacket(k)
        /\ sizes' = sizes /\ timing' = timing /\ respWaits' = respWaits
        /\ timing \in BOOLEAN /\ owesRetry \in BOOLEAN /\ respWaits \in BOOLEAN
    BY DEF Inv, SendEvent, WorkIsScheduled
  <1>2. /\ port \in [transmitList: Seq(ReqStates), pendingCount: Nat,
                    inRetry: Packets \cup {NoPacket},
                    retryPending: BOOLEAN, sendEvent: BOOLEAN]
        /\ port.retryPending = FALSE /\ port.inRetry = NoPacket
    BY <1>1 DEF Sending
  <1>3. /\ k \in [transmitList: Seq(ReqStates), pendingCount: Nat,
                 inRetry: Packets \cup {NoPacket},
                 retryPending: BOOLEAN, sendEvent: BOOLEAN]
        /\ k.transmitList = port.transmitList
        /\ k.retryPending = FALSE /\ k.inRetry = NoPacket
    BY ONLY <1>2, Zenon
  <1>. HIDE DEF k
  <1>4. Sending(k) /\ k.transmitList = port.transmitList
    BY <1>3 DEF Sending
  <1>5. /\ Sending(port')
        /\ Progress(port'.transmitList, sizes', sent')
        /\ port'.transmitList # <<>> <=> port'.sendEvent \/ port'.retryPending
        /\ owesRetry' \in BOOLEAN
    BY <1>1, <1>4, SendPacketStep
  <1>. QED
    BY <1>1, <1>5 DEF Inv, WorkIsScheduled

\* The invariant always holds.
THEOREM InvAlways == Spec => []Inv
  <1>1. Init => Inv
    <2>. SUFFICES ASSUME Init PROVE Inv
      OBVIOUS
    <2>1. Progress(<<>>, <<>>, <<>>)
      BY BoundAssumption
         DEF Progress, Queue, Known, Ordered, Before, Frontier
    <2>2. Sending(port)
      BY DEF Init, Sending
    <2>. QED
      BY <2>1, <2>2, Zenon DEF Init, Inv, WorkIsScheduled
  <1>2. Inv /\ [Next]_vars => Inv'
    <2>. SUFFICES ASSUME Inv, [Next]_vars PROVE Inv'
      OBVIOUS
    <2>1. ASSUME NEW n \in 1 .. MaxChunks, execCXLProc(n) PROVE Inv'
      BY <2>1, RequestStep
    <2>2. CASE SendEvent
      BY <2>2, EventStep
    <2>3. CASE recvReqRetry
      BY <2>3, Zenon DEF recvReqRetry, Inv, WorkIsScheduled
    <2>4. CASE recvTimingResp
      BY <2>4 DEF recvTimingResp, Inv, WorkIsScheduled
    <2>5. CASE UNCHANGED vars
      BY <2>5 DEF vars, Inv, WorkIsScheduled
    <2>. QED
      BY <2>1, <2>2, <2>3, <2>4, <2>5 DEF Next
  <1>. QED
    BY <1>1, <1>2, PTL DEF Spec

\* Type correctness: the fields of CXLProcPort keep their types, and a queued
\* request state always has a chunk left.
THEOREM TypeCorrect == Spec => []TypeOK
  <1>1. Inv => TypeOK
    BY DEF Inv, Sending, Progress, Known, TypeOK
  <1>. QED
    BY <1>1, InvAlways, PTL

\* trySendTimingReq and the atomic sendReq: the chunks of the requests leave in
\* order, once each, and none is left out.
THEOREM SendingInOrder == Spec => []SentInOrder
  <1>1. Inv => SentInOrder
    <2>. SUFFICES ASSUME Inv PROVE SentInOrder
      OBVIOUS
    <2>1. /\ Known(sizes, sent) /\ Ordered(sizes, sent)
          /\ Before(sizes, sent, Frontier(port.transmitList, sizes))
      BY DEF Inv, Progress
    <2>2. ASSUME port.transmitList = <<>>, sizes # <<>>
          PROVE  /\ sent # <<>>
                 /\ sent[Len(sent)] = [req |-> Len(sizes), chunk |-> sizes[Len(sizes)]]
      <3>. DEFINE p == [req |-> Len(sizes) + 1, chunk |-> 1]
                  o == sent[Len(sent)]
      <3>1. Before(sizes, sent, p) /\ p.req = Len(sizes) + 1
        BY <2>1, <2>2 DEF Frontier
      <3>2. Len(sizes) \in Nat \ {0}
        BY <2>1, <2>2 DEF Known
      <3>3. sent # <<>>
        BY <3>1, <3>2 DEF Before
      <3>4. Len(sent) \in 1 .. Len(sent)
        BY <3>3, <2>1 DEF Known
      <3>5. o \in Packets /\ o.req <= Len(sizes)
        BY <3>4, <2>1 DEF Known
      <3>6. Follows(sizes, o, p)
        BY <3>1, <3>3 DEF Before
      <3>. HIDE DEF o
      <3>7. o.req \in Nat /\ o = [req |-> o.req, chunk |-> o.chunk]
        BY <3>5, BoundAssumption DEF Packets
      <3>8. o.req + 1 = Len(sizes) + 1 /\ o.chunk = sizes[o.req]
        BY <3>2, <3>5, <3>6, <3>7 DEF Follows
      <3>9. o = [req |-> Len(sizes), chunk |-> sizes[Len(sizes)]]
        BY <3>2, <3>7, <3>8
      <3>. QED
        BY <3>3, <3>9 DEF o
    <2>. QED
      BY <2>1, <2>2 DEF SentInOrder, Ordered, Follows
  <1>. QED
    BY <1>1, InvAlways, PTL

\* sendPacket and trySendTimingReq: in timing mode a port has packets to send
\* exactly when it has scheduled its event or waits for a retry.
THEOREM AlwaysScheduled == Spec => []WorkIsScheduled
  <1>1. Inv => WorkIsScheduled
    BY DEF Inv
  <1>. QED
    BY <1>1, InvAlways, PTL

=============================================================================
