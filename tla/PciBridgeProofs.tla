-------------------------- MODULE PciBridgeProofs --------------------------
(***************************************************************************)
(* Proofs about PciBridge, for any set of requests, links and traffic and  *)
(* any queue limits.  The invariants that the runs check rest on four      *)
(* facts: a request is in one place at a time (Once), the packets that     *)
(* bypass the routing table are only on the ports their answers belong to  *)
(* (Kinds), the table holds the requests that peers will answer through    *)
(* it (Routes), and no entry for a packet in the bridge (Clear), and       *)
(* reservations cover what is on its way and needs a response (Cov).       *)
(* They are stated over the fields of the bridge: rq and rs are its        *)
(* request and response queues, pe the requests at the peers, ro the       *)
(* routing table and out the reservations.                                 *)
(***************************************************************************)
EXTENDS PciBridge, TLAPS

Queues == [Ports -> Seq(Packet)]
Peers == [Ports -> SUBSET Packet]

\* No place holds request r.
Fresh(rq, rs, pe, r) ==
  /\ \A i \in Ports : \A n \in 1 .. Len(rq[i]) : rq[i][n].req # r
  /\ \A i \in Ports : \A n \in 1 .. Len(rs[i]) : rs[i][n].req # r
  /\ \A i \in Ports : \A p \in pe[i] : p.req # r

\* Two places of the queues q and t do not hold the same request.
OnceIn(q) ==
  \A i, j \in Ports : \A m \in 1 .. Len(q[i]), n \in 1 .. Len(q[j]) :
    q[i][m].req = q[j][n].req => i = j /\ m = n

Apart(q, t) ==
  \A i, j \in Ports : \A m \in 1 .. Len(q[i]), n \in 1 .. Len(t[j]) :
    q[i][m].req # t[j][n].req

PeerOnce(pe) ==
  \A i, j \in Ports : \A p \in pe[i], q \in pe[j] : p.req = q.req => i = j /\ p = q

PeerApart(q, pe) ==
  \A i, j \in Ports : \A n \in 1 .. Len(q[i]) : \A p \in pe[j] : q[i][n].req # p.req

Once(rq, rs, pe) ==
  /\ OnceIn(rq) /\ OnceIn(rs) /\ Apart(rq, rs)
  /\ PeerOnce(pe) /\ PeerApart(rq, pe) /\ PeerApart(rs, pe)

\* The packets that may be in request queue i, at peer i and in response
\* queue i.
KReq(i, p) ==
  /\ p.type = "HostBiasCheck" =>
       /\ p.dest = CXLLink
       /\ (i = Host /\ p.from = CXLLink) \/ (i = CXLLink /\ p.from = Host)
  /\ p.type = "CXLcacheH2DReq" => i = CXLLink /\ p.from = Host
  /\ p.type = "CXLcacheH2DResp" => i = Host
  /\ ~ p.needsResponse => p.type \in Unrouted \/ p.from = CXLLink

KPeer(i, p) == KReq(i, p) /\ p.type # "CXLcacheH2DResp" /\ p.needsResponse

KResp(i, p) == p.from = i /\ p.needsResponse

Kinds(rq, rs, pe) ==
  \A i \in Ports :
    /\ \A n \in 1 .. Len(rq[i]) : KReq(i, rq[i][n])
    /\ \A n \in 1 .. Len(rs[i]) : KResp(i, rs[i][n])
    /\ \A p \in pe[i] : KPeer(i, p)

\* The entry of the routing table for a packet that a peer holds.
Entry(p) == IF p.type \in Unrouted THEN NoPort ELSE p.from

Routes(ro, pe) ==
  /\ \A i \in Ports : \A p \in pe[i] : ro[p.req] = Entry(p)
  /\ \A r \in Reqs : ro[r] \notin {NoPort, CXLLink} =>
       \E i \in Ports : \E p \in pe[i] : p.req = r /\ p.type \notin Unrouted

\* No packet of the queues q has an entry.
Clear(ro, q) == \A i \in Ports : \A n \in 1 .. Len(q[i]) : ro[q[i][n].req] = NoPort

\* The packets on their way, as InFlight, and those that slave port s admitted
\* and that need a response.
InFl(rq, rs, pe) ==
  (UNION {Range(rq[i]) \cup Range(rs[i]) : i \in Ports}) \cup UNION {pe[i] : i \in Ports}

Of(F, s) == {p \in F : p.from = s /\ p.needsResponse}

\* What the proofs use of finite sets.  Cov and Exact carry it along, and the
\* library of finite sets, which proves it, is needed for Init only.
CardinalityLaws ==
  /\ IsFiniteSet({}) /\ Cardinality({}) = 0
  /\ \A S : IsFiniteSet(S) =>
       /\ Cardinality(S) \in Nat
       /\ \A x : x \notin S => /\ IsFiniteSet(S \cup {x})
                              /\ Cardinality(S \cup {x}) = Cardinality(S) + 1
       /\ \A x \in S : /\ IsFiniteSet(S \ {x})
                       /\ Cardinality(S \ {x}) = Cardinality(S) - 1

Cov(F, out) ==
  /\ CardinalityLaws
  /\ \A s \in Ports : IsFiniteSet(Of(F, s)) /\ Cardinality(Of(F, s)) <= out[s]

\* The updates of the fields.
App(q, m, p) == [q EXCEPT ![m] = Append(@, p)]
Pop(q, m) == [q EXCEPT ![m] = Tail(@)]
Put(pe, m, p) == [pe EXCEPT ![m] = @ \cup {p}]
Del(pe, m, p) == [pe EXCEPT ![m] = @ \ {p}]
Plus(out, s) == [out EXCEPT ![s] = @ + 1]
Minus(out, s) == [out EXCEPT ![s] = @ - 1]
Book(out, p) == IF p.needsResponse THEN Plus(out, p.from) ELSE out
Enter(ro, p) == [ro EXCEPT ![p.req] = IF p.type \in Unrouted THEN @ ELSE p.from]
Leave(ro, p) == [ro EXCEPT ![p.req] = NoPort]

Inv ==
  /\ TypeOK
  /\ Once(b.reqList, b.respList, peer)
  /\ Kinds(b.reqList, b.respList, peer)
  /\ Routes(b.routeTo, peer)
  /\ Clear(b.routeTo, b.reqList) /\ Clear(b.routeTo, b.respList)
  /\ Cov(InFl(b.reqList, b.respList, peer), b.outstandingResponses)

-----------------------------------------------------------------------------
(***************************************************************************)
(* A packet enters or leaves a queue or a peer.                            *)
(***************************************************************************)

\* What Append and Tail do to a queue.
LEMMA AppendNotEmpty ==
  ASSUME NEW s \in Seq(Packet), NEW p \in Packet
  PROVE  Append(s, p) # <<>> /\ Len(Append(s, p)) = Len(s) + 1
  <1>1. Len(Append(s, p)) = Len(s) + 1 /\ Len(s) \in Nat /\ Len(<<>>) = 0
    OBVIOUS
  <1>. QED
    BY <1>1

LEMMA AppendFacts ==
  ASSUME NEW q \in Queues, NEW m \in Ports, NEW p \in Packet
  PROVE  /\ App(q, m, p) \in Queues
         /\ \A i \in Ports : i # m => App(q, m, p)[i] = q[i]
         /\ Len(App(q, m, p)[m]) = Len(q[m]) + 1
         /\ \A n \in 1 .. Len(q[m]) : App(q, m, p)[m][n] = q[m][n]
         /\ App(q, m, p)[m][Len(q[m]) + 1] = p
  BY DEF Queues, App

LEMMA TailFacts ==
  ASSUME NEW q \in Queues, NEW m \in Ports, q[m] # <<>>
  PROVE  /\ Pop(q, m) \in Queues
         /\ \A i \in Ports : i # m => Pop(q, m)[i] = q[i]
         /\ Len(q[m]) \in Nat \ {0}
         /\ Len(Pop(q, m)[m]) = Len(q[m]) - 1
         /\ \A n \in 1 .. Len(Pop(q, m)[m]) : Pop(q, m)[m][n] = q[m][n + 1]
         /\ Head(q[m]) = q[m][1]
         /\ Head(q[m]) \in Packet
  BY DEF Queues, Pop

LEMMA PeerFacts ==
  ASSUME NEW pe \in Peers, NEW m \in Ports, NEW p \in Packet
  PROVE  /\ Put(pe, m, p) \in Peers
         /\ Del(pe, m, p) \in Peers
  BY DEF Peers, Put, Del

\* The order of the two kinds of queues does not matter.
LEMMA OnceSym ==
  ASSUME NEW rq, NEW rs, NEW pe
  PROVE  /\ Once(rq, rs, pe) => Once(rs, rq, pe)
         /\ InFl(rq, rs, pe) = InFl(rs, rq, pe)
  BY DEF Once, Apart, InFl

LEMMA FreshSym ==
  ASSUME NEW rq, NEW rs, NEW pe, NEW r
  PROVE  Fresh(rq, rs, pe, r) => Fresh(rs, rq, pe, r)
  BY DEF Fresh

\* The packets on their way, place by place.
LEMMA InFlPlaces ==
  ASSUME NEW rq \in Queues, NEW rs \in Queues, NEW pe \in Peers, NEW p
  PROVE  p \in InFl(rq, rs, pe) <=>
           \E i \in Ports :
             \/ \E n \in 1 .. Len(rq[i]) : p = rq[i][n]
             \/ \E n \in 1 .. Len(rs[i]) : p = rs[i][n]
             \/ p \in pe[i]
  <1>1. \A i \in Ports : /\ DOMAIN rq[i] = 1 .. Len(rq[i])
                         /\ DOMAIN rs[i] = 1 .. Len(rs[i])
    BY DEF Queues
  <1>2. \A i \in Ports : /\ p \in Range(rq[i]) <=> \E n \in 1 .. Len(rq[i]) : p = rq[i][n]
                         /\ p \in Range(rs[i]) <=> \E n \in 1 .. Len(rs[i]) : p = rs[i][n]
    <2>1. ASSUME NEW i \in Ports, NEW q, DOMAIN q = 1 .. Len(q)
          PROVE  p \in Range(q) <=> \E n \in 1 .. Len(q) : p = q[n]
      BY <2>1, SMT DEF Range
    <2>. QED
      BY <1>1, <2>1
  <1>3. p \in InFl(rq, rs, pe) <=>
          \E i \in Ports : p \in Range(rq[i]) \/ p \in Range(rs[i]) \/ p \in pe[i]
    BY SMT DEF InFl
  <1>. QED
    BY <1>2, <1>3, Zenon

\* A packet of a fresh request is appended to a queue.
LEMMA AddKeepsOnce ==
  ASSUME NEW rq \in Queues, NEW rs \in Queues, NEW pe \in Peers,
         NEW m \in Ports, NEW p \in Packet,
         Once(rq, rs, pe), Fresh(rq, rs, pe, p.req)
  PROVE  /\ App(rq, m, p) \in Queues
         /\ Once(App(rq, m, p), rs, pe)
         /\ InFl(App(rq, m, p), rs, pe) = InFl(rq, rs, pe) \cup {p}
         /\ p \notin InFl(rq, rs, pe)
  <1>. DEFINE q1 == App(rq, m, p)
  <1>1. /\ q1 \in Queues
        /\ \A i \in Ports : i # m => q1[i] = rq[i]
        /\ Len(q1[m]) = Len(rq[m]) + 1
        /\ \A n \in 1 .. Len(rq[m]) : q1[m][n] = rq[m][n]
        /\ q1[m][Len(rq[m]) + 1] = p
    BY AppendFacts
  <1>. HIDE DEF q1
  <1>2. \A i \in Ports : Len(rq[i]) \in Nat
    BY DEF Queues
  <1>3. \A i \in Ports : \A n \in 1 .. Len(q1[i]) :
          \/ n \in 1 .. Len(rq[i]) /\ q1[i][n] = rq[i][n]
          \/ i = m /\ n = Len(rq[m]) + 1 /\ q1[i][n] = p
    BY <1>1, <1>2, SMT, Z3T(30)
  <1>f. /\ \A i \in Ports : \A n \in 1 .. Len(rq[i]) : rq[i][n].req # p.req
        /\ \A i \in Ports : \A n \in 1 .. Len(rs[i]) : rs[i][n].req # p.req
        /\ \A i \in Ports : \A z \in pe[i] : z.req # p.req
    BY DEF Fresh
  <1>4. OnceIn(q1)
    <2>1. OnceIn(rq)
      BY DEF Once
    <2>2. SUFFICES ASSUME NEW i \in Ports, NEW j \in Ports,
                          NEW n \in 1 .. Len(q1[i]), NEW o \in 1 .. Len(q1[j]),
                          q1[i][n].req = q1[j][o].req
                   PROVE  i = j /\ n = o
      BY DEF OnceIn
    <2>3. \/ n \in 1 .. Len(rq[i]) /\ q1[i][n] = rq[i][n]
          \/ i = m /\ n = Len(rq[m]) + 1 /\ q1[i][n] = p
      BY <1>3
    <2>4. \/ o \in 1 .. Len(rq[j]) /\ q1[j][o] = rq[j][o]
          \/ j = m /\ o = Len(rq[m]) + 1 /\ q1[j][o] = p
      BY <1>3
    <2>5. CASE n \in 1 .. Len(rq[i]) /\ q1[i][n] = rq[i][n]
      BY <1>f, <2>1, <2>2, <2>4, <2>5, SMTT(30), Z3T(30) DEF OnceIn
    <2>6. CASE i = m /\ n = Len(rq[m]) + 1 /\ q1[i][n] = p
      BY <1>f, <2>2, <2>4, <2>6
    <2>. QED
      BY <2>3, <2>5, <2>6
  <1>5. Apart(q1, rs) /\ PeerApart(q1, pe)
    <2>1. Apart(rq, rs) /\ PeerApart(rq, pe)
      BY DEF Once
    <2>2. ASSUME NEW i \in Ports, NEW n \in 1 .. Len(q1[i])
          PROVE  /\ \A j \in Ports : \A o \in 1 .. Len(rs[j]) : q1[i][n].req # rs[j][o].req
                 /\ \A j \in Ports : \A z \in pe[j] : q1[i][n].req # z.req
      <3>1. CASE n \in 1 .. Len(rq[i]) /\ q1[i][n] = rq[i][n]
        BY <2>1, <3>1, ZenonT(40) DEF Apart, PeerApart
      <3>2. CASE q1[i][n] = p
        BY <1>f, <3>2, Zenon
      <3>. QED
        BY <1>3, <3>1, <3>2, Zenon
    <2>. QED
      BY <2>2, Zenon DEF Apart, PeerApart
  <1>6. Once(q1, rs, pe)
    BY <1>4, <1>5 DEF Once
  <1>7. p \notin InFl(rq, rs, pe)
    BY InFlPlaces DEF Fresh
  <1>8. ASSUME NEW z PROVE z \in InFl(q1, rs, pe) <=> z \in InFl(rq, rs, pe) \cup {p}
    <2>1. z \in InFl(q1, rs, pe) => z \in InFl(rq, rs, pe) \cup {p}
      BY <1>1, <1>3, InFlPlaces, SMTT(30), Z3T(30)
    <2>2. z = p => z \in InFl(q1, rs, pe)
      BY <1>1, <1>2, InFlPlaces
    <2>3. \A i \in Ports : \A n \in 1 .. Len(rq[i]) :
            n \in 1 .. Len(q1[i]) /\ q1[i][n] = rq[i][n]
      BY <1>1, <1>2
    <2>4. z \in InFl(rq, rs, pe) => z \in InFl(q1, rs, pe)
      BY <1>1, <2>3, InFlPlaces
    <2>. QED
      BY <2>1, <2>2, <2>4
  <1>. QED
    BY <1>1, <1>6, <1>7, <1>8 DEF q1

\* The head of a queue leaves it, and its request is fresh.
LEMMA PopKeepsOnce ==
  ASSUME NEW rq \in Queues, NEW rs \in Queues, NEW pe \in Peers,
         NEW m \in Ports, rq[m] # <<>>, Once(rq, rs, pe)
  PROVE  /\ Pop(rq, m) \in Queues
         /\ Once(Pop(rq, m), rs, pe)
         /\ Fresh(Pop(rq, m), rs, pe, Head(rq[m]).req)
         /\ InFl(Pop(rq, m), rs, pe) = InFl(rq, rs, pe) \ {Head(rq[m])}
         /\ Head(rq[m]) \in InFl(rq, rs, pe)
         /\ Head(rq[m]) \in Packet
  <1>. DEFINE q1 == Pop(rq, m)
              p == Head(rq[m])
  <1>1. /\ q1 \in Queues
        /\ \A i \in Ports : i # m => q1[i] = rq[i]
        /\ Len(rq[m]) \in Nat \ {0}
        /\ Len(q1[m]) = Len(rq[m]) - 1
        /\ \A n \in 1 .. Len(q1[m]) : q1[m][n] = rq[m][n + 1]
        /\ p = rq[m][1]
        /\ p \in Packet
    BY TailFacts
  <1>. HIDE DEF q1, p
  <1>2. \A i \in Ports : Len(rq[i]) \in Nat
    BY DEF Queues
  <1>. DEFINE at(i, n) == IF i = m THEN n + 1 ELSE n
  <1>3. \A i \in Ports : \A n \in 1 .. Len(q1[i]) :
          /\ at(i, n) \in 1 .. Len(rq[i])
          /\ q1[i][n] = rq[i][at(i, n)]
          /\ i = m => at(i, n) # 1
    BY <1>1, <1>2
  <1>i. \A i \in Ports : \A n, o \in 1 .. Len(q1[i]) : at(i, n) = at(i, o) => n = o
    BY <1>1, <1>2
  <1>h. 1 \in 1 .. Len(rq[m])
    BY <1>1
  <1>. HIDE DEF at
  <1>o. /\ OnceIn(rq) /\ Apart(rq, rs) /\ PeerApart(rq, pe)
        /\ OnceIn(rs) /\ PeerOnce(pe) /\ PeerApart(rs, pe)
    BY DEF Once
  <1>4. OnceIn(q1)
    <2>1. SUFFICES ASSUME NEW i \in Ports, NEW j \in Ports,
                          NEW n \in 1 .. Len(q1[i]), NEW o \in 1 .. Len(q1[j]),
                          q1[i][n].req = q1[j][o].req
                   PROVE  i = j /\ n = o
      BY DEF OnceIn
    <2>2. /\ at(i, n) \in 1 .. Len(rq[i]) /\ q1[i][n] = rq[i][at(i, n)]
          /\ at(j, o) \in 1 .. Len(rq[j]) /\ q1[j][o] = rq[j][at(j, o)]
      BY <1>3
    <2>3. i = j /\ at(i, n) = at(j, o)
      BY <1>o, <2>1, <2>2, SMTT(30), Z3T(30) DEF OnceIn
    <2>. QED
      BY <1>i, <2>3
  <1>5. Apart(q1, rs) /\ PeerApart(q1, pe)
    <2>1. ASSUME NEW i \in Ports, NEW n \in 1 .. Len(q1[i])
          PROVE  /\ \A j \in Ports : \A o \in 1 .. Len(rs[j]) : q1[i][n].req # rs[j][o].req
                 /\ \A j \in Ports : \A z \in pe[j] : q1[i][n].req # z.req
      <3>1. at(i, n) \in 1 .. Len(rq[i]) /\ q1[i][n] = rq[i][at(i, n)]
        BY <1>3
      <3>. QED
        BY <1>o, <3>1 DEF Apart, PeerApart
    <2>. QED
      BY <2>1 DEF Apart, PeerApart
  <1>6. Once(q1, rs, pe)
    BY <1>4, <1>5, <1>o DEF Once
  <1>7. Fresh(q1, rs, pe, p.req)
    <2>1. \A i \in Ports : \A n \in 1 .. Len(q1[i]) : q1[i][n].req # p.req
      <3>1. SUFFICES ASSUME NEW i \in Ports, NEW n \in 1 .. Len(q1[i])
                     PROVE  q1[i][n].req # p.req
        OBVIOUS
      <3>2. /\ at(i, n) \in 1 .. Len(rq[i]) /\ q1[i][n] = rq[i][at(i, n)]
            /\ i = m => at(i, n) # 1
        BY <1>3
      <3>3. rq[i][at(i, n)].req = rq[m][1].req => i = m /\ at(i, n) = 1
        BY ONLY <1>h, <1>o, <3>2, i \in Ports, m \in Ports DEF OnceIn
      <3>4. p = rq[m][1]
        BY <1>1
      <3>. QED
        BY ONLY <3>2, <3>3, <3>4
    <2>2. \A i \in Ports : \A n \in 1 .. Len(rs[i]) : rs[i][n].req # p.req
      BY ONLY <1>1, <1>h, <1>o, m \in Ports, SMT DEF Apart
    <2>3. \A i \in Ports : \A z \in pe[i] : z.req # p.req
      BY ONLY <1>1, <1>h, <1>o, m \in Ports, SMT DEF PeerApart
    <2>. QED
      BY <2>1, <2>2, <2>3 DEF Fresh
  <1>8. p \in InFl(rq, rs, pe)
    BY <1>1, <1>h, InFlPlaces
  <1>q. q1 \in Queues
    BY <1>1
  <1>9. p \notin InFl(q1, rs, pe)
    BY <1>q, <1>7, InFlPlaces DEF Fresh
  <1>10. ASSUME NEW z, z \in InFl(q1, rs, pe) PROVE z \in InFl(rq, rs, pe)
    <2>1. \A i \in Ports : \A n \in 1 .. Len(q1[i]) :
            \E o \in 1 .. Len(rq[i]) : q1[i][n] = rq[i][o]
      BY ONLY <1>3, SMT
    <2>. QED
      BY <1>q, <1>10, <2>1, InFlPlaces, SMT, Z3T(30)
  <1>11. ASSUME NEW z, z \in InFl(rq, rs, pe), z # p PROVE z \in InFl(q1, rs, pe)
    <2>1. ASSUME NEW i \in Ports, NEW n \in 1 .. Len(rq[i]), ~ (i = m /\ n = 1)
          PROVE  \E o \in 1 .. Len(q1[i]) : rq[i][n] = q1[i][o]
      <3>2. CASE i # m
        BY <1>1, <3>2
      <3>3. CASE i = m
        <4>1. n - 1 \in 1 .. Len(q1[m]) /\ (n - 1) + 1 = n
          BY <1>1, <2>1, <3>3
        <4>2. rq[m][n] = q1[m][n - 1]
          BY <1>1, <4>1
        <4>. QED
          BY <3>3, <4>1, <4>2
      <3>. QED
        BY <3>2, <3>3
    <2>2. \A i \in Ports : \A n \in 1 .. Len(rq[i]) :
            z = rq[i][n] => \E o \in 1 .. Len(q1[i]) : z = q1[i][o]
      BY <1>1, <1>11, <2>1
    <2>. QED
      BY <1>q, <1>11, <2>2, InFlPlaces
  <1>. QED
    BY <1>1, <1>6, <1>7, <1>8, <1>9, <1>10, <1>11 DEF q1, p

\* A peer takes a packet of a fresh request.
LEMMA TakeKeepsOnce ==
  ASSUME NEW rq \in Queues, NEW rs \in Queues, NEW pe \in Peers,
         NEW m \in Ports, NEW p \in Packet,
         Once(rq, rs, pe), Fresh(rq, rs, pe, p.req)
  PROVE  /\ Put(pe, m, p) \in Peers
         /\ Once(rq, rs, Put(pe, m, p))
         /\ InFl(rq, rs, Put(pe, m, p)) = InFl(rq, rs, pe) \cup {p}
         /\ p \notin InFl(rq, rs, pe)
  <1>. DEFINE pe1 == Put(pe, m, p)
  <1>1. /\ pe1 \in Peers
        /\ \A i \in Ports : \A z : z \in pe1[i] <=> z \in pe[i] \/ (i = m /\ z = p)
    BY PeerFacts DEF Peers, Put
  <1>. HIDE DEF pe1
  <1>f. /\ \A i \in Ports : \A n \in 1 .. Len(rq[i]) : rq[i][n].req # p.req
        /\ \A i \in Ports : \A n \in 1 .. Len(rs[i]) : rs[i][n].req # p.req
        /\ \A i \in Ports : \A z \in pe[i] : z.req # p.req
    BY DEF Fresh
  <1>o. /\ OnceIn(rq) /\ Apart(rq, rs) /\ PeerApart(rq, pe)
        /\ OnceIn(rs) /\ PeerOnce(pe) /\ PeerApart(rs, pe)
    BY DEF Once
  <1>2. PeerOnce(pe1) /\ PeerApart(rq, pe1) /\ PeerApart(rs, pe1)
    BY ONLY <1>1, <1>f, <1>o, SMT, SMTT(30) DEF PeerOnce, PeerApart
  <1>3. Once(rq, rs, pe1)
    BY <1>2, <1>o DEF Once
  <1>4. p \notin InFl(rq, rs, pe)
    BY <1>f, InFlPlaces
  <1>5. ASSUME NEW z PROVE z \in InFl(rq, rs, pe1) <=> z \in InFl(rq, rs, pe) \/ z = p
    BY <1>1, InFlPlaces
  <1>. QED
    BY <1>1, <1>3, <1>4, <1>5 DEF pe1

\* A peer lets go of a packet, and its request is fresh.
LEMMA DropKeepsOnce ==
  ASSUME NEW rq \in Queues, NEW rs \in Queues, NEW pe \in Peers,
         NEW m \in Ports, NEW p \in pe[m], Once(rq, rs, pe)
  PROVE  /\ Del(pe, m, p) \in Peers
         /\ Once(rq, rs, Del(pe, m, p))
         /\ Fresh(rq, rs, Del(pe, m, p), p.req)
         /\ InFl(rq, rs, Del(pe, m, p)) = InFl(rq, rs, pe) \ {p}
         /\ p \in InFl(rq, rs, pe)
         /\ p \in Packet
  <1>. DEFINE pe1 == Del(pe, m, p)
  <1>1. /\ p \in Packet
        /\ pe1 \in Peers
        /\ \A i \in Ports : \A z : z \in pe1[i] <=> z \in pe[i] /\ ~ (i = m /\ z = p)
    BY PeerFacts DEF Peers, Del
  <1>. HIDE DEF pe1
  <1>o. /\ OnceIn(rq) /\ Apart(rq, rs) /\ PeerApart(rq, pe)
        /\ OnceIn(rs) /\ PeerOnce(pe) /\ PeerApart(rs, pe)
    BY DEF Once
  <1>2. PeerOnce(pe1) /\ PeerApart(rq, pe1) /\ PeerApart(rs, pe1)
    BY ONLY <1>1, <1>o, SMT DEF PeerOnce, PeerApart
  <1>3. Once(rq, rs, pe1)
    BY <1>2, <1>o DEF Once
  <1>4. Fresh(rq, rs, pe1, p.req)
    BY ONLY <1>1, <1>o, m \in Ports, p \in pe[m], SMT DEF PeerOnce, PeerApart, Fresh
  <1>5. p \in InFl(rq, rs, pe) /\ p \notin InFl(rq, rs, pe1)
    BY <1>1, <1>4, InFlPlaces DEF Fresh
  <1>6. ASSUME NEW z, z # p PROVE z \in InFl(rq, rs, pe1) <=> z \in InFl(rq, rs, pe)
    BY <1>1, <1>6, InFlPlaces
  <1>. QED
    BY <1>1, <1>3, <1>4, <1>5, <1>6 DEF pe1

-----------------------------------------------------------------------------
(***************************************************************************)
(* Reservations when a packet is admitted, answered or moved.              *)
(***************************************************************************)
LEMMA CovAdd ==
  ASSUME NEW F, NEW p \in Packet, p \notin F, NEW out \in [Ports -> Int], Cov(F, out)
  PROVE  Cov(F \cup {p}, Book(out, p))
  <1>0. CardinalityLaws
    BY DEF Cov
  <1>1. p.from \in Ports
    BY DEF Packet
  <1>2. SUFFICES ASSUME NEW s \in Ports
                 PROVE  /\ IsFiniteSet(Of(F \cup {p}, s))
                        /\ Cardinality(Of(F \cup {p}, s)) <= Book(out, p)[s]
    BY <1>0, Zenon DEF Cov
  <1>3. IsFiniteSet(Of(F, s)) /\ Cardinality(Of(F, s)) <= out[s]
    BY DEF Cov
  <1>4. CASE s = p.from /\ p.needsResponse
    <2>1. Of(F \cup {p}, s) = Of(F, s) \cup {p} /\ p \notin Of(F, s)
      BY <1>4, Zenon DEF Of
    <2>2. /\ IsFiniteSet(Of(F, s) \cup {p})
          /\ Cardinality(Of(F, s) \cup {p}) = Cardinality(Of(F, s)) + 1
      BY <1>0, <1>3, <2>1, Zenon DEF CardinalityLaws
    <2>3. Cardinality(Of(F, s)) \in Nat
      BY <1>0, <1>3 DEF CardinalityLaws
    <2>4. Book(out, p)[s] = out[s] + 1 /\ out[s] \in Int
      BY <1>4, Zenon DEF Book, Plus
    <2>. QED
      BY <1>3, <2>1, <2>2, <2>3, <2>4, SMT, Z3T(30)
  <1>5. CASE ~ (s = p.from /\ p.needsResponse)
    <2>1. Of(F \cup {p}, s) = Of(F, s)
      BY <1>5, Zenon DEF Of
    <2>2. Book(out, p)[s] = out[s]
      BY <1>5, Zenon DEF Book, Plus
    <2>. QED
      BY <1>3, <2>1, <2>2
  <1>. QED
    BY <1>4, <1>5

LEMMA CovDel ==
  ASSUME NEW F, NEW p \in Packet, p \in F, NEW out \in [Ports -> Int], Cov(F, out)
  PROVE  /\ Cov(F \ {p}, out)
         /\ p.needsResponse => Cov(F \ {p}, Minus(out, p.from)) /\ out[p.from] >= 1
  <1>0. CardinalityLaws
    BY DEF Cov
  <1>1. p.from \in Ports
    BY DEF Packet
  <1>2. ASSUME NEW s \in Ports
        PROVE  /\ IsFiniteSet(Of(F \ {p}, s))
               /\ Cardinality(Of(F \ {p}, s)) <= out[s]
               /\ p.needsResponse => Cardinality(Of(F \ {p}, s)) <= Minus(out, p.from)[s]
               /\ p.needsResponse /\ s = p.from => out[s] >= 1
    <2>3. IsFiniteSet(Of(F, s)) /\ Cardinality(Of(F, s)) <= out[s]
      BY DEF Cov
    <2>6. Cardinality(Of(F, s)) \in Nat /\ out[s] \in Int
      BY <1>0, <2>3 DEF CardinalityLaws
    <2>4. CASE s = p.from /\ p.needsResponse
      <3>1. Of(F \ {p}, s) = Of(F, s) \ {p} /\ p \in Of(F, s)
        BY <2>4, Zenon DEF Of
      <3>2. /\ IsFiniteSet(Of(F, s) \ {p})
            /\ Cardinality(Of(F, s) \ {p}) = Cardinality(Of(F, s)) - 1
        BY <1>0, <2>3, <3>1, Zenon DEF CardinalityLaws
      <3>3. Cardinality(Of(F, s) \ {p}) \in Nat
        BY <1>0, <3>2 DEF CardinalityLaws
      <3>4. Minus(out, p.from)[s] = out[s] - 1
        BY <2>4, Zenon DEF Minus
      <3>5. \A c \in Nat, d \in Nat, u \in Int :
              d <= u /\ c = d - 1 => c <= u - 1 /\ c <= u /\ u >= 1
        OBVIOUS
      <3>. QED
        BY ONLY <2>3, <2>6, <3>1, <3>2, <3>3, <3>4, <3>5, Zenon
    <2>5. CASE ~ (s = p.from /\ p.needsResponse)
      <3>1. Of(F \ {p}, s) = Of(F, s)
        BY <2>5, Zenon DEF Of
      <3>2. p.needsResponse => Minus(out, p.from)[s] = out[s]
        BY <2>5, Zenon DEF Minus
      <3>. QED
        BY <2>3, <2>5, <3>1, <3>2, Zenon
    <2>. QED
      BY <2>4, <2>5, Zenon
  <1>. QED
    BY <1>0, <1>1, <1>2, Zenon DEF Cov

\* A packet takes the place of another that the same port admitted.
LEMMA CovMove ==
  ASSUME NEW F, NEW p \in Packet, p \in F, NEW q \in Packet, q \notin F \ {p},
         q.from = p.from, p.needsResponse, q.needsResponse,
         NEW out \in [Ports -> Int], Cov(F, out)
  PROVE  Cov((F \ {p}) \cup {q}, out)
  <1>. DEFINE o1 == Minus(out, p.from)
              o2 == Plus(o1, q.from)
  <1>0. p.from \in Ports
    BY DEF Packet
  <1>1. o1 \in [Ports -> Int] /\ o2 = out
    <2>1. o1 \in [Ports -> Int] /\ o2 \in [Ports -> Int]
      BY <1>0 DEF Plus, Minus
    <2>2. \A i \in Ports : o2[i] = out[i]
      BY <1>0 DEF Plus, Minus
    <2>. QED
      BY <2>1, <2>2
  <1>2. Cov(F \ {p}, o1)
    BY CovDel, Zenon
  <1>. HIDE DEF o1
  <1>3. Cov((F \ {p}) \cup {q}, Book(o1, q))
    BY <1>1, <1>2, CovAdd, Zenon
  <1>4. Book(o1, q) = o2
    BY Zenon DEF Book
  <1>. QED
    BY <1>1, <1>3, <1>4, Zenon

-----------------------------------------------------------------------------
(***************************************************************************)
(* The kinds of packets, and the routing table.                            *)
(***************************************************************************)
LEMMA KindsAppendReq ==
  ASSUME NEW rq \in Queues, NEW rs, NEW pe, NEW m \in Ports, NEW p \in Packet,
         Kinds(rq, rs, pe), KReq(m, p)
  PROVE  Kinds(App(rq, m, p), rs, pe)
  <1>. DEFINE q1 == App(rq, m, p)
  <1>1. /\ \A i \in Ports : i # m => q1[i] = rq[i]
        /\ Len(q1[m]) = Len(rq[m]) + 1
        /\ \A n \in 1 .. Len(rq[m]) : q1[m][n] = rq[m][n]
        /\ q1[m][Len(rq[m]) + 1] = p
        /\ Len(rq[m]) \in Nat
    BY AppendFacts DEF Queues
  <1>. HIDE DEF q1
  <1>2. ASSUME NEW i \in Ports PROVE \A n \in 1 .. Len(q1[i]) : KReq(i, q1[i][n])
    <2>1. CASE i # m
      BY <1>1, <2>1 DEF Kinds
    <2>2. CASE i = m
      BY <1>1, <2>2, SMTT(30), Z3T(30) DEF Kinds
    <2>. QED
      BY <2>1, <2>2
  <1>. QED
    BY <1>2 DEF Kinds, q1

LEMMA KindsAppendResp ==
  ASSUME NEW rq, NEW rs \in Queues, NEW pe, NEW m \in Ports, NEW p \in Packet,
         Kinds(rq, rs, pe), KResp(m, p)
  PROVE  Kinds(rq, App(rs, m, p), pe)
  <1>. DEFINE q1 == App(rs, m, p)
  <1>1. /\ \A i \in Ports : i # m => q1[i] = rs[i]
        /\ Len(q1[m]) = Len(rs[m]) + 1
        /\ \A n \in 1 .. Len(rs[m]) : q1[m][n] = rs[m][n]
        /\ q1[m][Len(rs[m]) + 1] = p
        /\ Len(rs[m]) \in Nat
    BY AppendFacts DEF Queues
  <1>. HIDE DEF q1
  <1>2. ASSUME NEW i \in Ports PROVE \A n \in 1 .. Len(q1[i]) : KResp(i, q1[i][n])
    <2>1. CASE i # m
      BY <1>1, <2>1 DEF Kinds
    <2>2. CASE i = m
      BY <1>1, <2>2, SMTT(30), Z3T(30) DEF Kinds
    <2>. QED
      BY <2>1, <2>2
  <1>. QED
    BY <1>2 DEF Kinds, q1

LEMMA KindsPopReq ==
  ASSUME NEW rq \in Queues, NEW rs, NEW pe, NEW m \in Ports, rq[m] # <<>>,
         Kinds(rq, rs, pe)
  PROVE  /\ Kinds(Pop(rq, m), rs, pe)
         /\ KReq(m, Head(rq[m]))
  <1>. DEFINE q1 == Pop(rq, m)
  <1>1. /\ q1 \in Queues
        /\ \A i \in Ports : i # m => q1[i] = rq[i]
        /\ Len(rq[m]) \in Nat \ {0}
        /\ Len(q1[m]) = Len(rq[m]) - 1
        /\ \A n \in 1 .. Len(q1[m]) : q1[m][n] = rq[m][n + 1]
        /\ Head(rq[m]) = rq[m][1]
        /\ Head(rq[m]) \in Packet
    BY TailFacts
  <1>. HIDE DEF q1
  <1>2. ASSUME NEW i \in Ports PROVE \A n \in 1 .. Len(q1[i]) : KReq(i, q1[i][n])
    <2>1. CASE i # m
      BY <1>1, <2>1 DEF Kinds
    <2>2. CASE i = m
      <3>1. \A n \in 1 .. Len(q1[m]) : n + 1 \in 1 .. Len(rq[m])
        BY <1>1
      <3>. QED
        BY <1>1, <2>2, <3>1, Zenon DEF Kinds
    <2>. QED
      BY <2>1, <2>2
  <1>3. 1 \in 1 .. Len(rq[m])
    BY <1>1
  <1>4. Kinds(q1, rs, pe)
    BY <1>2 DEF Kinds
  <1>5. KReq(m, rq[m][1])
    BY <1>3 DEF Kinds
  <1>. QED
    BY <1>1, <1>4, <1>5 DEF q1

LEMMA KindsPopResp ==
  ASSUME NEW rq, NEW rs \in Queues, NEW pe, NEW m \in Ports, rs[m] # <<>>,
         Kinds(rq, rs, pe)
  PROVE  /\ Kinds(rq, Pop(rs, m), pe)
         /\ KResp(m, Head(rs[m]))
  <1>. DEFINE q1 == Pop(rs, m)
  <1>1. /\ q1 \in Queues
        /\ \A i \in Ports : i # m => q1[i] = rs[i]
        /\ Len(rs[m]) \in Nat \ {0}
        /\ Len(q1[m]) = Len(rs[m]) - 1
        /\ \A n \in 1 .. Len(q1[m]) : q1[m][n] = rs[m][n + 1]
        /\ Head(rs[m]) = rs[m][1]
        /\ Head(rs[m]) \in Packet
    BY TailFacts
  <1>. HIDE DEF q1
  <1>2. ASSUME NEW i \in Ports PROVE \A n \in 1 .. Len(q1[i]) : KResp(i, q1[i][n])
    <2>1. CASE i # m
      BY <1>1, <2>1 DEF Kinds
    <2>2. CASE i = m
      <3>1. \A n \in 1 .. Len(q1[m]) : n + 1 \in 1 .. Len(rs[m])
        BY <1>1
      <3>. QED
        BY <1>1, <2>2, <3>1, SMTT(30), Z3T(30) DEF Kinds
    <2>. QED
      BY <2>1, <2>2
  <1>3. 1 \in 1 .. Len(rs[m])
    BY <1>1
  <1>4. Kinds(rq, q1, pe)
    BY <1>2 DEF Kinds
  <1>5. KResp(m, rs[m][1])
    BY <1>3 DEF Kinds
  <1>. QED
    BY <1>1, <1>4, <1>5 DEF q1

LEMMA KindsTake ==
  ASSUME NEW rq, NEW rs, NEW pe \in Peers, NEW m \in Ports, NEW p \in Packet,
         Kinds(rq, rs, pe), KPeer(m, p)
  PROVE  Kinds(rq, rs, Put(pe, m, p))
  BY DEF Kinds, Peers, Put

LEMMA KindsDrop ==
  ASSUME NEW rq, NEW rs, NEW pe \in Peers, NEW m \in Ports, NEW p \in pe[m],
         Kinds(rq, rs, pe)
  PROVE  /\ Kinds(rq, rs, Del(pe, m, p))
         /\ KPeer(m, p)
  BY DEF Kinds, Peers, Del

\* trySendTiming enters the request that the peer takes, and recvTimingResp
\* removes the one that the peer answers.
LEMMA EnterFacts ==
  ASSUME NEW ro \in [Reqs -> Ports \cup {NoPort}], NEW p \in Packet, ro[p.req] = NoPort
  PROVE  /\ Enter(ro, p) \in [Reqs -> Ports \cup {NoPort}]
         /\ \A r \in Reqs : r # p.req => Enter(ro, p)[r] = ro[r]
         /\ Enter(ro, p)[p.req] = Entry(p)
         /\ p.req \in Reqs /\ p.from \in Ports
  <1>1. p.req \in Reqs /\ p.from \in Ports
    BY DEF Packet
  <1>. QED
    BY <1>1, SMTT(30), ZenonT(40) DEF Enter, Entry

LEMMA LeaveFacts ==
  ASSUME NEW ro \in [Reqs -> Ports \cup {NoPort}], NEW p \in Packet
  PROVE  /\ Leave(ro, p) \in [Reqs -> Ports \cup {NoPort}]
         /\ \A r \in Reqs : r # p.req => Leave(ro, p)[r] = ro[r]
         /\ Leave(ro, p)[p.req] = NoPort
  <1>1. p.req \in Reqs
    BY DEF Packet
  <1>. QED
    BY <1>1, SMTT(30), ZenonT(40) DEF Leave

LEMMA RoutesTake ==
  ASSUME NEW pe \in Peers, NEW m \in Ports, NEW p \in Packet,
         NEW ro \in [Reqs -> Ports \cup {NoPort}], ro[p.req] = NoPort,
         \A i \in Ports : \A z \in pe[i] : z.req # p.req,
         Routes(ro, pe)
  PROVE  Routes(Enter(ro, p), Put(pe, m, p))
  <1>. DEFINE ro1 == Enter(ro, p)
              pe1 == Put(pe, m, p)
  <1>1. \A i \in Ports : \A z : z \in pe1[i] <=> z \in pe[i] \/ (i = m /\ z = p)
    BY DEF Peers, Put
  <1>2. /\ \A r \in Reqs : r # p.req => ro1[r] = ro[r]
        /\ ro1[p.req] = Entry(p)
    BY EnterFacts, Zenon
  <1>3. \A i \in Ports : \A z \in pe[i] : z.req \in Reqs
    BY DEF Peers, Packet
  <1>. HIDE DEF ro1, pe1
  <1>4. ASSUME NEW i \in Ports, NEW z \in pe1[i] PROVE ro1[z.req] = Entry(z)
    <2>1. CASE z = p
      BY <1>2, <2>1, Zenon
    <2>2. CASE z # p
      <3>1. z \in pe[i] /\ z.req # p.req /\ z.req \in Reqs
        BY <1>1, <1>3, <1>4, <2>2, Zenon
      <3>. QED
        BY <1>2, <3>1, Zenon DEF Routes
    <2>. QED
      BY <2>1, <2>2, Zenon
  <1>5. ASSUME NEW r \in Reqs, ro1[r] \notin {NoPort, CXLLink}
        PROVE  \E i \in Ports : \E z \in pe1[i] : z.req = r /\ z.type \notin Unrouted
    <2>1. CASE r = p.req
      <3>1. p.type \notin Unrouted
        BY <1>2, <1>5, <2>1, Zenon DEF Entry
      <3>. QED
        BY <1>1, <2>1, <3>1, Zenon
    <2>2. CASE r # p.req
      <3>1. ro[r] \notin {NoPort, CXLLink}
        BY <1>2, <1>5, <2>2, Zenon
      <3>. QED
        BY <1>1, <3>1, Zenon DEF Routes
    <2>. QED
      BY <2>1, <2>2, Zenon
  <1>6. Routes(ro1, pe1)
    BY <1>4, <1>5, Zenon DEF Routes
  <1>. QED
    BY <1>6 DEF ro1, pe1

\* Nobody will answer an eviction, and its entry stays.
LEMMA RoutesEvict ==
  ASSUME NEW pe \in Peers, NEW p \in Packet,
         NEW ro \in [Reqs -> Ports \cup {NoPort}], ro[p.req] = NoPort,
         \A i \in Ports : \A z \in pe[i] : z.req # p.req,
         p.type \in Unrouted \/ p.from = CXLLink,
         Routes(ro, pe)
  PROVE  Routes(Enter(ro, p), pe)
  <1>. DEFINE ro1 == Enter(ro, p)
  <1>2. /\ \A r \in Reqs : r # p.req => ro1[r] = ro[r]
        /\ ro1[p.req] = Entry(p)
    BY EnterFacts, Zenon
  <1>3. \A i \in Ports : \A z \in pe[i] : z.req \in Reqs
    BY DEF Peers, Packet
  <1>. HIDE DEF ro1
  <1>4. ASSUME NEW i \in Ports, NEW z \in pe[i] PROVE ro1[z.req] = Entry(z)
    BY <1>2, <1>3, Zenon DEF Routes
  <1>5. ASSUME NEW r \in Reqs, ro1[r] \notin {NoPort, CXLLink}
        PROVE  ro[r] \notin {NoPort, CXLLink}
    BY <1>2, <1>5, Zenon DEF Entry
  <1>6. Routes(ro1, pe)
    BY <1>4, <1>5, Zenon DEF Routes
  <1>. QED
    BY <1>6 DEF ro1

LEMMA RoutesDrop ==
  ASSUME NEW pe \in Peers, NEW m \in Ports, NEW p \in pe[m], PeerOnce(pe),
         NEW ro \in [Reqs -> Ports \cup {NoPort}], Routes(ro, pe)
  PROVE  /\ ro[p.req] = Entry(p)
         /\ p.type \in Unrouted => Routes(ro, Del(pe, m, p))
         /\ Routes(Leave(ro, p), Del(pe, m, p))
  <1>. DEFINE ro1 == Leave(ro, p)
              pe1 == Del(pe, m, p)
  <1>1. \A i \in Ports : \A z : z \in pe1[i] <=> z \in pe[i] /\ ~ (i = m /\ z = p)
    BY DEF Peers, Del
  <1>p. p \in Packet
    BY DEF Peers
  <1>2. /\ \A i \in Ports : \A z \in pe[i] : z.req \in Reqs
        /\ \A r \in Reqs : r # p.req => ro1[r] = ro[r]
        /\ ro1[p.req] = NoPort
    <2>1. \A i \in Ports : \A z \in pe[i] : z.req \in Reqs
      BY DEF Peers, Packet
    <2>. QED
      BY <1>p, <2>1, LeaveFacts, Zenon
  <1>3. \A i \in Ports : \A z \in pe1[i] : z \in pe[i] /\ z.req # p.req
    BY <1>1, Zenon DEF PeerOnce
  <1>4. ro[p.req] = Entry(p)
    BY Zenon DEF Routes
  <1>. HIDE DEF ro1, pe1
  <1>5. ASSUME p.type \in Unrouted PROVE Routes(ro, pe1)
    <2>1. \A i \in Ports : \A z \in pe1[i] : ro[z.req] = Entry(z)
      BY <1>3, Zenon DEF Routes
    <2>2. ASSUME NEW r \in Reqs, ro[r] \notin {NoPort, CXLLink}
          PROVE  \E i \in Ports : \E z \in pe1[i] : z.req = r /\ z.type \notin Unrouted
      BY <1>1, <1>5, <2>2, Zenon DEF Routes
    <2>. QED
      BY <2>1, <2>2, Zenon DEF Routes
  <1>6. Routes(ro1, pe1)
    <2>1. \A i \in Ports : \A z \in pe1[i] : ro1[z.req] = Entry(z)
      BY <1>2, <1>3, Zenon DEF Routes
    <2>2. ASSUME NEW r \in Reqs, ro1[r] \notin {NoPort, CXLLink}
          PROVE  \E i \in Ports : \E z \in pe1[i] : z.req = r /\ z.type \notin Unrouted
      <3>1. r # p.req /\ ro[r] \notin {NoPort, CXLLink}
        BY <1>2, <2>2, Zenon
      <3>2. PICK i \in Ports : \E z \in pe[i] : z.req = r /\ z.type \notin Unrouted
        BY <3>1, Zenon DEF Routes
      <3>. QED
        BY <1>1, <3>1, <3>2, Zenon
    <2>. QED
      BY <2>1, <2>2, Zenon DEF Routes
  <1>. QED
    BY <1>4, <1>5, <1>6, Zenon DEF ro1, pe1

\* A packet without an entry joins a queue, the head of a queue leaves it, and
\* an entry is made or removed for a request that is in no place of a queue.
LEMMA ClearAppend ==
  ASSUME NEW ro, NEW q \in Queues, NEW m \in Ports, NEW p \in Packet,
         Clear(ro, q), ro[p.req] = NoPort
  PROVE  Clear(ro, App(q, m, p))
  <1>. DEFINE q1 == App(q, m, p)
  <1>1. /\ \A i \in Ports : i # m => q1[i] = q[i]
        /\ Len(q1[m]) = Len(q[m]) + 1
        /\ \A n \in 1 .. Len(q[m]) : q1[m][n] = q[m][n]
        /\ q1[m][Len(q[m]) + 1] = p
        /\ Len(q[m]) \in Nat
    BY AppendFacts DEF Queues
  <1>. HIDE DEF q1
  <1>2. \A n \in 1 .. Len(q1[m]) : n \in 1 .. Len(q[m]) \/ n = Len(q[m]) + 1
    BY <1>1
  <1>3. ASSUME NEW i \in Ports, NEW n \in 1 .. Len(q1[i]) PROVE ro[q1[i][n].req] = NoPort
    <2>1. CASE i # m
      BY <1>1, <2>1, SMTT(30) DEF Clear
    <2>2. CASE i = m
      BY <1>1, <1>2, <2>2, SMTT(30) DEF Clear
    <2>. QED
      BY <2>1, <2>2, Zenon
  <1>. QED
    BY <1>3, Zenon DEF Clear, q1

LEMMA ClearPop ==
  ASSUME NEW ro, NEW q \in Queues, NEW m \in Ports, q[m] # <<>>, Clear(ro, q)
  PROVE  Clear(ro, Pop(q, m)) /\ ro[Head(q[m]).req] = NoPort
  <1>. DEFINE q1 == Pop(q, m)
  <1>1. /\ \A i \in Ports : i # m => q1[i] = q[i]
        /\ Len(q[m]) \in Nat \ {0}
        /\ Len(q1[m]) = Len(q[m]) - 1
        /\ \A n \in 1 .. Len(q1[m]) : q1[m][n] = q[m][n + 1]
        /\ Head(q[m]) = q[m][1]
    BY TailFacts
  <1>. HIDE DEF q1
  <1>2. 1 \in 1 .. Len(q[m]) /\ \A n \in 1 .. Len(q1[m]) : n + 1 \in 1 .. Len(q[m])
    BY <1>1
  <1>3. ASSUME NEW i \in Ports, NEW n \in 1 .. Len(q1[i]) PROVE ro[q1[i][n].req] = NoPort
    <2>1. CASE i # m
      BY <1>1, <2>1, SMTT(30) DEF Clear
    <2>2. CASE i = m
      BY <1>1, <1>2, <2>2, SMTT(30) DEF Clear
    <2>. QED
      BY <2>1, <2>2, Zenon
  <1>4. ro[Head(q[m]).req] = NoPort
    BY <1>1, <1>2, Zenon DEF Clear
  <1>. QED
    BY <1>3, <1>4, Zenon DEF Clear, q1

LEMMA ReqOfPlace ==
  ASSUME NEW q \in Queues, NEW i \in Ports, NEW n \in 1 .. Len(q[i])
  PROVE  q[i][n].req \in Reqs
  <1>1. q[i] \in Seq(Packet)
    BY Zenon DEF Queues
  <1>2. q[i][n] \in Packet
    BY <1>1
  <1>. QED
    BY <1>2, SMT DEF Packet

LEMMA ClearEnter ==
  ASSUME NEW ro \in [Reqs -> Ports \cup {NoPort}], NEW p \in Packet, ro[p.req] = NoPort,
         NEW q \in Queues, Clear(ro, q),
         \A i \in Ports : \A n \in 1 .. Len(q[i]) : q[i][n].req # p.req
  PROVE  Clear(Enter(ro, p), q)
  <1>1. \A r \in Reqs : r # p.req => Enter(ro, p)[r] = ro[r]
    BY EnterFacts, Zenon
  <1>2. ASSUME NEW i \in Ports, NEW n \in 1 .. Len(q[i])
        PROVE  Enter(ro, p)[q[i][n].req] = NoPort
    BY <1>1, ReqOfPlace, Zenon DEF Clear
  <1>. QED
    BY <1>2, Zenon DEF Clear

LEMMA ClearLeave ==
  ASSUME NEW ro \in [Reqs -> Ports \cup {NoPort}], NEW p \in Packet,
         NEW q \in Queues, Clear(ro, q)
  PROVE  Clear(Leave(ro, p), q)
  <1>1. /\ \A r \in Reqs : r # p.req => Leave(ro, p)[r] = ro[r]
        /\ Leave(ro, p)[p.req] = NoPort
    BY LeaveFacts, Zenon
  <1>2. ASSUME NEW i \in Ports, NEW n \in 1 .. Len(q[i])
        PROVE  Leave(ro, p)[q[i][n].req] = NoPort
    BY <1>1, ReqOfPlace, Zenon DEF Clear
  <1>. QED
    BY <1>2, Zenon DEF Clear

-----------------------------------------------------------------------------
(***************************************************************************)
(* The steps of a packet, over the fields of the bridge.                   *)
(***************************************************************************)
Good(rq, rs, pe, ro, out) ==
  /\ rq \in Queues /\ rs \in Queues /\ pe \in Peers
  /\ ro \in [Reqs -> Ports \cup {NoPort}] /\ out \in [Ports -> Int]
  /\ Once(rq, rs, pe) /\ Kinds(rq, rs, pe) /\ Routes(ro, pe)
  /\ Clear(ro, rq) /\ Clear(ro, rs)
  /\ Cov(InFl(rq, rs, pe), out)

\* A request is admitted.
LEMMA GoodAdmit ==
  ASSUME NEW rq, NEW rs, NEW pe, NEW ro, NEW out, Good(rq, rs, pe, ro, out),
         NEW m \in Ports, NEW p \in Packet, Fresh(rq, rs, pe, p.req),
         ro[p.req] = NoPort, KReq(m, p)
  PROVE  Good(App(rq, m, p), rs, pe, ro, Book(out, p))
  <1>. DEFINE q1 == App(rq, m, p)
              o1 == Book(out, p)
  <1>1. /\ rq \in Queues /\ rs \in Queues /\ pe \in Peers
        /\ ro \in [Reqs -> Ports \cup {NoPort}] /\ out \in [Ports -> Int]
        /\ Once(rq, rs, pe) /\ Kinds(rq, rs, pe) /\ Routes(ro, pe)
        /\ Clear(ro, rq) /\ Clear(ro, rs) /\ Cov(InFl(rq, rs, pe), out)
    BY DEF Good
  <1>2. /\ q1 \in Queues /\ Once(q1, rs, pe)
        /\ InFl(q1, rs, pe) = InFl(rq, rs, pe) \cup {p}
        /\ p \notin InFl(rq, rs, pe)
    BY <1>1, AddKeepsOnce
  <1>3. Kinds(q1, rs, pe)
    BY <1>1, KindsAppendReq
  <1>4. o1 \in [Ports -> Int]
    <2>1. Plus(out, p.from) \in [Ports -> Int]
      BY <1>1 DEF Packet, Plus
    <2>. QED
      BY <1>1, <2>1, Zenon DEF Book
  <1>c. Clear(ro, q1)
    BY <1>1, ClearAppend, Zenon
  <1>5. Cov(InFl(rq, rs, pe) \cup {p}, o1)
    BY <1>1, <1>2, CovAdd
  <1>. HIDE DEF q1, o1
  <1>6. Good(q1, rs, pe, ro, o1)
    BY <1>1, <1>2, <1>3, <1>4, <1>5, <1>c, Zenon DEF Good
  <1>. QED
    BY <1>6 DEF q1, o1

\* A request leaves its queue and ends.
LEMMA GoodEnd ==
  ASSUME NEW rq, NEW rs, NEW pe, NEW ro, NEW out, Good(rq, rs, pe, ro, out),
         NEW m \in Ports, rq[m] # <<>>
  PROVE  /\ Good(Pop(rq, m), rs, pe, ro, out)
         /\ Head(rq[m]) \in Packet
         /\ KReq(m, Head(rq[m])) /\ ro[Head(rq[m]).req] = NoPort
         /\ Fresh(Pop(rq, m), rs, pe, Head(rq[m]).req)
         /\ Head(rq[m]) \in InFl(rq, rs, pe)
         /\ InFl(Pop(rq, m), rs, pe) = InFl(rq, rs, pe) \ {Head(rq[m])}
  <1>. DEFINE q1 == Pop(rq, m)
              p == Head(rq[m])
  <1>1. /\ rq \in Queues /\ rs \in Queues /\ pe \in Peers
        /\ ro \in [Reqs -> Ports \cup {NoPort}] /\ out \in [Ports -> Int]
        /\ Once(rq, rs, pe) /\ Kinds(rq, rs, pe) /\ Routes(ro, pe)
        /\ Clear(ro, rq) /\ Clear(ro, rs) /\ Cov(InFl(rq, rs, pe), out)
    BY Zenon DEF Good
  <1>2. /\ q1 \in Queues /\ Once(q1, rs, pe) /\ Fresh(q1, rs, pe, p.req)
        /\ InFl(q1, rs, pe) = InFl(rq, rs, pe) \ {p}
        /\ p \in InFl(rq, rs, pe) /\ p \in Packet
    BY <1>1, PopKeepsOnce, SMTT(30)
  <1>3. Kinds(q1, rs, pe) /\ KReq(m, p)
    BY <1>1, KindsPopReq, Zenon
  <1>c. Clear(ro, q1) /\ ro[p.req] = NoPort
    BY <1>1, ClearPop, Zenon
  <1>. HIDE DEF q1, p
  <1>4. Cov(InFl(rq, rs, pe) \ {p}, out)
    BY <1>1, <1>2, CovDel
  <1>5. Good(q1, rs, pe, ro, out)
    BY <1>1, <1>2, <1>3, <1>4, <1>c, Zenon DEF Good
  <1>. QED
    BY <1>2, <1>3, <1>5, <1>c, Zenon DEF q1, p

\* An eviction leaves its queue, and its entry stays.
LEMMA GoodEvict ==
  ASSUME NEW rq, NEW rs, NEW pe, NEW ro, NEW out, Good(rq, rs, pe, ro, out),
         NEW m \in Ports, rq[m] # <<>>, ~ Head(rq[m]).needsResponse
  PROVE  Good(Pop(rq, m), rs, pe, Enter(ro, Head(rq[m])), out)
  <1>. DEFINE q1 == Pop(rq, m)
              p == Head(rq[m])
              ro1 == Enter(ro, p)
  <1>1. /\ Good(q1, rs, pe, ro, out) /\ p \in Packet /\ KReq(m, p)
        /\ ro[p.req] = NoPort /\ Fresh(q1, rs, pe, p.req)
    BY GoodEnd, SMTT(30)
  <1>2. p.type \in Unrouted \/ p.from = CXLLink
    BY <1>1, Zenon DEF KReq
  <1>. HIDE DEF q1, p
  <1>3. /\ q1 \in Queues /\ rs \in Queues /\ pe \in Peers
        /\ ro \in [Reqs -> Ports \cup {NoPort}] /\ out \in [Ports -> Int]
        /\ Once(q1, rs, pe) /\ Kinds(q1, rs, pe) /\ Routes(ro, pe)
        /\ Clear(ro, q1) /\ Clear(ro, rs) /\ Cov(InFl(q1, rs, pe), out)
    BY <1>1, Zenon DEF Good
  <1>4. /\ \A i \in Ports : \A n \in 1 .. Len(q1[i]) : q1[i][n].req # p.req
        /\ \A i \in Ports : \A n \in 1 .. Len(rs[i]) : rs[i][n].req # p.req
        /\ \A i \in Ports : \A z \in pe[i] : z.req # p.req
    BY <1>1, Zenon DEF Fresh
  <1>5. ro1 \in [Reqs -> Ports \cup {NoPort}]
    BY <1>1, <1>3, EnterFacts, Zenon
  <1>6. Routes(ro1, pe)
    BY <1>1, <1>2, <1>3, <1>4, RoutesEvict, Zenon
  <1>7. Clear(ro1, q1) /\ Clear(ro1, rs)
    BY <1>1, <1>3, <1>4, ClearEnter, Zenon
  <1>. HIDE DEF ro1
  <1>8. Good(q1, rs, pe, ro1, out)
    BY <1>3, <1>5, <1>6, <1>7, Zenon DEF Good
  <1>. QED
    BY <1>8 DEF q1, p, ro1

\* A request moves from its queue to the peer.
LEMMA GoodTake ==
  ASSUME NEW rq, NEW rs, NEW pe, NEW ro, NEW out, Good(rq, rs, pe, ro, out),
         NEW m \in Ports, rq[m] # <<>>, Head(rq[m]).type # "CXLcacheH2DResp",
         Head(rq[m]).needsResponse
  PROVE  Good(Pop(rq, m), rs, Put(pe, m, Head(rq[m])),
              Enter(ro, Head(rq[m])), out)
  <1>. DEFINE q1 == Pop(rq, m)
              p == Head(rq[m])
              pe1 == Put(pe, m, p)
              ro1 == Enter(ro, p)
  <1>0. /\ rq \in Queues /\ rs \in Queues /\ pe \in Peers
        /\ ro \in [Reqs -> Ports \cup {NoPort}] /\ out \in [Ports -> Int]
        /\ Routes(ro, pe) /\ Cov(InFl(rq, rs, pe), out)
    BY Zenon DEF Good
  <1>1. /\ Good(q1, rs, pe, ro, out) /\ p \in Packet /\ KReq(m, p)
        /\ Fresh(q1, rs, pe, p.req) /\ ro[p.req] = NoPort
        /\ p \in InFl(rq, rs, pe) /\ InFl(q1, rs, pe) = InFl(rq, rs, pe) \ {p}
    BY GoodEnd, SMTT(30)
  <1>2. /\ q1 \in Queues /\ Once(q1, rs, pe) /\ Kinds(q1, rs, pe)
        /\ Clear(ro, q1) /\ Clear(ro, rs)
    BY <1>1, Zenon DEF Good
  <1>3. KPeer(m, p) /\ p.needsResponse
    BY <1>1, Zenon DEF KPeer
  <1>4. /\ \A i \in Ports : \A n \in 1 .. Len(q1[i]) : q1[i][n].req # p.req
        /\ \A i \in Ports : \A n \in 1 .. Len(rs[i]) : rs[i][n].req # p.req
        /\ \A i \in Ports : \A z \in pe[i] : z.req # p.req
    BY <1>1, ZenonT(40) DEF Fresh
  <1>. HIDE DEF q1, p
  <1>5. /\ pe1 \in Peers /\ Once(q1, rs, pe1)
        /\ InFl(q1, rs, pe1) = InFl(q1, rs, pe) \cup {p}
        /\ p \notin InFl(q1, rs, pe)
    BY <1>0, <1>1, <1>2, TakeKeepsOnce, SMTT(30)
  <1>6. Kinds(q1, rs, pe1)
    BY <1>0, <1>1, <1>2, <1>3, KindsTake, Zenon
  <1>7. ro1 \in [Reqs -> Ports \cup {NoPort}] /\ Routes(ro1, pe1)
    BY <1>0, <1>1, <1>4, RoutesTake, EnterFacts, Zenon
  <1>8. Cov((InFl(rq, rs, pe) \ {p}) \cup {p}, out)
    BY <1>0, <1>1, <1>3, CovMove, Zenon
  <1>c. Clear(ro1, q1) /\ Clear(ro1, rs)
    BY <1>0, <1>1, <1>2, <1>4, ClearEnter, Zenon
  <1>. HIDE DEF pe1, ro1
  <1>9. Good(q1, rs, pe1, ro1, out)
    BY <1>0, <1>1, <1>2, <1>5, <1>6, <1>7, <1>8, <1>c, Zenon DEF Good
  <1>. QED
    BY <1>9 DEF q1, p, pe1, ro1

\* A peer ends a request that is not in the routing table.
LEMMA GoodBack ==
  ASSUME NEW rq, NEW rs, NEW pe, NEW ro, NEW out, Good(rq, rs, pe, ro, out),
         NEW m \in Ports, NEW p \in pe[m], p.type \in Unrouted
  PROVE  /\ Good(rq, rs, Del(pe, m, p), ro, out)
         /\ Fresh(rq, rs, Del(pe, m, p), p.req)
         /\ p \in Packet /\ KPeer(m, p) /\ ro[p.req] = NoPort
  <1>. DEFINE pe1 == Del(pe, m, p)
  <1>1. /\ rq \in Queues /\ rs \in Queues /\ pe \in Peers
        /\ ro \in [Reqs -> Ports \cup {NoPort}] /\ out \in [Ports -> Int]
        /\ Once(rq, rs, pe) /\ Kinds(rq, rs, pe) /\ Routes(ro, pe)
        /\ Clear(ro, rq) /\ Clear(ro, rs) /\ Cov(InFl(rq, rs, pe), out)
    BY Zenon DEF Good
  <1>2. /\ pe1 \in Peers /\ Once(rq, rs, pe1) /\ Fresh(rq, rs, pe1, p.req)
        /\ InFl(rq, rs, pe1) = InFl(rq, rs, pe) \ {p}
        /\ p \in InFl(rq, rs, pe) /\ p \in Packet
    BY <1>1, DropKeepsOnce, SMTT(30)
  <1>3. Kinds(rq, rs, pe1) /\ KPeer(m, p)
    BY <1>1, KindsDrop, SMTT(30)
  <1>4. PeerOnce(pe)
    BY <1>1, Zenon DEF Once
  <1>5. Routes(ro, pe1) /\ ro[p.req] = NoPort
    BY <1>1, <1>4, RoutesDrop, Zenon DEF Entry
  <1>. HIDE DEF pe1
  <1>6. Cov(InFl(rq, rs, pe) \ {p}, out)
    BY <1>1, <1>2, CovDel, Zenon
  <1>7. Good(rq, rs, pe1, ro, out)
    BY <1>1, <1>2, <1>3, <1>5, <1>6, Zenon DEF Good
  <1>. QED
    BY <1>2, <1>3, <1>5, <1>7, Zenon DEF pe1

\* A peer answers request p with q, which enters the response queue of the port
\* that admitted p.
LEMMA GoodAnswer ==
  ASSUME NEW rq, NEW rs, NEW pe, NEW ro, NEW out, Good(rq, rs, pe, ro, out),
         NEW m \in Ports, NEW p \in pe[m],
         NEW q \in Packet, q.req = p.req, q.from = p.from,
         q.needsResponse = p.needsResponse
  PROVE  IF p.type \in Unrouted
         THEN Good(rq, App(rs, p.from, q), Del(pe, m, p), ro, out)
         ELSE /\ ro[p.req] = p.from
              /\ Good(rq, App(rs, p.from, q), Del(pe, m, p), Leave(ro, p), out)
  <1>. DEFINE pe1 == Del(pe, m, p)
              s == p.from
              rs1 == App(rs, s, q)
              ro1 == Leave(ro, p)
  <1>1. /\ rq \in Queues /\ rs \in Queues /\ pe \in Peers
        /\ ro \in [Reqs -> Ports \cup {NoPort}] /\ out \in [Ports -> Int]
        /\ Once(rq, rs, pe) /\ Kinds(rq, rs, pe) /\ Routes(ro, pe)
        /\ Clear(ro, rq) /\ Clear(ro, rs) /\ Cov(InFl(rq, rs, pe), out)
    BY ZenonT(40) DEF Good
  <1>2. /\ pe1 \in Peers /\ Once(rq, rs, pe1) /\ Fresh(rq, rs, pe1, p.req)
        /\ InFl(rq, rs, pe1) = InFl(rq, rs, pe) \ {p}
        /\ p \in InFl(rq, rs, pe) /\ p \in Packet
    BY <1>1, DropKeepsOnce, SMTT(30)
  <1>3. Kinds(rq, rs, pe1) /\ p.needsResponse /\ KResp(s, q)
    BY <1>1, KindsDrop, Zenon DEF KPeer, KResp
  <1>4. PeerOnce(pe)
    BY <1>1, ZenonT(40) DEF Once
  <1>5. /\ ro[p.req] = Entry(p) /\ Routes(ro1, pe1)
        /\ p.type \in Unrouted => Routes(ro, pe1)
    BY <1>1, <1>4, RoutesDrop, SMTT(30)
  <1>s. s \in Ports /\ p.req \in Reqs
    BY <1>2, SMTT(30), Z3T(30) DEF Packet
  <1>6. ro1 \in [Reqs -> Ports \cup {NoPort}] /\ ro1[p.req] = NoPort
    BY <1>1, <1>2, LeaveFacts, Zenon
  <1>c. Clear(ro1, rq) /\ Clear(ro1, rs)
    BY <1>1, <1>2, ClearLeave, Zenon
  <1>. HIDE DEF pe1, s, rs1, ro1
  <1>7. Once(rs, rq, pe1) /\ Fresh(rs, rq, pe1, q.req)
    BY <1>2, OnceSym, FreshSym, ZenonT(40)
  <1>8. /\ rs1 \in Queues /\ Once(rs1, rq, pe1)
        /\ InFl(rs1, rq, pe1) = InFl(rs, rq, pe1) \cup {q}
        /\ q \notin InFl(rs, rq, pe1)
    BY <1>1, <1>2, <1>7, <1>s, AddKeepsOnce, SMTT(30), Z3T(30) DEF rs1
  <1>9. /\ Once(rq, rs1, pe1)
        /\ InFl(rq, rs1, pe1) = (InFl(rq, rs, pe) \ {p}) \cup {q}
        /\ q \notin InFl(rq, rs, pe) \ {p}
    BY <1>2, <1>8, OnceSym, SMTT(30)
  <1>10. Kinds(rq, rs1, pe1)
    BY <1>1, <1>3, <1>s, KindsAppendResp, Zenon DEF rs1
  <1>11. Cov((InFl(rq, rs, pe) \ {p}) \cup {q}, out)
    BY <1>1, <1>2, <1>3, <1>9, CovMove, Zenon
  <1>12. ASSUME NEW r \in [Reqs -> Ports \cup {NoPort}], Routes(r, pe1),
                Clear(r, rq), Clear(r, rs), r[q.req] = NoPort
         PROVE  Good(rq, rs1, pe1, r, out)
    <2>1. Clear(r, rs1)
      BY <1>1, <1>12, <1>s, ClearAppend, Zenon DEF rs1
    <2>. QED
      BY <1>1, <1>2, <1>8, <1>9, <1>10, <1>11, <1>12, <2>1, ZenonT(40) DEF Good
  <1>13. IF p.type \in Unrouted THEN Good(rq, rs1, pe1, ro, out)
         ELSE ro[p.req] = p.from /\ Good(rq, rs1, pe1, ro1, out)
    <2>1. CASE p.type \in Unrouted
      BY <1>1, <1>5, <1>12, <2>1, Zenon DEF Entry
    <2>2. CASE p.type \notin Unrouted
      BY <1>5, <1>6, <1>12, <1>c, <2>2, Zenon DEF Entry
    <2>. QED
      BY <2>1, <2>2, Zenon
  <1>. QED
    BY <1>13, SMTT(30) DEF pe1, s, rs1, ro1

\* A slave port sends the head of its response queue.
LEMMA GoodDone ==
  ASSUME NEW rq, NEW rs, NEW pe, NEW ro, NEW out, Good(rq, rs, pe, ro, out),
         NEW m \in Ports, rs[m] # <<>>
  PROVE  Good(rq, Pop(rs, m), pe, ro, Minus(out, m)) /\ out[m] >= 1
  <1>. DEFINE rs1 == Pop(rs, m)
              p == Head(rs[m])
              o1 == Minus(out, m)
  <1>1. /\ rq \in Queues /\ rs \in Queues /\ pe \in Peers
        /\ ro \in [Reqs -> Ports \cup {NoPort}] /\ out \in [Ports -> Int]
        /\ Once(rq, rs, pe) /\ Kinds(rq, rs, pe) /\ Routes(ro, pe)
        /\ Clear(ro, rq) /\ Clear(ro, rs) /\ Cov(InFl(rq, rs, pe), out)
    BY SMTT(30) DEF Good
  <1>2. Once(rs, rq, pe) /\ InFl(rs, rq, pe) = InFl(rq, rs, pe)
    BY <1>1, OnceSym, ZenonT(40)
  <1>3. /\ rs1 \in Queues /\ Once(rs1, rq, pe)
        /\ InFl(rs1, rq, pe) = InFl(rs, rq, pe) \ {p}
        /\ p \in InFl(rs, rq, pe) /\ p \in Packet
    BY <1>1, <1>2, PopKeepsOnce
  <1>p. Kinds(rq, Pop(rs, m), pe) /\ KResp(m, Head(rs[m]))
    BY <1>1, KindsPopResp, Zenon
  <1>4. Kinds(rq, rs1, pe) /\ p.from = m /\ p.needsResponse
    BY ONLY <1>p, Zenon DEF KResp
  <1>c. Clear(ro, rs1)
    BY <1>1, ClearPop, Zenon
  <1>5. o1 \in [Ports -> Int]
    BY <1>1 DEF Minus
  <1>. HIDE DEF rs1, p
  <1>6. Cov(InFl(rq, rs, pe) \ {p}, o1) /\ out[m] >= 1
    BY <1>1, <1>2, <1>3, <1>4, CovDel, ZenonT(40)
  <1>7. Once(rq, rs1, pe) /\ InFl(rq, rs1, pe) = InFl(rq, rs, pe) \ {p}
    BY <1>2, <1>3, OnceSym, SMTT(30), Z3T(30)
  <1>. HIDE DEF o1
  <1>8. Good(rq, rs1, pe, ro, o1)
    BY <1>1, <1>3, <1>4, <1>5, <1>6, <1>7, <1>c, Zenon DEF Good
  <1>. QED
    BY <1>6, <1>8, SMTT(30) DEF rs1, o1

-----------------------------------------------------------------------------
(***************************************************************************)
(* The functions of the bridge: the fields they change, and the type        *)
(* invariant.                                                              *)
(***************************************************************************)
BridgeOK(k) ==
  /\ k \in Bridge
  /\ \A i \in Ports :
       /\ Len(k.reqList[i]) <= reqQueueLimit
       /\ k.reqSend[i] = "idle" <=> k.reqList[i] = <<>>
       /\ k.respSend[i] = "idle" <=> k.respList[i] = <<>>

LEMMA ReserveOK ==
  ASSUME NEW k, BridgeOK(k), NEW s \in Ports, NEW p,
         p.needsResponse => ~ respQueueFull(k, s)
  PROVE  LET k1 == reserve(k, s, p)
         IN  /\ BridgeOK(k1)
             /\ k1.reqList = k.reqList /\ k1.respList = k.respList
             /\ k1.routeTo = k.routeTo /\ k1.retryReq = k.retryReq
             /\ k1.outstandingResponses =
                  IF p.needsResponse THEN Plus(k.outstandingResponses, s)
                  ELSE k.outstandingResponses
  <1>. DEFINE k1 == [k EXCEPT !.outstandingResponses[s] = @ + 1]
  <1>1. k \in Bridge
    BY DEF BridgeOK
  <1>2. CASE p.needsResponse
    <2>1. k.outstandingResponses[s] + 1 \in 0 .. respQueueLimit
      <3>1. ~ respQueueFull(k, s)
        BY <1>2, Zenon
      <3>. QED
        BY <1>1, <3>1, LimitAssumption DEF respQueueFull, Bridge
    <2>2. /\ k1.reqList = k.reqList /\ k1.respList = k.respList
          /\ k1.routeTo = k.routeTo /\ k1.retryReq = k.retryReq
          /\ k1.reqSend = k.reqSend /\ k1.respSend = k.respSend
          /\ k1.outstandingResponses = Plus(k.outstandingResponses, s)
      BY <1>1 DEF Bridge, Plus
    <2>3. k1 \in Bridge
      BY <1>1, <2>1, ZenonT(40) DEF Bridge
    <2>4. reserve(k, s, p) = k1
      BY <1>2, Zenon DEF reserve
    <2>. HIDE DEF k1
    <2>5. BridgeOK(k1)
      BY <2>2, <2>3 DEF BridgeOK
    <2>. QED
      BY <1>2, <2>2, <2>4, <2>5, Zenon
  <1>3. CASE ~ p.needsResponse
    <2>1. reserve(k, s, p) = k
      BY <1>3, Zenon DEF reserve
    <2>. QED
      BY <1>3, <2>1, Zenon
  <1>. QED
    BY <1>2, <1>3, Zenon

LEMMA SchedReqOK ==
  ASSUME NEW k, BridgeOK(k), NEW m \in Ports, NEW p \in Packet, ~ reqQueueFull(k, m)
  PROVE  LET k1 == schedTimingReq(k, m, p)
         IN  /\ BridgeOK(k1)
             /\ k1.reqList = App(k.reqList, m, p) /\ k1.respList = k.respList
             /\ k1.routeTo = k.routeTo
             /\ k1.outstandingResponses = k.outstandingResponses
  <1>. DEFINE k1 == schedTimingReq(k, m, p)
  <1>1. k \in Bridge
    BY DEF BridgeOK
  <1>2. /\ k.reqList \in [Ports -> Seq(Packet)] /\ k.reqSend \in [Ports -> SendState]
        /\ Len(k.reqList[m]) + 1 <= reqQueueLimit
    BY <1>1, LimitAssumption DEF reqQueueFull, Bridge, BridgeOK
  <1>3. /\ k1.reqList = App(k.reqList, m, p) /\ k1.respList = k.respList
        /\ k1.routeTo = k.routeTo
        /\ k1.outstandingResponses = k.outstandingResponses
        /\ k1.respSend = k.respSend
        /\ k1.reqSend = [k.reqSend EXCEPT ![m] = IF k.reqList[m] = <<>>
                                                THEN "scheduled" ELSE @]
    BY <1>1, Zenon DEF Bridge, schedTimingReq, App
  <1>4. k1.reqList \in [Ports -> Seq(Packet)] /\ k1.reqSend \in [Ports -> SendState]
    BY <1>2, <1>3 DEF App, SendState
  <1>5. k1 \in Bridge
    BY <1>1, <1>4, Zenon DEF Bridge, schedTimingReq
  <1>6. ASSUME NEW i \in Ports
        PROVE  /\ Len(k1.reqList[i]) <= reqQueueLimit
               /\ k1.reqSend[i] = "idle" <=> k1.reqList[i] = <<>>
    <2>1. CASE i = m
      <3>1. k1.reqList[m] = Append(k.reqList[m], p)
        BY <1>2, <1>3 DEF App
      <3>2. k1.reqList[m] # <<>> /\ Len(k1.reqList[m]) = Len(k.reqList[m]) + 1
        <4>1. k.reqList[m] \in Seq(Packet)
          BY <1>2, Zenon
        <4>. QED
          BY <3>1, <4>1, AppendNotEmpty
      <3>3. k1.reqSend[m] # "idle"
        BY <1>2, <1>3, Zenon DEF BridgeOK
      <3>. QED
        BY <1>2, <2>1, <3>2, <3>3, Zenon
    <2>2. CASE i # m
      BY <1>2, <1>3, <2>2, SMTT(30) DEF App, BridgeOK
    <2>. QED
      BY <2>1, <2>2, Zenon
  <1>. HIDE DEF k1
  <1>7. BridgeOK(k1)
    BY <1>3, <1>5, <1>6, SMTT(30) DEF BridgeOK
  <1>. QED
    BY <1>3, <1>7 DEF k1

LEMMA SchedRespOK ==
  ASSUME NEW k, BridgeOK(k), NEW m \in Ports, NEW p \in Packet
  PROVE  LET k1 == schedTimingResp(k, m, p)
         IN  /\ BridgeOK(k1)
             /\ k1.reqList = k.reqList /\ k1.respList = App(k.respList, m, p)
             /\ k1.routeTo = k.routeTo
             /\ k1.outstandingResponses = k.outstandingResponses
  <1>. DEFINE k1 == schedTimingResp(k, m, p)
  <1>1. k \in Bridge
    BY DEF BridgeOK
  <1>2. k.respList \in [Ports -> Seq(Packet)] /\ k.respSend \in [Ports -> SendState]
    BY <1>1 DEF Bridge
  <1>3. /\ k1.respList = App(k.respList, m, p) /\ k1.reqList = k.reqList
        /\ k1.routeTo = k.routeTo
        /\ k1.outstandingResponses = k.outstandingResponses
        /\ k1.reqSend = k.reqSend
        /\ k1.respSend = [k.respSend EXCEPT ![m] = IF k.respList[m] = <<>>
                                                  THEN "scheduled" ELSE @]
    BY <1>1, SMTT(30) DEF Bridge, schedTimingResp, App
  <1>4. k1.respList \in [Ports -> Seq(Packet)] /\ k1.respSend \in [Ports -> SendState]
    BY <1>2, <1>3 DEF App, SendState
  <1>5. k1 \in Bridge
    BY <1>1, <1>4, Zenon DEF Bridge, schedTimingResp
  <1>6. ASSUME NEW i \in Ports
        PROVE  k1.respSend[i] = "idle" <=> k1.respList[i] = <<>>
    <2>1. CASE i = m
      <3>1. k1.respList[m] = Append(k.respList[m], p)
        BY <1>2, <1>3 DEF App
      <3>2. k1.respList[m] # <<>>
        <4>1. k.respList[m] \in Seq(Packet)
          BY <1>2, SMTT(30)
        <4>. QED
          BY <3>1, <4>1, AppendNotEmpty
      <3>3. k1.respSend[m] # "idle"
        BY <1>2, <1>3, Zenon DEF BridgeOK
      <3>. QED
        BY <2>1, <3>2, <3>3, Zenon
    <2>2. CASE i # m
      BY <1>2, <1>3, <2>2, SMTT(30) DEF App, BridgeOK
    <2>. QED
      BY <2>1, <2>2, SMTT(30)
  <1>. HIDE DEF k1
  <1>7. BridgeOK(k1)
    BY <1>3, <1>5, <1>6, SMTT(30), Z3T(30) DEF BridgeOK
  <1>. QED
    BY <1>3, <1>7 DEF k1

LEMMA SentReqOK ==
  ASSUME NEW k, BridgeOK(k), NEW m \in Ports, k.reqList[m] # <<>>
  PROVE  LET k1 == sentReq(k, m)
         IN  /\ BridgeOK(k1)
             /\ k1.reqList = Pop(k.reqList, m) /\ k1.respList = k.respList
             /\ k1.routeTo = Enter(k.routeTo, Head(k.reqList[m]))
             /\ k1.outstandingResponses = k.outstandingResponses
  <1>. DEFINE k1 == sentReq(k, m)
              p == Head(k.reqList[m])
              rest == Tail(k.reqList[m])
  <1>1. k \in Bridge
    BY DEF BridgeOK
  <1>2. /\ k.reqList \in [Ports -> Seq(Packet)] /\ k.reqSend \in [Ports -> SendState]
        /\ k.routeTo \in [Reqs -> Ports \cup {NoPort}]
    BY <1>1 DEF Bridge
  <1>3. /\ p \in Packet /\ rest \in Seq(Packet) /\ Len(rest) = Len(k.reqList[m]) - 1
        /\ Len(k.reqList[m]) \in Nat
    BY <1>2
  <1>r. p.req \in Reqs /\ p.from \in Ports
    BY <1>3 DEF Packet
  <1>. HIDE DEF p, rest
  <1>4. /\ k1.reqList = [k.reqList EXCEPT ![m] = rest] /\ k1.respList = k.respList
        /\ k1.routeTo = Enter(k.routeTo, p)
        /\ k1.outstandingResponses = k.outstandingResponses
        /\ k1.respSend = k.respSend
        /\ k1.reqSend = [k.reqSend EXCEPT ![m] = IF rest = <<>> THEN "idle" ELSE "scheduled"]
        /\ k1.retryReq = [i \in Ports |-> FALSE]
    BY <1>1, Zenon DEF Bridge, sentReq, retryStalledReq, Enter, p, rest
  <1>5. /\ k1.reqList \in [Ports -> Seq(Packet)] /\ k1.reqSend \in [Ports -> SendState]
        /\ k1.routeTo \in [Reqs -> Ports \cup {NoPort}]
        /\ k1.retryReq \in [Ports -> BOOLEAN]
    BY <1>2, <1>3, <1>4, <1>r DEF SendState, Enter
  <1>6. k1 \in Bridge
    BY <1>1, <1>5, ZenonT(40) DEF Bridge, sentReq, retryStalledReq
  <1>7. ASSUME NEW i \in Ports
        PROVE  /\ Len(k1.reqList[i]) <= reqQueueLimit
               /\ k1.reqSend[i] = "idle" <=> k1.reqList[i] = <<>>
    <2>1. CASE i = m
      <3>1. k1.reqList[m] = rest
        BY <1>2, <1>4, SMTT(30), Z3T(30)
      <3>2. k1.reqSend[m] = IF rest = <<>> THEN "idle" ELSE "scheduled"
        BY <1>2, <1>4
      <3>3. Len(k.reqList[m]) <= reqQueueLimit
        BY Zenon DEF BridgeOK
      <3>. QED
        BY <1>3, <2>1, <3>1, <3>2, <3>3, LimitAssumption, SMTT(30), Z3T(30)
    <2>2. CASE i # m
      BY <1>2, <1>4, <2>2 DEF BridgeOK
    <2>. QED
      BY <2>1, <2>2, Zenon
  <1>8. [k.reqList EXCEPT ![m] = rest] = Pop(k.reqList, m)
    BY DEF Pop, rest
  <1>. HIDE DEF k1
  <1>9. BridgeOK(k1)
    BY <1>4, <1>6, <1>7, SMTT(30), Z3T(30) DEF BridgeOK
  <1>. QED
    BY <1>4, <1>8, <1>9 DEF k1, p

LEMMA SentRespOK ==
  ASSUME NEW k, BridgeOK(k), NEW s \in Ports, k.respList[s] # <<>>,
         k.outstandingResponses[s] >= 1
  PROVE  LET k1 == sentResp(k, s)
         IN  /\ BridgeOK(k1)
             /\ k1.reqList = k.reqList /\ k1.respList = Pop(k.respList, s)
             /\ k1.routeTo = k.routeTo
             /\ k1.outstandingResponses = Minus(k.outstandingResponses, s)
  <1>. DEFINE k1 == sentResp(k, s)
              rest == Tail(k.respList[s])
  <1>1. k \in Bridge
    BY DEF BridgeOK
  <1>2. /\ k.respList \in [Ports -> Seq(Packet)] /\ k.respSend \in [Ports -> SendState]
        /\ k.outstandingResponses \in [Ports -> 0 .. respQueueLimit]
        /\ k.retryReq \in [Ports -> BOOLEAN]
    BY <1>1 DEF Bridge
  <1>3. rest \in Seq(Packet)
    BY <1>2
  <1>n. k.outstandingResponses[s] - 1 \in 0 .. respQueueLimit
    BY <1>2, LimitAssumption
  <1>. HIDE DEF rest
  <1>4. /\ k1.respList = [k.respList EXCEPT ![s] = rest] /\ k1.reqList = k.reqList
        /\ k1.routeTo = k.routeTo
        /\ k1.outstandingResponses = Minus(k.outstandingResponses, s)
        /\ k1.reqSend = k.reqSend
        /\ k1.respSend = [k.respSend EXCEPT ![s] = IF rest = <<>> THEN "idle" ELSE "scheduled"]
        /\ k1.retryReq = [k.retryReq EXCEPT ![s] = FALSE]
    BY <1>1, Zenon DEF Bridge, sentResp, Minus, rest
  <1>5. /\ k1.respList \in [Ports -> Seq(Packet)] /\ k1.respSend \in [Ports -> SendState]
        /\ k1.outstandingResponses \in [Ports -> 0 .. respQueueLimit]
        /\ k1.retryReq \in [Ports -> BOOLEAN]
    BY <1>2, <1>3, <1>4, <1>n DEF SendState, Minus
  <1>6. k1 \in Bridge
    BY <1>1, <1>5, Zenon DEF Bridge, sentResp
  <1>7. ASSUME NEW i \in Ports
        PROVE  k1.respSend[i] = "idle" <=> k1.respList[i] = <<>>
    <2>1. CASE i = s
      BY <1>2, <1>4, <2>1, Zenon
    <2>2. CASE i # s
      BY <1>2, <1>4, <2>2 DEF BridgeOK
    <2>. QED
      BY <2>1, <2>2, Zenon
  <1>8. [k.respList EXCEPT ![s] = rest] = Pop(k.respList, s)
    BY DEF Pop, rest
  <1>. HIDE DEF k1
  <1>9. BridgeOK(k1)
    BY <1>4, <1>6, <1>7 DEF BridgeOK
  <1>. QED
    BY <1>4, <1>8, <1>9 DEF k1

\* Steps that leave the queues alone.
LEMMA FlagsOK ==
  ASSUME NEW k, BridgeOK(k), NEW s \in Ports
  PROVE  /\ LET k1 == [k EXCEPT !.retryReq[s] = TRUE]
            IN  /\ BridgeOK(k1)
                /\ k1.reqList = k.reqList /\ k1.respList = k.respList
                /\ k1.routeTo = k.routeTo
                /\ k1.outstandingResponses = k.outstandingResponses
         /\ LET k1 == [k EXCEPT !.reqSend[s] = "refused"]
            IN  k.reqSend[s] # "idle" =>
                /\ BridgeOK(k1)
                /\ k1.reqList = k.reqList /\ k1.respList = k.respList
                /\ k1.routeTo = k.routeTo
                /\ k1.outstandingResponses = k.outstandingResponses
         /\ LET k1 == [k EXCEPT !.respSend[s] = "refused"]
            IN  k.respSend[s] # "idle" =>
                /\ BridgeOK(k1)
                /\ k1.reqList = k.reqList /\ k1.respList = k.respList
                /\ k1.routeTo = k.routeTo
                /\ k1.outstandingResponses = k.outstandingResponses
  <1>1. k \in Bridge
    BY DEF BridgeOK
  <1>2. [k EXCEPT !.retryReq[s] = TRUE] \in Bridge
    BY <1>1, Zenon DEF Bridge
  <1>3. [k EXCEPT !.reqSend[s] = "refused"] \in Bridge
    BY <1>1, Zenon DEF Bridge, SendState
  <1>4. [k EXCEPT !.respSend[s] = "refused"] \in Bridge
    BY <1>1, Zenon DEF Bridge, SendState
  <1>5. BridgeOK([k EXCEPT !.retryReq[s] = TRUE])
    BY <1>1, <1>2, Zenon DEF Bridge, BridgeOK
  <1>6. k.reqSend[s] # "idle" => BridgeOK([k EXCEPT !.reqSend[s] = "refused"])
    BY <1>1, <1>3, Zenon DEF Bridge, BridgeOK
  <1>7. k.respSend[s] # "idle" => BridgeOK([k EXCEPT !.respSend[s] = "refused"])
    BY <1>1, <1>4, ZenonT(40) DEF Bridge, BridgeOK
  <1>. QED
    BY <1>1, <1>5, <1>6, <1>7, SMTT(30) DEF Bridge

\* The packet that recvTimingReq of slave port s queues.
Sent(s, p) == [makeCXLPacket(s, p) EXCEPT !.from = s]

LEMMA SentFacts ==
  ASSUME NEW s \in Ports, NEW p \in Packet
  PROVE  /\ Sent(s, p) \in Packet
         /\ Sent(s, p).req = p.req /\ Sent(s, p).from = s /\ Sent(s, p).dest = p.dest
         /\ Sent(s, p).needsResponse = p.needsResponse
         /\ Sent(s, p).type # p.type => p.type = "Default" /\ Sent(s, p).type = "CXLmem"
         /\ getMasterPort(s, p) \in Ports
  <1>1. /\ p.req \in Reqs /\ p.type \in Types /\ p.dest \in Ports /\ p.from \in Ports
        /\ p \in Packet /\ p.needsResponse \in BOOLEAN
    BY DEF Packet
  <1>2. /\ makeCXLPacket(s, p) \in Packet /\ makeCXLPacket(s, p).req = p.req
        /\ makeCXLPacket(s, p).dest = p.dest
        /\ makeCXLPacket(s, p).needsResponse = p.needsResponse
        /\ makeCXLPacket(s, p).type # p.type =>
             p.type = "Default" /\ makeCXLPacket(s, p).type = "CXLmem"
    <2>1. CASE s = Host /\ p.dest = CXLLink /\ p.type = "Default"
      BY <1>1, <2>1 DEF makeCXLPacket, Packet, Types
    <2>2. CASE ~ (s = Host /\ p.dest = CXLLink /\ p.type = "Default")
      BY <1>1, <2>2 DEF makeCXLPacket
    <2>. QED
      BY <2>1, <2>2
  <1>3. /\ Sent(s, p) \in Packet /\ Sent(s, p).from = s
        /\ Sent(s, p).req = makeCXLPacket(s, p).req
        /\ Sent(s, p).dest = makeCXLPacket(s, p).dest
        /\ Sent(s, p).type = makeCXLPacket(s, p).type
        /\ Sent(s, p).needsResponse = makeCXLPacket(s, p).needsResponse
    BY <1>2 DEF Sent, Packet
  <1>4. getMasterPort(s, p) \in Ports
    BY <1>1, PortAssumption, SMTT(30) DEF getMasterPort, Ports
  <1>. QED
    BY <1>2, <1>3, <1>4

LEMMA RecvReqFields ==
  ASSUME NEW k, BridgeOK(k), NEW s \in Ports, NEW p \in Packet, Admits(k, s, p)
  PROVE  LET k1 == recvTimingReq(k, s, p)
         IN  /\ BridgeOK(k1)
             /\ k1.reqList = App(k.reqList, getMasterPort(s, p), Sent(s, p))
             /\ k1.respList = k.respList /\ k1.routeTo = k.routeTo
             /\ k1.outstandingResponses = Book(k.outstandingResponses, Sent(s, p))
  <1>. DEFINE k0 == reserve(k, s, p)
              m == getMasterPort(s, p)
              q == Sent(s, p)
              out1 == IF p.needsResponse THEN Plus(k.outstandingResponses, s)
                      ELSE k.outstandingResponses
  <1>1. (p.needsResponse => ~ respQueueFull(k, s)) /\ ~ reqQueueFull(k, m)
    BY Zenon DEF Admits
  <1>2. /\ BridgeOK(k0)
        /\ k0.reqList = k.reqList /\ k0.respList = k.respList
        /\ k0.routeTo = k.routeTo
        /\ k0.outstandingResponses = out1
    BY <1>1, ReserveOK, Zenon
  <1>3. recvTimingReq(k, s, p) = schedTimingReq(k0, m, q)
    BY Zenon DEF recvTimingReq, Sent
  <1>5. m \in Ports /\ q \in Packet /\ q.from = s /\ q.needsResponse = p.needsResponse
    BY SentFacts, Zenon
  <1>. HIDE DEF q
  <1>b. out1 = Book(k.outstandingResponses, q)
    BY <1>5, Zenon DEF Book
  <1>. HIDE DEF k0, m, out1
  <1>4. ~ reqQueueFull(k0, m)
    BY <1>1, <1>2 DEF reqQueueFull
  <1>6. /\ BridgeOK(schedTimingReq(k0, m, q))
        /\ schedTimingReq(k0, m, q).reqList = App(k0.reqList, m, q)
        /\ schedTimingReq(k0, m, q).respList = k0.respList
        /\ schedTimingReq(k0, m, q).routeTo = k0.routeTo
        /\ schedTimingReq(k0, m, q).outstandingResponses = k0.outstandingResponses
    BY <1>2, <1>4, <1>5, SchedReqOK, Zenon
  <1>. QED
    BY <1>2, <1>3, <1>6, <1>b, Zenon DEF m, q

-----------------------------------------------------------------------------
(***************************************************************************)
(* The inductive invariant, as a predicate of the bridge and the peers.    *)
(***************************************************************************)
St(k, pe) ==
  BridgeOK(k) /\ Good(k.reqList, k.respList, pe, k.routeTo, k.outstandingResponses)

LEMMA InvIsSt == Inv <=> St(b, peer) /\ aborted \in BOOLEAN
  <1>1. ASSUME BridgeOK(b)
        PROVE  /\ b.reqList \in Queues /\ b.respList \in Queues
               /\ b.routeTo \in [Reqs -> Ports \cup {NoPort}]
               /\ b.outstandingResponses \in [Ports -> Int]
    <2>1. b \in Bridge
      BY <1>1 DEF BridgeOK
    <2>2. b.outstandingResponses \in [Ports -> 0 .. respQueueLimit]
      BY <2>1 DEF Bridge
    <2>. QED
      BY <2>1, <2>2, LimitAssumption DEF Bridge, Queues
  <1>2. TypeOK <=> BridgeOK(b) /\ peer \in Peers /\ aborted \in BOOLEAN
    BY DEF TypeOK, BridgeOK, Peers
  <1>. QED
    BY <1>1, <1>2 DEF Inv, St, Good

\* A request is admitted, or stalled.
LEMMA StRecvReq ==
  ASSUME NEW k, NEW pe, St(k, pe), NEW s \in Ports, NEW p \in Packet,
         Admits(k, s, p) => /\ Fresh(k.reqList, k.respList, pe, p.req)
                            /\ k.routeTo[p.req] = NoPort
                            /\ KReq(getMasterPort(s, p), Sent(s, p))
  PROVE  St(recvTimingReq(k, s, p), pe)
  <1>. DEFINE k1 == recvTimingReq(k, s, p)
              m == getMasterPort(s, p)
              q == Sent(s, p)
  <1>1. BridgeOK(k) /\ Good(k.reqList, k.respList, pe, k.routeTo, k.outstandingResponses)
    BY DEF St
  <1>2. CASE Admits(k, s, p)
    <2>1. /\ BridgeOK(k1) /\ k1.reqList = App(k.reqList, m, q)
          /\ k1.respList = k.respList /\ k1.routeTo = k.routeTo
          /\ k1.outstandingResponses = Book(k.outstandingResponses, q)
      BY <1>1, <1>2, RecvReqFields, Zenon
    <2>2. q \in Packet /\ q.req = p.req /\ q.from = s /\ m \in Ports
      BY SentFacts
    <2>3. /\ Fresh(k.reqList, k.respList, pe, p.req) /\ KReq(m, q)
          /\ k.routeTo[p.req] = NoPort
      BY <1>2, Zenon
    <2>. HIDE DEF k1, m, q
    <2>4. Good(App(k.reqList, m, q), k.respList, pe, k.routeTo,
               Book(k.outstandingResponses, q))
      BY ONLY <1>1, <2>2, <2>3, GoodAdmit, Zenon
    <2>5. St(k1, pe)
      BY ONLY <2>1, <2>2, <2>4 DEF St
    <2>. QED
      BY <2>5, SMTT(30) DEF k1
  <1>3. CASE ~ Admits(k, s, p)
    <2>1. k1 = [k EXCEPT !.retryReq[s] = TRUE]
      BY <1>3 DEF recvTimingReq
    <2>2. /\ BridgeOK(k1) /\ k1.reqList = k.reqList /\ k1.respList = k.respList
          /\ k1.routeTo = k.routeTo
          /\ k1.outstandingResponses = k.outstandingResponses
      <3>. HIDE DEF k1
      <3>. DEFINE k2 == [k EXCEPT !.retryReq[s] = TRUE]
      <3>1. /\ BridgeOK(k2) /\ k2.reqList = k.reqList /\ k2.respList = k.respList
            /\ k2.routeTo = k.routeTo
            /\ k2.outstandingResponses = k.outstandingResponses
        BY <1>1, FlagsOK, Zenon
      <3>. QED
        BY <2>1, <3>1
    <2>. HIDE DEF k1
    <2>3. St(k1, pe)
      BY ONLY <1>1, <2>2 DEF St
    <2>. QED
      BY <2>3 DEF k1
  <1>. QED
    BY <1>2, <1>3, SMTT(30)

\* Entering a request that the table leaves out changes nothing.
LEMMA EnterUnrouted ==
  ASSUME NEW ro \in [Reqs -> Ports \cup {NoPort}], NEW p, p.type \in Unrouted
  PROVE  Enter(ro, p) = ro
  BY SMTT(30) DEF Enter

\* A peer takes the head of a request queue.
LEMMA StSendReq ==
  ASSUME NEW k, NEW pe, St(k, pe), NEW m \in Ports, k.reqList[m] # <<>>
  PROVE  St(sentReq(k, m),
            IF /\ Head(k.reqList[m]).needsResponse
               /\ ~ (m = Host /\ Head(k.reqList[m]).type = "CXLcacheH2DResp")
            THEN Put(pe, m, Head(k.reqList[m])) ELSE pe)
  <1>. DEFINE k1 == sentReq(k, m)
              p == Head(k.reqList[m])
              rq == k.reqList
              rs == k.respList
              ro == k.routeTo
              out == k.outstandingResponses
  <1>1. BridgeOK(k) /\ Good(rq, rs, pe, ro, out)
    BY Zenon DEF St
  <1>2. /\ BridgeOK(k1) /\ k1.reqList = Pop(rq, m) /\ k1.respList = rs
        /\ k1.routeTo = Enter(ro, p) /\ k1.outstandingResponses = out
    BY <1>1, SentReqOK, Zenon
  <1>. HIDE DEF k1
  <1>3. Good(Pop(rq, m), rs, pe, ro, out) /\ p \in Packet /\ KReq(m, p)
    BY <1>1, GoodEnd, Zenon
  <1>e. CASE ~ p.needsResponse
    <2>1. Good(Pop(rq, m), rs, pe, Enter(ro, p), out)
      BY <1>1, <1>e, GoodEvict, Zenon
    <2>2. St(k1, pe)
      BY <1>2, <2>1, Zenon DEF St
    <2>. QED
      BY <1>e, <2>2, Zenon DEF k1
  <1>4. CASE p.type = "CXLcacheH2DResp"
    <2>1. ro \in [Reqs -> Ports \cup {NoPort}]
      BY <1>1 DEF Good
    <2>2. Enter(ro, p) = ro
      BY <1>4, <2>1, EnterUnrouted, SMTT(30) DEF Unrouted
    <2>3. m = Host
      BY <1>3, <1>4, Zenon DEF KReq
    <2>4. St(k1, pe)
      BY <1>2, <1>3, <2>2, SMTT(30) DEF St
    <2>. QED
      BY <1>4, <2>3, <2>4, Zenon DEF k1
  <1>5. CASE p.needsResponse /\ p.type # "CXLcacheH2DResp"
    <2>1. Good(Pop(rq, m), rs, Put(pe, m, p), Enter(ro, p), out)
      BY <1>1, <1>5, GoodTake, Zenon
    <2>2. St(k1, Put(pe, m, p))
      BY <1>2, <2>1, Zenon DEF St
    <2>. QED
      BY <1>5, <2>2, Zenon DEF k1
  <1>. QED
    BY <1>4, <1>5, <1>e, Zenon

\* A coherence check that misses returns to the bridge while it leaves it.
LEMMA StSendReqMissed ==
  ASSUME NEW k, NEW pe, St(k, pe), k.reqList[Host] # <<>>,
         NEW p, p = Head(k.reqList[Host]), p.type = "HostBiasCheck",
         Admits(k, Host, p)
  PROVE  St(sentReq(recvTimingReq(k, Host, p), Host), pe)
  <1>. DEFINE k1 == recvTimingReq(k, Host, p)
              k2 == sentReq(k1, Host)
              q == Sent(Host, p)
              rq == k.reqList
              rs == k.respList
              ro == k.routeTo
              out == k.outstandingResponses
  <1>h. Host \in Ports /\ CXLLink \in Ports /\ Host # CXLLink
    BY PortAssumption DEF Ports
  <1>1. BridgeOK(k) /\ Good(rq, rs, pe, ro, out)
    BY Zenon DEF St
  <1>2. /\ Good(Pop(rq, Host), rs, pe, ro, out) /\ p \in Packet /\ KReq(Host, p)
        /\ Fresh(Pop(rq, Host), rs, pe, p.req) /\ ro[p.req] = NoPort
    BY <1>1, <1>h, GoodEnd, SMTT(30)
  <1>3. getMasterPort(Host, p) = CXLLink
    BY <1>2, <1>h, SMTT(30) DEF getMasterPort, KReq
  <1>4. /\ q \in Packet /\ q.req = p.req /\ q.from = Host /\ q.dest = p.dest
        /\ q.type = p.type
    BY <1>2, <1>h, SentFacts, ZenonT(40)
  <1>5. /\ BridgeOK(k1) /\ k1.reqList = App(rq, CXLLink, q) /\ k1.respList = rs
        /\ k1.routeTo = ro /\ k1.outstandingResponses = Book(out, q)
    BY <1>1, <1>2, <1>3, <1>h, RecvReqFields, ZenonT(40)
  <1>. HIDE DEF k1, q
  <1>6. rq \in Queues /\ ro \in [Reqs -> Ports \cup {NoPort}]
    BY <1>1, Zenon DEF Good
  <1>7. /\ k1.reqList[Host] = rq[Host]
        /\ Pop(App(rq, CXLLink, q), Host) = App(Pop(rq, Host), CXLLink, q)
    <2>1. App(rq, CXLLink, q)[Host] = rq[Host]
      BY <1>6, <1>h DEF App, Queues
    <2>2. Pop(App(rq, CXLLink, q), Host) = App(Pop(rq, Host), CXLLink, q)
      BY <1>6, <1>h, ZenonT(40) DEF App, Pop, Queues
    <2>. QED
      BY <1>5, <2>1, <2>2, SMTT(30)
  <1>8. /\ BridgeOK(k2) /\ k2.reqList = Pop(k1.reqList, Host) /\ k2.respList = rs
        /\ k2.routeTo = Enter(ro, p) /\ k2.outstandingResponses = Book(out, q)
    BY <1>5, <1>7, <1>h, SentReqOK, SMTT(30), Z3T(30)
  <1>. HIDE DEF k2
  <1>9. Enter(ro, p) = ro
    BY <1>6, EnterUnrouted, SMTT(30) DEF Unrouted
  <1>10. KReq(CXLLink, q)
    BY <1>2, <1>4, Zenon DEF KReq, Unrouted
  <1>11. Good(App(Pop(rq, Host), CXLLink, q), rs, pe, ro, Book(out, q))
    BY <1>2, <1>4, <1>10, <1>h, GoodAdmit, ZenonT(40)
  <1>12. St(k2, pe)
    BY <1>5, <1>7, <1>8, <1>9, <1>11, SMTT(30) DEF St
  <1>. QED
    BY <1>12, SMTT(30) DEF k1, k2

LEMMA LeaveOK ==
  ASSUME NEW k, BridgeOK(k), NEW p \in Packet
  PROVE  LET k1 == [k EXCEPT !.routeTo[p.req] = NoPort]
         IN  /\ BridgeOK(k1)
             /\ k1.reqList = k.reqList /\ k1.respList = k.respList
             /\ k1.routeTo = Leave(k.routeTo, p)
             /\ k1.outstandingResponses = k.outstandingResponses
  <1>. DEFINE k1 == [k EXCEPT !.routeTo[p.req] = NoPort]
  <1>1. k \in Bridge /\ p.req \in Reqs
    BY DEF BridgeOK, Packet
  <1>2. /\ k1.reqList = k.reqList /\ k1.respList = k.respList
        /\ k1.reqSend = k.reqSend /\ k1.respSend = k.respSend
        /\ k1.routeTo = Leave(k.routeTo, p)
        /\ k1.outstandingResponses = k.outstandingResponses
    BY <1>1 DEF Bridge, Leave
  <1>3. k1 \in Bridge
    BY <1>1, ZenonT(40) DEF Bridge
  <1>. HIDE DEF k1
  <1>4. BridgeOK(k1)
    BY <1>2, <1>3 DEF BridgeOK
  <1>. QED
    BY <1>2, <1>4 DEF k1

\* A peer answers a request.
LEMMA StRecvResp ==
  ASSUME NEW k, NEW pe, St(k, pe), NEW m \in Ports, NEW p \in pe[m],
         p.type = "HostBiasCheck" => m = Host,
         NEW q, q = [p EXCEPT !.type = IF @ = "CXLcacheH2DReq" THEN "CXLcacheH2DResp" ELSE @]
  PROVE  St(recvTimingResp(k, q), Del(pe, m, p))
  <1>. DEFINE k1 == recvTimingResp(k, q)
              pe1 == Del(pe, m, p)
              rq == k.reqList
              rs == k.respList
              ro == k.routeTo
              out == k.outstandingResponses
  <1>h. Host \in Ports /\ CXLLink \in Ports /\ Host # CXLLink /\ CXLLink = DMA2
    BY PortAssumption DEF Ports
  <1>1. BridgeOK(k) /\ Good(rq, rs, pe, ro, out)
    BY DEF St
  <1>2. KPeer(m, p) /\ p \in Packet
    <2>1. pe \in Peers /\ Kinds(rq, rs, pe)
      BY <1>1 DEF Good
    <2>. QED
      BY <2>1 DEF Kinds, Peers
  <1>3. /\ q \in Packet /\ q.req = p.req /\ q.from = p.from
        /\ q.needsResponse = p.needsResponse
        /\ q.type = IF p.type = "CXLcacheH2DReq" THEN "CXLcacheH2DResp" ELSE p.type
    BY <1>2 DEF Packet, Types
  <1>s. p.from \in Ports
    BY <1>2, ZenonT(40) DEF Packet
  <1>4. IF p.type \in Unrouted THEN Good(rq, App(rs, p.from, q), pe1, ro, out)
        ELSE ro[p.req] = p.from /\ Good(rq, App(rs, p.from, q), pe1, Leave(ro, p), out)
    <2>1. /\ q \in Packet /\ q.req = p.req /\ q.from = p.from
          /\ q.needsResponse = p.needsResponse
      BY <1>3
    <2>. QED
      BY ONLY <1>1, <2>1, m \in Ports, p \in pe[m], GoodAnswer
  <1>. DEFINE k0 == schedTimingResp(k, p.from, q)
  <1>5. /\ BridgeOK(k0) /\ k0.reqList = rq /\ k0.respList = App(rs, p.from, q)
        /\ k0.routeTo = ro /\ k0.outstandingResponses = out
    BY <1>1, <1>3, <1>s, SchedRespOK
  <1>. HIDE DEF pe1
  <1>6. CASE p.type \in Unrouted
    <2>1. p.type = "HostBiasCheck" \/ p.type = "CXLcacheH2DReq"
      BY <1>2, <1>6 DEF KPeer, Unrouted
    <2>2. p.type = "HostBiasCheck" => p.from = DMA2 /\ q.type = "HostBiasCheck"
      BY <1>2, <1>3, <1>h DEF KPeer, KReq
    <2>3. p.type = "CXLcacheH2DReq" => p.from = Host /\ q.type = "CXLcacheH2DResp"
      BY <1>2, <1>3 DEF KPeer, KReq
    <2>4. k1 = k0
      BY <2>1, <2>2, <2>3 DEF recvTimingResp
    <2>5. Good(rq, App(rs, p.from, q), pe1, ro, out)
      BY <1>4, <1>6
    <2>. HIDE DEF k0, k1
    <2>6. St(k1, pe1)
      BY <1>5, <2>4, <2>5, SMTT(30) DEF St
    <2>. QED
      BY <2>6 DEF k1, pe1
  <1>7. CASE p.type \notin Unrouted
    <2>1. ro[p.req] = p.from /\ Good(rq, App(rs, p.from, q), pe1, Leave(ro, p), out)
      BY <1>4, <1>7
    <2>2. q.type \notin Unrouted
      BY <1>3, <1>7, SMTT(30) DEF Unrouted
    <2>3. k1 = [schedTimingResp(k, ro[q.req], q) EXCEPT !.routeTo[q.req] = NoPort]
      BY <2>2, SMTT(30) DEF recvTimingResp, Unrouted
    <2>. HIDE DEF k0, k1
    <2>4. k1 = [k0 EXCEPT !.routeTo[q.req] = NoPort]
      BY <1>3, <2>1, <2>3 DEF k0
    <2>5. /\ BridgeOK(k1) /\ k1.reqList = k0.reqList /\ k1.respList = k0.respList
          /\ k1.routeTo = Leave(k0.routeTo, q)
          /\ k1.outstandingResponses = k0.outstandingResponses
      <3>. DEFINE k2 == [k0 EXCEPT !.routeTo[q.req] = NoPort]
      <3>1. /\ BridgeOK(k2) /\ k2.reqList = k0.reqList /\ k2.respList = k0.respList
            /\ k2.routeTo = Leave(k0.routeTo, q)
            /\ k2.outstandingResponses = k0.outstandingResponses
        BY <1>3, <1>5, LeaveOK, ZenonT(40)
      <3>. QED
        BY <2>4, <3>1
    <2>6. Leave(ro, q) = Leave(ro, p)
      BY <1>3 DEF Leave
    <2>7. St(k1, pe1)
      BY <1>5, <2>1, <2>5, <2>6, SMTT(30) DEF St
    <2>. QED
      BY <2>7 DEF k1, pe1
  <1>. QED
    BY <1>6, <1>7

\* A check that missed in the host ends in the device that made it.
LEMMA StTakeBack ==
  ASSUME NEW k, NEW pe, St(k, pe), NEW m \in Ports, NEW p \in pe[m], p.type \in Unrouted
  PROVE  /\ St(k, Del(pe, m, p))
         /\ Fresh(k.reqList, k.respList, Del(pe, m, p), p.req)
         /\ p \in Packet /\ k.routeTo[p.req] = NoPort /\ p.needsResponse
  BY GoodBack, Zenon DEF St, KPeer

\* A snoop that misses in the device comes back as a request.
LEMMA StSnoopMissed ==
  ASSUME NEW k, NEW pe, St(k, pe), NEW p \in pe[CXLLink], p.type = "CXLcacheH2DReq",
         NEW q, q = [p EXCEPT !.type = "CXLcacheH2DResp", !.dest = Host]
  PROVE  St(recvTimingReq(k, CXLLink, q),
            IF Admits(k, CXLLink, q) THEN Del(pe, CXLLink, p) ELSE pe)
  <1>. DEFINE pe1 == Del(pe, CXLLink, p)
  <1>h. Host \in Ports /\ CXLLink \in Ports /\ Host # CXLLink
    BY PortAssumption DEF Ports
  <1>1. /\ St(k, pe1) /\ Fresh(k.reqList, k.respList, pe1, p.req) /\ p \in Packet
        /\ k.routeTo[p.req] = NoPort
    BY <1>h, StTakeBack, Zenon DEF Unrouted
  <1>. HIDE DEF pe1
  <1>2. /\ q \in Packet /\ q.req = p.req /\ q.type = "CXLcacheH2DResp" /\ q.dest = Host
    BY <1>1, <1>h, Zenon DEF Packet, Types
  <1>3. getMasterPort(CXLLink, q) = Host
    BY <1>2, <1>h DEF getMasterPort
  <1>4. Sent(CXLLink, q).type = "CXLcacheH2DResp"
    <2>1. Sent(CXLLink, q).type # q.type => q.type = "Default"
      BY ONLY <1>2, <1>h, SentFacts
    <2>. QED
      BY <1>2, <2>1, SMTT(30)
  <1>5. KReq(getMasterPort(CXLLink, q), Sent(CXLLink, q))
    <2>1. Sent(CXLLink, q).type \in Unrouted
      BY <1>4, Zenon DEF Unrouted
    <2>. QED
      BY <1>3, <1>4, <2>1 DEF KReq
  <1>6. CASE Admits(k, CXLLink, q)
    <2>1. St(recvTimingReq(k, CXLLink, q), pe1)
      BY <1>1, <1>2, <1>5, <1>h, StRecvReq, Zenon
    <2>. QED
      BY <1>6, <2>1 DEF pe1
  <1>7. CASE ~ Admits(k, CXLLink, q)
    <2>1. St(recvTimingReq(k, CXLLink, q), pe)
      BY <1>2, <1>7, <1>h, StRecvReq, Zenon
    <2>. QED
      BY <1>7, <2>1
  <1>. QED
    BY <1>6, <1>7

-----------------------------------------------------------------------------
(***************************************************************************)
(* The invariant is inductive.                                             *)
(***************************************************************************)
\* A request that is in no place is fresh.
LEMMA NotInFlightIsFresh ==
  ASSUME Inv, NEW r, r \notin {q.req : q \in InFlight}
  PROVE  Fresh(b.reqList, b.respList, peer, r)
  <1>1. b.reqList \in Queues /\ b.respList \in Queues /\ peer \in Peers
    BY InvIsSt, SMTT(30) DEF St, Good
  <1>2. InFlight = InFl(b.reqList, b.respList, peer)
    BY DEF InFlight, InBridge, InFl
  <1>3. \A p \in InFl(b.reqList, b.respList, peer) : p.req # r
    BY <1>2, SMTT(30)
  <1>. QED
    BY <1>1, <1>3, InFlPlaces, Zenon DEF Fresh

\* What the peers offer goes where its kind belongs.
LEMMA OffersAreKinds ==
  ASSUME NEW s \in Ports, NEW o \in Offers(s), NEW p \in Packet,
         p.type = o[1], p.dest = o[2], p.needsResponse = o[3]
  PROVE  KReq(getMasterPort(s, p), Sent(s, p))
  <1>h. Host \in Ports /\ CXLLink \in Ports /\ Host # CXLLink
    BY PortAssumption, SMTT(30) DEF Ports
  <1>1. /\ Sent(s, p).from = s /\ Sent(s, p).dest = p.dest
        /\ Sent(s, p).type # p.type => p.type = "Default" /\ Sent(s, p).type = "CXLmem"
        /\ Sent(s, p).needsResponse = p.needsResponse
    BY SentFacts, Zenon
  <1>2. \/ p.type = "Default"
        \/ p.type = "CXLcache"
        \/ s = Host /\ p.type = "CXLcacheH2DReq"
        \/ s = CXLLink /\ p.type = "HostBiasCheck" /\ p.dest = CXLLink
    BY Zenon DEF Offers
  <1>n. ~ p.needsResponse => s = CXLLink
    <2>1. o[3] \in Needs(s, o[1])
      BY Zenon DEF Offers
    <2>2. s # CXLLink => o[3] = TRUE
      BY <2>1, Zenon DEF Needs
    <2>. QED
      BY <2>2, Zenon
  <1>f. ~ Sent(s, p).needsResponse => Sent(s, p).from = CXLLink
    BY <1>1, <1>n, Zenon
  <1>3. CASE p.type = "Default" \/ p.type = "CXLcache"
    <2>1. Sent(s, p).type \in {"Default", "CXLcache", "CXLmem"}
      BY <1>1, <1>3, Zenon
    <2>. QED
      BY <1>f, <2>1, Zenon DEF KReq
  <1>4. CASE s = Host /\ p.type = "CXLcacheH2DReq"
    <2>1. Sent(s, p).type = "CXLcacheH2DReq" /\ getMasterPort(s, p) = CXLLink
      BY <1>1, <1>4, ZenonT(40) DEF getMasterPort
    <2>. QED
      BY <1>1, <1>4, <1>f, <2>1, Zenon DEF KReq
  <1>5. CASE s = CXLLink /\ p.type = "HostBiasCheck" /\ p.dest = CXLLink
    <2>1. Sent(s, p).type = "HostBiasCheck" /\ getMasterPort(s, p) = Host
      BY <1>1, <1>5, <1>h, Zenon DEF getMasterPort
    <2>. QED
      BY <1>1, <1>5, <1>f, <2>1, Zenon DEF KReq
  <1>. QED
    BY <1>2, <1>3, <1>4, <1>5, SMTT(30)

LEMMA InvNext == Inv /\ [Next]_vars => Inv'
  <1>. SUFFICES ASSUME Inv, [Next]_vars PROVE Inv'
    OBVIOUS
  <1>0. St(b, peer) /\ aborted \in BOOLEAN
    BY InvIsSt, Zenon
  <1>s. SUFFICES St(b', peer') /\ aborted' \in BOOLEAN
    <2>1. ASSUME BridgeOK(b')
          PROVE  /\ b'.reqList \in Queues /\ b'.respList \in Queues
                 /\ b'.routeTo \in [Reqs -> Ports \cup {NoPort}]
                 /\ b'.outstandingResponses \in [Ports -> Int]
      BY <2>1, SMTT(30), Z3T(30) DEF BridgeOK, Bridge, Queues
    <2>2. St(b', peer') /\ aborted' \in BOOLEAN => TypeOK'
      BY SMTT(30) DEF TypeOK, St, BridgeOK, Good, Peers
    <2>. QED
      BY <2>1, <2>2, Zenon DEF Inv, St, Good
  <1>b. /\ b \in Bridge
        /\ \A i \in Ports : b.reqSend[i] # "idle" => b.reqList[i] # <<>>
        /\ \A i \in Ports : b.respSend[i] # "idle" => b.respList[i] # <<>>
    BY <1>0 DEF St, BridgeOK
  <1>h. Host \in Ports /\ CXLLink \in Ports
    BY PortAssumption, Zenon DEF Ports
  <1>1. ASSUME NEW s \in Ports, NEW r \in Reqs, NEW o \in Offers(s), RecvReq(s, r, o)
        PROVE  St(b', peer') /\ aborted' \in BOOLEAN
    <2>. DEFINE p == [req |-> r, type |-> o[1], dest |-> o[2], from |-> s,
                      needsResponse |-> o[3]]
    <2>1. /\ r \notin {q.req : q \in InFlight} /\ b.routeTo[r] = NoPort
          /\ b' = recvTimingReq(b, s, p) /\ peer' = peer /\ aborted' = aborted
      BY <1>1, Zenon DEF RecvReq
    <2>2. /\ p \in Packet /\ p.req = r /\ p.type = o[1] /\ p.dest = o[2]
          /\ p.needsResponse = o[3]
      BY Zenon DEF Packet, Offers
    <2>3. Fresh(b.reqList, b.respList, peer, r)
      BY <2>1, NotInFlightIsFresh, SMTT(30)
    <2>. HIDE DEF p
    <2>4. KReq(getMasterPort(s, p), Sent(s, p))
      BY <2>2, OffersAreKinds, Zenon
    <2>5. St(recvTimingReq(b, s, p), peer)
      BY <1>0, <2>1, <2>2, <2>3, <2>4, StRecvReq, Zenon
    <2>. QED
      BY <1>0, <2>1, <2>5, Zenon
  <1>2. ASSUME NEW m \in Ports, ~ aborted, b.reqSend[m] # "idle",
               Taken(m, Head(b.reqList[m]))
        PROVE  St(b', peer') /\ aborted' \in BOOLEAN
    <2>. DEFINE p == Head(b.reqList[m])
    <2>1. /\ b.reqList[m] # <<>> /\ b' = sentReq(b, m) /\ aborted' = aborted
          /\ peer' = IF p.needsResponse /\ ~ (m = Host /\ p.type = "CXLcacheH2DResp")
                     THEN Put(peer, m, p) ELSE peer
      BY <1>2, <1>b, Zenon DEF Taken, Put
    <2>2. St(sentReq(b, m),
             IF p.needsResponse /\ ~ (m = Host /\ p.type = "CXLcacheH2DResp")
             THEN Put(peer, m, p) ELSE peer)
      BY <1>0, <2>1, StSendReq, Zenon
    <2>. HIDE DEF p
    <2>. QED
      BY ONLY <1>0, <2>1, <2>2, Zenon
  <1>3. ASSUME NEW m \in Ports, RefuseReq(m)
        PROVE  St(b', peer') /\ aborted' \in BOOLEAN
    <2>. DEFINE k1 == [b EXCEPT !.reqSend[m] = "refused"]
    <2>1. b.reqSend[m] # "idle" /\ b' = k1 /\ peer' = peer /\ aborted' = aborted
      BY <1>3 DEF RefuseReq
    <2>2. /\ BridgeOK(k1) /\ k1.reqList = b.reqList /\ k1.respList = b.respList
          /\ k1.routeTo = b.routeTo /\ k1.outstandingResponses = b.outstandingResponses
      BY <1>0, <2>1, FlagsOK, ZenonT(40) DEF St
    <2>. HIDE DEF k1
    <2>. QED
      BY <1>0, <2>1, <2>2 DEF St
  <1>4. ASSUME NEW m \in Ports, ~ aborted, b.reqSend[m] # "idle",
               Missed(m, Head(b.reqList[m]))
        PROVE  St(b', peer') /\ aborted' \in BOOLEAN
    <2>. DEFINE p == Head(b.reqList[Host])
    <2>1. /\ b.reqList[Host] # <<>> /\ p.type = "HostBiasCheck" /\ peer' = peer
          /\ IF Admits(b, Host, p)
             THEN b' = sentReq(recvTimingReq(b, Host, p), Host) /\ aborted' = aborted
             ELSE b' = recvTimingReq(b, Host, p) /\ aborted' = TRUE
      BY <1>4, <1>b, <1>h, SMTT(30) DEF Missed
    <2>2. p \in Packet
      BY <1>b, <1>h, <2>1, SMTT(30) DEF Bridge
    <2>3. CASE Admits(b, Host, p)
      <3>1. St(sentReq(recvTimingReq(b, Host, p), Host), peer)
        BY <1>0, <2>1, <2>3, StSendReqMissed, Zenon
      <3>. HIDE DEF p
      <3>. QED
        BY ONLY <1>0, <2>1, <2>3, <3>1
    <2>4. CASE ~ Admits(b, Host, p)
      <3>1. St(recvTimingReq(b, Host, p), peer)
        BY <1>0, <1>h, <2>2, <2>4, StRecvReq, SMTT(30), Z3T(30)
      <3>. HIDE DEF p
      <3>. QED
        BY <2>1, <2>4, <3>1, Zenon
    <2>. QED
      BY <2>3, <2>4, Zenon
  <1>5. ASSUME NEW m \in Ports, NEW p, RecvResp(m, p)
        PROVE  St(b', peer') /\ aborted' \in BOOLEAN
    <2>. DEFINE q == [p EXCEPT !.type = IF @ = "CXLcacheH2DReq"
                                        THEN "CXLcacheH2DResp" ELSE @]
    <2>1. /\ p \in peer[m] /\ (p.type = "HostBiasCheck" => m = Host)
          /\ b' = recvTimingResp(b, q) /\ peer' = Del(peer, m, p) /\ aborted' = aborted
      BY <1>5 DEF RecvResp, Del
    <2>2. St(recvTimingResp(b, q), Del(peer, m, p))
      BY <1>0, <2>1, StRecvResp, SMTT(30)
    <2>. HIDE DEF q
    <2>. QED
      BY <1>0, <2>1, <2>2, SMTT(30)
  <1>6. ASSUME NEW p, TakeBack(p)
        PROVE  St(b', peer') /\ aborted' \in BOOLEAN
    <2>1. /\ p \in peer[CXLLink] /\ p.type \in Unrouted
          /\ b' = b /\ peer' = Del(peer, CXLLink, p) /\ aborted' = aborted
      BY <1>6, Zenon DEF TakeBack, Del, Unrouted
    <2>2. St(b, Del(peer, CXLLink, p))
      BY <1>0, <1>h, <2>1, StTakeBack, Zenon
    <2>. QED
      BY <1>0, <2>1, <2>2, SMTT(30)
  <1>7. ASSUME NEW p, SnoopMissed(p)
        PROVE  St(b', peer') /\ aborted' \in BOOLEAN
    <2>. DEFINE q == [p EXCEPT !.type = "CXLcacheH2DResp", !.dest = Host]
    <2>1. /\ p \in peer[CXLLink] /\ p.type = "CXLcacheH2DReq"
          /\ b' = recvTimingReq(b, CXLLink, q) /\ aborted' = aborted
          /\ peer' = IF Admits(b, CXLLink, q) THEN Del(peer, CXLLink, p) ELSE peer
      BY <1>7 DEF SnoopMissed, Del
    <2>2. St(recvTimingReq(b, CXLLink, q),
             IF Admits(b, CXLLink, q) THEN Del(peer, CXLLink, p) ELSE peer)
      BY <1>0, <2>1, StSnoopMissed, ZenonT(40)
    <2>. HIDE DEF q
    <2>. QED
      BY <1>0, <2>1, <2>2, SMTT(30)
  <1>8. ASSUME NEW s \in Ports, SendResp(s)
        PROVE  St(b', peer') /\ aborted' \in BOOLEAN
    <2>1. b.respList[s] # <<>> /\ peer' = peer
      BY <1>8, <1>b DEF SendResp
    <2>2. /\ BridgeOK(b)
          /\ Good(b.reqList, b.respList, peer, b.routeTo, b.outstandingResponses)
      BY <1>0, Zenon DEF St
    <2>3. /\ Good(b.reqList, Pop(b.respList, s), peer, b.routeTo,
                  Minus(b.outstandingResponses, s))
          /\ b.outstandingResponses[s] >= 1
      BY <2>1, <2>2, GoodDone, Zenon
    <2>4. b' = sentResp(b, s) /\ aborted' = aborted
      BY <1>8, <2>3, SMTT(30) DEF SendResp
    <2>5. LET k1 == sentResp(b, s)
          IN  /\ BridgeOK(k1)
              /\ k1.reqList = b.reqList /\ k1.respList = Pop(b.respList, s)
              /\ k1.routeTo = b.routeTo
              /\ k1.outstandingResponses = Minus(b.outstandingResponses, s)
      BY <2>1, <2>2, <2>3, SentRespOK, ZenonT(40)
    <2>. QED
      BY <1>0, <2>1, <2>3, <2>4, <2>5, Zenon DEF St
  <1>9. ASSUME NEW s \in Ports, RefuseResp(s)
        PROVE  St(b', peer') /\ aborted' \in BOOLEAN
    <2>. DEFINE k1 == [b EXCEPT !.respSend[s] = "refused"]
    <2>1. b.respSend[s] # "idle" /\ b' = k1 /\ peer' = peer /\ aborted' = aborted
      BY <1>9 DEF RefuseResp
    <2>2. /\ BridgeOK(k1) /\ k1.reqList = b.reqList /\ k1.respList = b.respList
          /\ k1.routeTo = b.routeTo /\ k1.outstandingResponses = b.outstandingResponses
      BY <1>0, <2>1, FlagsOK, Zenon DEF St
    <2>. HIDE DEF k1
    <2>. QED
      BY <1>0, <2>1, <2>2 DEF St
  <1>10. CASE UNCHANGED vars
    BY <1>0, <1>10, Zenon DEF vars
  <1>. QED
    BY <1>1, <1>2, <1>3, <1>4, <1>5, <1>6, <1>7, <1>8, <1>9, <1>10, Zenon
       DEF Next, Progress, PeerStep, SendReq

-----------------------------------------------------------------------------
(***************************************************************************)
(* Reservations are exact where no peer starts a coherence check or a      *)
(* snoop.  A request then keeps its packet from the queue of its master    *)
(* port to the response queue, so the packets on their way change only     *)
(* when a request is admitted and when its response leaves.                *)
(***************************************************************************)
OnTheWay == InFl(b.reqList, b.respList, peer)

\* The packets F on their way become F1, and the reservations out out1: nothing
\* changes, a request is admitted, or a response or an eviction leaves.
Free(out, p) == IF p.needsResponse THEN Minus(out, p.from) ELSE out

Moves(F, out, F1, out1) ==
  \/ F1 = F /\ out1 = out
  \/ \E p \in Packet : /\ p \notin F /\ p.type \notin Unrouted
                       /\ F1 = F \cup {p} /\ out1 = Book(out, p)
  \/ \E p \in F : F1 = F \ {p} /\ out1 = Free(out, p)

\* Every packet of F is answered through the routing table.
AllRouted(F) == \A p \in F : p.type \notin Unrouted

Exact(F, out) ==
  /\ CardinalityLaws
  /\ \A s \in Ports : IsFiniteSet(Of(F, s)) /\ Cardinality(Of(F, s)) = out[s]

LEMMA ExactMoves ==
  ASSUME NEW F \in SUBSET Packet, NEW out \in [Ports -> Int], NEW F1, NEW out1,
         Moves(F, out, F1, out1), AllRouted(F), Exact(F, out)
  PROVE  AllRouted(F1) /\ Exact(F1, out1)
  <1>0. CardinalityLaws
    BY DEF Exact
  <1>1. CASE F1 = F /\ out1 = out
    BY <1>1, SMTT(30)
  <1>2. ASSUME NEW p \in Packet, p \notin F, p.type \notin Unrouted,
               F1 = F \cup {p}, out1 = Book(out, p)
        PROVE  AllRouted(F1) /\ Exact(F1, out1)
    <2>1. AllRouted(F1)
      BY <1>2, ZenonT(40) DEF AllRouted
    <2>2. ASSUME NEW s \in Ports
          PROVE  IsFiniteSet(Of(F1, s)) /\ Cardinality(Of(F1, s)) = out1[s]
      <3>1. IsFiniteSet(Of(F, s)) /\ Cardinality(Of(F, s)) = out[s]
        BY SMTT(30) DEF Exact
      <3>2. CASE s = p.from /\ p.needsResponse
        <4>1. Of(F1, s) = Of(F, s) \cup {p} /\ p \notin Of(F, s)
          BY <1>2, <3>2, Zenon DEF Of
        <4>2. /\ IsFiniteSet(Of(F, s) \cup {p})
              /\ Cardinality(Of(F, s) \cup {p}) = Cardinality(Of(F, s)) + 1
          BY <1>0, <3>1, <4>1, Zenon DEF CardinalityLaws
        <4>3. out1[s] = out[s] + 1
          BY <1>2, <3>2, Zenon DEF Book, Plus
        <4>. QED
          BY <3>1, <4>1, <4>2, <4>3, Zenon
      <3>3. CASE ~ (s = p.from /\ p.needsResponse)
        <4>1. Of(F1, s) = Of(F, s) /\ out1[s] = out[s]
          BY <1>2, <3>3, Zenon DEF Of, Book, Plus
        <4>. QED
          BY <3>1, <4>1, SMTT(30)
      <3>. QED
        BY <3>2, <3>3, Zenon
    <2>. QED
      BY <1>0, <2>1, <2>2, SMTT(30) DEF Exact
  <1>3. ASSUME NEW p \in F, F1 = F \ {p}, out1 = Free(out, p)
        PROVE  AllRouted(F1) /\ Exact(F1, out1)
    <2>1. AllRouted(F1)
      BY <1>3, ZenonT(40) DEF AllRouted
    <2>2. ASSUME NEW s \in Ports
          PROVE  IsFiniteSet(Of(F1, s)) /\ Cardinality(Of(F1, s)) = out1[s]
      <3>1. IsFiniteSet(Of(F, s)) /\ Cardinality(Of(F, s)) = out[s]
        BY SMTT(30) DEF Exact
      <3>2. CASE s = p.from /\ p.needsResponse
        <4>1. Of(F1, s) = Of(F, s) \ {p} /\ p \in Of(F, s)
          BY <1>3, <3>2, Zenon DEF Of
        <4>2. /\ IsFiniteSet(Of(F, s) \ {p})
              /\ Cardinality(Of(F, s) \ {p}) = Cardinality(Of(F, s)) - 1
          BY <1>0, <3>1, <4>1, Zenon DEF CardinalityLaws
        <4>3. out1[s] = out[s] - 1
          BY <1>3, <3>2, Zenon DEF Free, Minus
        <4>. QED
          BY ONLY <3>1, <4>1, <4>2, <4>3
      <3>3. CASE ~ (s = p.from /\ p.needsResponse)
        <4>1. Of(F1, s) = Of(F, s) /\ out1[s] = out[s]
          BY <1>3, <3>3, Zenon DEF Of, Free, Minus
        <4>. QED
          BY <3>1, <4>1, SMTT(30)
      <3>. QED
        BY <3>2, <3>3, Zenon
    <2>. QED
      BY <1>0, <2>1, <2>2, SMTT(30) DEF Exact
  <1>. QED
    BY <1>1, <1>2, <1>3, SMTT(30) DEF Moves

\* What an action does to the packets on their way.
LEMMA StepMoves ==
  ASSUME Traffic \cap Unrouted = {}, Inv, AllRouted(OnTheWay), [Next]_vars
  PROVE  Moves(OnTheWay, b.outstandingResponses, OnTheWay', b.outstandingResponses')
  <1>. DEFINE rq == b.reqList
              rs == b.respList
              out == b.outstandingResponses
              F == InFl(rq, rs, peer)
              Goal == Moves(F, out, F', out')
  <1>. SUFFICES Goal
    BY ZenonT(40) DEF OnTheWay
  <1>0. /\ BridgeOK(b) /\ Good(rq, rs, peer, b.routeTo, out)
        /\ rq \in Queues /\ rs \in Queues /\ peer \in Peers
        /\ Once(rq, rs, peer) /\ Kinds(rq, rs, peer)
    BY InvIsSt, SMTT(30) DEF St, Good
  <1>q. /\ rq \in Queues /\ rs \in Queues /\ peer \in Peers
        /\ Once(rq, rs, peer) /\ Once(rs, rq, peer)
        /\ InFl(rs, rq, peer) = InFl(rq, rs, peer)
    BY <1>0, OnceSym, Zenon
  <1>a. \A p \in F : p.type \notin Unrouted
    BY ZenonT(40) DEF AllRouted, OnTheWay
  <1>b. /\ b \in Bridge
        /\ \A i \in Ports : b.reqSend[i] # "idle" => rq[i] # <<>>
        /\ \A i \in Ports : b.respSend[i] # "idle" => rs[i] # <<>>
    BY <1>0 DEF BridgeOK
  <1>h. Host \in Ports /\ CXLLink \in Ports
    BY PortAssumption, ZenonT(40) DEF Ports
  <1>e. F' = F /\ out' = out => Goal
    BY DEF Moves
  <1>k. (b'.reqList = rq /\ b'.respList = rs /\ b'.outstandingResponses = out
         /\ peer' = peer) => Goal
    BY <1>e, Zenon
  <1>. HIDE DEF Goal
  <1>1. ASSUME NEW s \in Ports, NEW r \in Reqs, NEW o \in Offers(s), RecvReq(s, r, o)
        PROVE  Goal
    <2>. DEFINE p == [req |-> r, type |-> o[1], dest |-> o[2], from |-> s,
                      needsResponse |-> o[3]]
                q == Sent(s, p)
                m == getMasterPort(s, p)
                k1 == recvTimingReq(b, s, p)
    <2>1. /\ r \notin {z.req : z \in InFlight}
          /\ b' = k1 /\ peer' = peer
      BY <1>1, Zenon DEF RecvReq
    <2>2. p \in Packet /\ p.req = r /\ p.type = o[1] /\ o[1] \in Traffic
      BY Zenon DEF Packet, Offers
    <2>3. Fresh(rq, rs, peer, r)
      BY <2>1, NotInFlightIsFresh, Zenon
    <2>. HIDE DEF p
    <2>4. /\ q \in Packet /\ q.req = r /\ q.from = s /\ m \in Ports
          /\ q.type # p.type => q.type = "CXLmem"
      BY <2>2, SentFacts, SMTT(30)
    <2>5. q.type \notin Unrouted
      <3>1. p.type \notin Unrouted
        BY <2>2
      <3>2. "CXLmem" \notin Unrouted
        BY ZenonT(40) DEF Unrouted
      <3>. QED
        BY <2>4, <3>1, <3>2, SMTT(30)
    <2>6. CASE Admits(b, s, p)
      <3>1. /\ k1.reqList = App(rq, m, q) /\ k1.respList = rs
            /\ k1.outstandingResponses = Book(out, q)
        BY <1>0, <2>2, <2>6, RecvReqFields, ZenonT(40)
      <3>. HIDE DEF k1, m, q
      <3>2. InFl(App(rq, m, q), rs, peer) = F \cup {q} /\ q \notin F
        <4>1. Fresh(rq, rs, peer, q.req)
          BY <2>3, <2>4, ZenonT(40)
        <4>2. m \in Ports /\ q \in Packet
          BY <2>4, SMTT(30)
        <4>. HIDE DEF rq, rs
        <4>. QED
          BY ONLY <1>q, <4>1, <4>2, AddKeepsOnce
      <3>3. F' = F \cup {q} /\ out' = Book(out, q)
        BY <2>1, <2>4, <3>1, <3>2, ZenonT(40)
      <3>. HIDE DEF F
      <3>. QED
        BY <2>4, <2>5, <3>2, <3>3, SMTT(30) DEF Moves, Goal
    <2>7. CASE ~ Admits(b, s, p)
      <3>. DEFINE k2 == [b EXCEPT !.retryReq[s] = TRUE]
      <3>1. b' = k2
        BY <2>1, <2>7 DEF recvTimingReq
      <3>2. k2.reqList = rq /\ k2.respList = rs /\ k2.outstandingResponses = out
        BY <1>0, FlagsOK, ZenonT(40)
      <3>. HIDE DEF k2
      <3>. QED
        BY <1>k, <2>1, <3>1, <3>2, SMTT(30)
    <2>. QED
      BY ONLY <2>6, <2>7
  <1>2. ASSUME NEW m \in Ports, ~ aborted, b.reqSend[m] # "idle"
        PROVE  /\ Taken(m, Head(rq[m])) => Goal
               /\ ~ Missed(m, Head(rq[m]))
    <2>. DEFINE p == Head(rq[m])
                k1 == sentReq(b, m)
    <2>1. rq[m] # <<>>
      BY ONLY <1>2, <1>b, SMT, Z3T(30)
    <2>2. /\ InFl(Pop(rq, m), rs, peer) = F \ {p} /\ p \in F /\ p \in Packet
          /\ Pop(rq, m) \in Queues /\ Once(Pop(rq, m), rs, peer)
          /\ Fresh(Pop(rq, m), rs, peer, p.req)
      <3>. HIDE DEF rq, rs
      <3>. QED
        BY ONLY <1>q, <2>1, m \in Ports, PopKeepsOnce, SMT, Z3T(30)
    <2>3. p.type \notin Unrouted
      BY <1>a, <2>2
    <2>4. p.type # "CXLcacheH2DResp" /\ p.type # "HostBiasCheck"
      BY <2>3 DEF Unrouted
    <2>5. ~ Missed(m, p)
      BY <2>4, Zenon DEF Missed
    <2>e. ASSUME Taken(m, p), ~ p.needsResponse PROVE Goal
      <3>1. b' = k1 /\ peer' = peer
        BY <2>e, Zenon DEF Taken
      <3>2. /\ k1.reqList = Pop(rq, m) /\ k1.respList = rs
            /\ k1.outstandingResponses = out
        BY <1>0, <2>1, SentReqOK, Zenon
      <3>. HIDE DEF p, k1
      <3>3. F' = F \ {p} /\ out' = out
        BY <2>2, <3>1, <3>2, Zenon
      <3>4. Free(out, p) = out
        BY <2>e, Zenon DEF Free
      <3>. HIDE DEF F
      <3>. QED
        BY <2>2, <3>3, <3>4, Zenon DEF Moves, Goal
    <2>6. ASSUME Taken(m, p), p.needsResponse PROVE Goal
      <3>1. b' = k1 /\ peer' = Put(peer, m, p)
        BY <2>4, <2>6, Zenon DEF Taken, Put
      <3>2. /\ k1.reqList = Pop(rq, m) /\ k1.respList = rs
            /\ k1.outstandingResponses = out
        BY <1>0, <2>1, SentReqOK, Zenon
      <3>. HIDE DEF p, k1
      <3>3. InFl(Pop(rq, m), rs, Put(peer, m, p)) = InFl(Pop(rq, m), rs, peer) \cup {p}
        <4>. HIDE DEF rq, rs
        <4>. QED
          BY ONLY <1>q, <2>2, m \in Ports, TakeKeepsOnce
      <3>4. F' = (F \ {p}) \cup {p} /\ out' = out
        BY <2>2, <3>1, <3>2, <3>3, ZenonT(40)
      <3>. HIDE DEF F
      <3>. QED
        BY <1>e, <2>2, <3>4
    <2>. QED
      BY <2>5, <2>6, <2>e, Zenon
  <1>3. ASSUME NEW m \in Ports, RefuseReq(m) PROVE Goal
    <2>. DEFINE k1 == [b EXCEPT !.reqSend[m] = "refused"]
    <2>1. b.reqSend[m] # "idle" /\ b' = k1 /\ peer' = peer
      BY <1>3 DEF RefuseReq
    <2>2. k1.reqList = rq /\ k1.respList = rs /\ k1.outstandingResponses = out
      BY <1>0, <2>1, FlagsOK, ZenonT(40)
    <2>. HIDE DEF k1
    <2>. QED
      BY <1>k, <2>1, <2>2, SMTT(30)
  <1>4. ASSUME NEW m \in Ports, NEW p, RecvResp(m, p) PROVE Goal
    <2>. DEFINE q == [p EXCEPT !.type = IF @ = "CXLcacheH2DReq"
                                        THEN "CXLcacheH2DResp" ELSE @]
                pe1 == Del(peer, m, p)
                k0 == schedTimingResp(b, p.from, p)
    <2>1. p \in peer[m] /\ b' = recvTimingResp(b, q) /\ peer' = pe1
      BY <1>4 DEF RecvResp, Del
    <2>2. /\ pe1 \in Peers /\ Once(rq, rs, pe1) /\ Fresh(rq, rs, pe1, p.req)
          /\ InFl(rq, rs, pe1) = F \ {p} /\ p \in F /\ p \in Packet
      <3>. HIDE DEF rq, rs
      <3>. QED
        BY ONLY <1>q, <2>1, m \in Ports, DropKeepsOnce, SMT, Z3T(30) DEF pe1
    <2>3. p.type \notin Unrouted
      BY <1>a, <2>2, SMTT(30)
    <2>4. p.type # "CXLcacheH2DResp" /\ p.type # "HostBiasCheck" /\ p.type # "CXLcacheH2DReq"
      BY <2>3 DEF Unrouted
    <2>5. q = p
      BY <2>2, <2>4, SMTT(30), Z3T(30) DEF Packet
    <2>. HIDE DEF q, pe1
    <2>6. b.routeTo[p.req] = p.from
      BY <1>0, <2>1, <2>3, Zenon DEF Good, Routes, Entry
    <2>7. b' = [k0 EXCEPT !.routeTo[p.req] = NoPort]
      BY <2>1, <2>4, <2>5, <2>6, Zenon DEF recvTimingResp
    <2>8. p.from \in Ports
      BY <2>2, SMTT(30) DEF Packet
    <2>9. /\ BridgeOK(k0) /\ k0.reqList = rq /\ k0.respList = App(rs, p.from, p)
          /\ k0.outstandingResponses = out
      BY <1>0, <2>2, <2>8, SchedRespOK, ZenonT(40)
    <2>. HIDE DEF k0
    <2>10. /\ b'.reqList = k0.reqList /\ b'.respList = k0.respList
           /\ b'.outstandingResponses = k0.outstandingResponses
      <3>. DEFINE k2 == [k0 EXCEPT !.routeTo[p.req] = NoPort]
      <3>1. /\ k2.reqList = k0.reqList /\ k2.respList = k0.respList
            /\ k2.outstandingResponses = k0.outstandingResponses
        BY <2>2, <2>9, LeaveOK, ZenonT(40)
      <3>. QED
        BY <2>7, <3>1
    <2>11. InFl(App(rs, p.from, p), rq, pe1) = InFl(rs, rq, pe1) \cup {p}
      <3>1. Once(rs, rq, pe1) /\ Fresh(rs, rq, pe1, p.req) /\ p \in Packet /\ pe1 \in Peers
        BY <2>2, OnceSym, FreshSym, ZenonT(40)
      <3>. HIDE DEF rq, rs
      <3>. QED
        BY ONLY <1>q, <2>8, <3>1, AddKeepsOnce
    <2>12. InFl(rq, App(rs, p.from, p), pe1) = (F \ {p}) \cup {p}
      BY <2>2, <2>11, OnceSym, SMTT(30)
    <2>13. F' = (F \ {p}) \cup {p} /\ out' = out
      BY <2>1, <2>9, <2>10, <2>12, Zenon
    <2>. HIDE DEF F
    <2>. QED
      BY <1>e, <2>2, <2>13, SMTT(30)
  <1>5. ASSUME NEW p, TakeBack(p) \/ SnoopMissed(p) PROVE FALSE
    <2>1. p \in peer[CXLLink] /\ p.type \in Unrouted
      BY <1>5, SMTT(30) DEF TakeBack, SnoopMissed, Unrouted
    <2>2. p \in F
      BY <1>0, <1>h, <2>1, DropKeepsOnce, ZenonT(40)
    <2>. QED
      BY <1>a, <2>1, <2>2, SMTT(30)
  <1>6. ASSUME NEW s \in Ports, SendResp(s) PROVE Goal
    <2>. DEFINE p == Head(rs[s])
                k1 == sentResp(b, s)
    <2>1. rs[s] # <<>> /\ peer' = peer
      BY <1>6, <1>b, SMTT(30) DEF SendResp
    <2>2. out[s] >= 1
      BY <1>0, <2>1, GoodDone, ZenonT(40)
    <2>3. b' = k1
      BY <1>6, <2>2, SMTT(30) DEF SendResp
    <2>4. k1.reqList = rq /\ k1.respList = Pop(rs, s) /\ k1.outstandingResponses = Minus(out, s)
      BY <1>0, <2>1, <2>2, SentRespOK, ZenonT(40)
    <2>5. InFl(Pop(rs, s), rq, peer) = InFl(rs, rq, peer) \ {p} /\ p \in InFl(rs, rq, peer)
      <3>. HIDE DEF rq, rs
      <3>. QED
        BY ONLY <1>q, <2>1, s \in Ports, PopKeepsOnce
    <2>6. p.from = s /\ p.needsResponse
      <3>. HIDE DEF rq, rs
      <3>. QED
        <4>1. KResp(s, Head(rs[s]))
          BY ONLY <1>0, <2>1, s \in Ports, KindsPopResp, ZenonT(40)
        <4>. QED
          BY <4>1, Zenon DEF KResp
    <2>. HIDE DEF p, k1
    <2>7. InFl(rq, Pop(rs, s), peer) = F \ {p} /\ p \in F
      BY <2>5, OnceSym
    <2>8. F' = F \ {p} /\ out' = Free(out, p)
      BY <2>1, <2>3, <2>4, <2>6, <2>7, Zenon DEF Free
    <2>. HIDE DEF F
    <2>. QED
      BY <2>7, <2>8, Zenon DEF Moves, Goal
  <1>7. ASSUME NEW s \in Ports, RefuseResp(s) PROVE Goal
    <2>. DEFINE k1 == [b EXCEPT !.respSend[s] = "refused"]
    <2>1. b.respSend[s] # "idle" /\ b' = k1 /\ peer' = peer
      BY <1>7 DEF RefuseResp
    <2>2. k1.reqList = rq /\ k1.respList = rs /\ k1.outstandingResponses = out
      BY <1>0, <2>1, FlagsOK, ZenonT(40)
    <2>. HIDE DEF k1
    <2>. QED
      BY <1>k, <2>1, <2>2
  <1>8. CASE UNCHANGED vars
    BY <1>8, <1>k DEF vars
  <1>. QED
    BY <1>1, <1>2, <1>3, <1>4, <1>5, <1>6, <1>7, <1>8, Zenon
       DEF Next, Progress, PeerStep, SendReq

-----------------------------------------------------------------------------
(***************************************************************************)
(* A stall has a cause: what lowers a queue or a reservation below its     *)
(* limit ends the stalls that the limit may have caused.                   *)
(***************************************************************************)
Caused(k) ==
  \A s \in Ports :
    k.retryReq[s] => respQueueFull(k, s) \/ \E m \in Ports : reqQueueFull(k, m)

\* A step that leaves the stalls, the request queues and the reservations.
LEMMA CausedSame ==
  ASSUME NEW k, NEW k1, Caused(k), k1.retryReq = k.retryReq,
         k1.reqList = k.reqList, k1.outstandingResponses = k.outstandingResponses
  PROVE  Caused(k1)
  BY Zenon DEF Caused, respQueueFull, reqQueueFull

\* A request is admitted where nothing is full, and stalled where something is.
LEMMA CausedRecvReq ==
  ASSUME NEW k, BridgeOK(k), Caused(k), NEW s \in Ports, NEW p \in Packet
  PROVE  Caused(recvTimingReq(k, s, p))
  <1>. DEFINE k1 == recvTimingReq(k, s, p)
              m == getMasterPort(s, p)
              q == Sent(s, p)
  <1>0. k \in Bridge
    BY DEF BridgeOK
  <1>m. m \in Ports
    BY SentFacts, Zenon
  <1>1. CASE Admits(k, s, p)
    <2>1. /\ k1.reqList = App(k.reqList, m, q)
          /\ k1.outstandingResponses = Book(k.outstandingResponses, q)
      BY <1>1, RecvReqFields, Zenon
    <2>2. k1.retryReq = k.retryReq
      BY <1>0, <1>1, Zenon DEF recvTimingReq, schedTimingReq, reserve, Bridge
    <2>3. (p.needsResponse => ~ respQueueFull(k, s)) /\ ~ reqQueueFull(k, m)
      BY <1>1, Zenon DEF Admits
    <2>q. q.from = s /\ q.needsResponse = p.needsResponse
      BY SentFacts, Zenon
    <2>. HIDE DEF k1, m, q
    <2>4. ASSUME NEW t \in Ports, respQueueFull(k, t)
          PROVE  respQueueFull(k1, t)
      <3>1. t = s => ~ q.needsResponse
        BY <2>3, <2>4, <2>q, Zenon
      <3>2. k1.outstandingResponses[t] = k.outstandingResponses[t]
        <4>1. CASE q.needsResponse
          <5>1. k1.outstandingResponses = Plus(k.outstandingResponses, s) /\ t # s
            BY <2>1, <2>q, <3>1, <4>1, Zenon DEF Book
          <5>. QED
            BY <1>0, <5>1, Zenon DEF Plus, Bridge
        <4>2. CASE ~ q.needsResponse
          BY <2>1, <4>2, Zenon DEF Book
        <4>. QED
          BY <4>1, <4>2, Zenon
      <3>. QED
        BY <2>4, <3>2, Zenon DEF respQueueFull
    <2>5. ASSUME NEW i \in Ports, reqQueueFull(k, i)
          PROVE  reqQueueFull(k1, i)
      <3>1. i # m
        BY <2>3, <2>5, Zenon
      <3>2. k1.reqList[i] = k.reqList[i]
        BY <1>0, <2>1, <3>1, Zenon DEF App, Bridge
      <3>. QED
        BY <2>5, <3>2, Zenon DEF reqQueueFull
    <2>6. Caused(k1)
      BY <2>2, <2>4, <2>5, Zenon DEF Caused
    <2>. QED
      BY <2>6, Zenon DEF k1
  <1>2. CASE ~ Admits(k, s, p)
    <2>1. k1 = [k EXCEPT !.retryReq[s] = TRUE]
      BY <1>2, Zenon DEF recvTimingReq
    <2>2. /\ k1.retryReq = [k.retryReq EXCEPT ![s] = TRUE]
          /\ k1.reqList = k.reqList /\ k1.outstandingResponses = k.outstandingResponses
      BY <1>0, <2>1, Zenon DEF Bridge
    <2>3. respQueueFull(k, s) \/ \E i \in Ports : reqQueueFull(k, i)
      BY <1>2, <1>m, Zenon DEF Admits, Caused
    <2>. HIDE DEF k1, m
    <2>4. \A t \in Ports : t # s => k1.retryReq[t] = k.retryReq[t]
      BY <1>0, <2>2, Zenon DEF Bridge
    <2>5. Caused(k1)
      BY <2>2, <2>3, <2>4, Zenon DEF Caused, respQueueFull, reqQueueFull
    <2>. QED
      BY <2>5, Zenon DEF k1
  <1>. QED
    BY <1>1, <1>2, Zenon

\* A request that leaves ends every stall, a response those of its port.
LEMMA CausedSent ==
  ASSUME NEW k, BridgeOK(k), NEW i \in Ports
  PROVE  /\ Caused(sentReq(k, i))
         /\ Caused(k) => Caused(sentResp(k, i))
  <1>0. k \in Bridge
    BY DEF BridgeOK
  <1>1. sentReq(k, i).retryReq = [j \in Ports |-> FALSE]
    BY <1>0, Zenon DEF sentReq, retryStalledReq, Bridge
  <1>2. Caused(sentReq(k, i))
    BY <1>1, Zenon DEF Caused
  <1>. DEFINE k1 == sentResp(k, i)
  <1>3. /\ k1.retryReq = [k.retryReq EXCEPT ![i] = FALSE] /\ k1.reqList = k.reqList
        /\ k1.outstandingResponses = [k.outstandingResponses EXCEPT ![i] = @ - 1]
    BY <1>0, Zenon DEF sentResp, Bridge
  <1>. HIDE DEF k1
  <1>4. ~ k1.retryReq[i]
    BY <1>0, <1>3, Zenon DEF Bridge
  <1>5. \A t \in Ports : t # i => /\ k1.retryReq[t] = k.retryReq[t]
                                  /\ k1.outstandingResponses[t] = k.outstandingResponses[t]
    BY <1>0, <1>3, Zenon DEF Bridge
  <1>6. Caused(k) => Caused(k1)
    BY <1>3, <1>4, <1>5, Zenon DEF Caused, respQueueFull, reqQueueFull
  <1>. QED
    BY <1>2, <1>6, Zenon DEF k1

\* A response that arrives changes no limit.
LEMMA CausedRecvResp ==
  ASSUME NEW k, BridgeOK(k), Caused(k), NEW p
  PROVE  Caused(recvTimingResp(k, p))
  <1>0. k \in Bridge
    BY DEF BridgeOK
  <1>1. ASSUME NEW i
        PROVE  LET k1 == schedTimingResp(k, i, p)
               IN  /\ k1.retryReq = k.retryReq /\ k1.reqList = k.reqList
                   /\ k1.outstandingResponses = k.outstandingResponses
                   /\ [k1 EXCEPT !.routeTo[p.req] = NoPort].retryReq = k.retryReq
                   /\ [k1 EXCEPT !.routeTo[p.req] = NoPort].reqList = k.reqList
                   /\ [k1 EXCEPT !.routeTo[p.req] = NoPort].outstandingResponses
                        = k.outstandingResponses
    BY <1>0, Zenon DEF schedTimingResp, Bridge
  <1>2. LET k1 == recvTimingResp(k, p)
        IN  /\ k1.retryReq = k.retryReq /\ k1.reqList = k.reqList
            /\ k1.outstandingResponses = k.outstandingResponses
    BY <1>1, Zenon DEF recvTimingResp
  <1>. QED
    BY <1>2, CausedSame, Zenon

LEMMA CausedNext == Inv /\ Caused(b) /\ [Next]_vars => Caused(b')
  <1>. SUFFICES ASSUME Inv, Caused(b), [Next]_vars PROVE Caused(b')
    OBVIOUS
  <1>0. BridgeOK(b) /\ b \in Bridge
    BY InvIsSt, Zenon DEF St, BridgeOK
  <1>b. \A i \in Ports : b.reqSend[i] # "idle" => b.reqList[i] # <<>>
    BY <1>0, Zenon DEF BridgeOK
  <1>h. Host \in Ports /\ CXLLink \in Ports
    BY PortAssumption, Zenon DEF Ports
  <1>1. ASSUME NEW s \in Ports, NEW r \in Reqs, NEW o \in Offers(s), RecvReq(s, r, o)
        PROVE  Caused(b')
    <2>. DEFINE p == [req |-> r, type |-> o[1], dest |-> o[2], from |-> s,
                      needsResponse |-> o[3]]
    <2>1. b' = recvTimingReq(b, s, p)
      BY <1>1, Zenon DEF RecvReq
    <2>2. p \in Packet
      BY Zenon DEF Packet, Offers
    <2>. HIDE DEF p
    <2>. QED
      BY <1>0, <2>1, <2>2, CausedRecvReq, Zenon
  <1>2. ASSUME NEW m \in Ports, Taken(m, Head(b.reqList[m]))
        PROVE  Caused(b')
    BY <1>0, <1>2, CausedSent, Zenon DEF Taken
  <1>3. ASSUME NEW m \in Ports, RefuseReq(m)
        PROVE  Caused(b')
    <2>1. b' = [b EXCEPT !.reqSend[m] = "refused"]
      BY <1>3, Zenon DEF RefuseReq
    <2>2. /\ b'.retryReq = b.retryReq /\ b'.reqList = b.reqList
          /\ b'.outstandingResponses = b.outstandingResponses
      BY <1>0, <2>1, Zenon DEF Bridge
    <2>. QED
      BY <2>2, CausedSame, Zenon
  <1>4. ASSUME NEW m \in Ports, b.reqSend[m] # "idle", Missed(m, Head(b.reqList[m]))
        PROVE  Caused(b')
    <2>. DEFINE p == Head(b.reqList[Host])
                k1 == recvTimingReq(b, Host, p)
    <2>1. /\ b.reqList[Host] # <<>>
          /\ IF Admits(b, Host, p) THEN b' = sentReq(k1, Host) ELSE b' = k1
      BY <1>4, <1>b, <1>h, Zenon DEF Missed
    <2>2. p \in Packet
      BY <1>0, <1>h, <2>1, SMTT(30), Z3T(30) DEF Bridge
    <2>. HIDE DEF p
    <2>3. Caused(k1)
      BY <1>0, <1>h, <2>2, CausedRecvReq, Zenon
    <2>4. CASE Admits(b, Host, p)
      <3>1. BridgeOK(k1)
        BY <1>0, <1>h, <2>2, <2>4, RecvReqFields, Zenon
      <3>. HIDE DEF k1
      <3>. QED
        BY <1>h, <2>1, <2>4, <3>1, CausedSent, Zenon
    <2>. QED
      BY <2>1, <2>3, <2>4, Zenon
  <1>5. ASSUME NEW m \in Ports, NEW p, RecvResp(m, p)
        PROVE  Caused(b')
    BY <1>0, <1>5, CausedRecvResp, Zenon DEF RecvResp
  <1>6. ASSUME NEW p, TakeBack(p)
        PROVE  Caused(b')
    BY <1>6, Zenon DEF TakeBack
  <1>7. ASSUME NEW p, SnoopMissed(p)
        PROVE  Caused(b')
    <2>. DEFINE q == [p EXCEPT !.type = "CXLcacheH2DResp", !.dest = Host]
    <2>1. p \in peer[CXLLink] /\ b' = recvTimingReq(b, CXLLink, q)
      BY <1>7, Zenon DEF SnoopMissed
    <2>2. p \in Packet
      BY <1>h, <2>1, InvIsSt, Zenon DEF St, Good, Peers
    <2>3. q \in Packet
      BY <1>h, <2>2, Zenon DEF Packet, Types
    <2>. HIDE DEF q
    <2>. QED
      BY <1>0, <1>h, <2>1, <2>3, CausedRecvReq, Zenon
  <1>8. ASSUME NEW s \in Ports, SendResp(s)
        PROVE  Caused(b')
    <2>1. b' = b \/ b' = sentResp(b, s)
      BY <1>8, Zenon DEF SendResp
    <2>. QED
      BY <1>0, <2>1, CausedSent, Zenon
  <1>9. ASSUME NEW s \in Ports, RefuseResp(s)
        PROVE  Caused(b')
    <2>1. b' = [b EXCEPT !.respSend[s] = "refused"]
      BY <1>9, Zenon DEF RefuseResp
    <2>2. /\ b'.retryReq = b.retryReq /\ b'.reqList = b.reqList
          /\ b'.outstandingResponses = b.outstandingResponses
      BY <1>0, <2>1, Zenon DEF Bridge
    <2>. QED
      BY <2>2, CausedSame, Zenon
  <1>10. CASE UNCHANGED vars
    BY <1>10, Zenon DEF vars
  <1>. QED
    BY <1>1, <1>2, <1>3, <1>4, <1>5, <1>6, <1>7, <1>8, <1>9, <1>10, Zenon
       DEF Next, Progress, PeerStep, SendReq

-----------------------------------------------------------------------------
(***************************************************************************)
(* The initial states, and what follows.                                   *)
(***************************************************************************)
INSTANCE FiniteSetTheorems

LEMMA CardinalityIsLawful == CardinalityLaws
  BY FS_EmptySet, FS_CardinalityType, FS_AddElement, FS_RemoveElement, Zenon
     DEF CardinalityLaws

LEMMA InvInit == Init => Inv
  <1>. SUFFICES ASSUME Init PROVE Inv
    OBVIOUS
  <1>1. /\ b = NewBridge /\ peer = [i \in Ports |-> {}] /\ aborted = FALSE
    BY Zenon DEF Init
  <1>2. /\ b.reqList = [i \in Ports |-> <<>>] /\ b.respList = [i \in Ports |-> <<>>]
        /\ b.outstandingResponses = [i \in Ports |-> 0]
        /\ b.routeTo = [r \in Reqs |-> NoPort]
        /\ b.reqSend = [i \in Ports |-> "idle"] /\ b.respSend = [i \in Ports |-> "idle"]
    BY <1>1, Zenon DEF NewBridge
  <1>3. TypeOK
    <2>1. b \in Bridge
      <3>1. <<>> \in Seq(Packet) /\ 0 \in 0 .. respQueueLimit
        BY LimitAssumption, SMTT(30)
      <3>. QED
        BY <1>1, <3>1 DEF Bridge, NewBridge, SendState
    <2>2. \A i \in Ports : Len(b.reqList[i]) = 0
      BY <1>2, SMTT(30), Z3T(30)
    <2>3. \A i \in Ports : /\ b.reqSend[i] = "idle" /\ b.reqList[i] = <<>>
                           /\ b.respSend[i] = "idle" /\ b.respList[i] = <<>>
      BY <1>2
    <2>4. 0 <= reqQueueLimit
      BY LimitAssumption
    <2>5. peer \in [Ports -> SUBSET Packet] /\ aborted \in BOOLEAN
      BY <1>1, ZenonT(40)
    <2>. QED
      BY <2>1, <2>2, <2>3, <2>4, <2>5, ZenonT(40) DEF TypeOK
  <1>4. /\ \A i \in Ports : b.reqList[i] = <<>> /\ b.respList[i] = <<>> /\ peer[i] = {}
        /\ \A i \in Ports : Len(b.reqList[i]) = 0 /\ Len(b.respList[i]) = 0
    BY <1>1, <1>2, SMT, Z3T(30)
  <1>5. 1 .. 0 = {}
    BY SMTT(30)
  <1>6. Once(b.reqList, b.respList, peer)
    BY <1>4, <1>5, Zenon DEF Once, OnceIn, Apart, PeerOnce, PeerApart
  <1>7. Kinds(b.reqList, b.respList, peer)
    BY <1>4, <1>5, Zenon DEF Kinds
  <1>8. Routes(b.routeTo, peer)
    BY <1>2, <1>4, ZenonT(40) DEF Routes
  <1>c. Clear(b.routeTo, b.reqList) /\ Clear(b.routeTo, b.respList)
    BY <1>4, <1>5, Zenon DEF Clear
  <1>9. InFl(b.reqList, b.respList, peer) = {}
    <2>1. b.reqList \in Queues /\ b.respList \in Queues /\ peer \in Peers
      BY <1>3, ZenonT(40) DEF TypeOK, Bridge, Queues, Peers
    <2>. QED
      BY <1>4, <1>5, <2>1, InFlPlaces, SMTT(30), Z3T(30)
  <1>10. Cov({}, b.outstandingResponses)
    <2>1. \A s \in Ports : Of({}, s) = {}
      BY Zenon DEF Of
    <2>2. CardinalityLaws /\ IsFiniteSet({}) /\ Cardinality({}) = 0
      BY CardinalityIsLawful, Zenon DEF CardinalityLaws
    <2>3. \A s \in Ports : b.outstandingResponses[s] = 0
      BY <1>2, SMTT(30)
    <2>. QED
      BY <2>1, <2>2, <2>3 DEF Cov
  <1>. QED
    BY <1>3, <1>6, <1>7, <1>8, <1>9, <1>10, <1>c, ZenonT(40) DEF Inv

\* A request is in one place at a time, in the places its kind belongs to; the
\* routing table and the reservations agree with where the requests are.
THEOREM InvAlways == Spec => []Inv
  BY InvInit, InvNext, PTL DEF Spec

\* A port never reserves more responses than its queue holds, a request queue
\* never outgrows its limit and no sendEvent is scheduled twice.
THEOREM TypeCorrect == Spec => []TypeOK
  <1>1. Inv => TypeOK
    BY Zenon DEF Inv
  <1>. QED
    BY <1>1, InvAlways, PTL

\* Every request on its way has room reserved for its response, so accepting
\* every response, as MasterPort::recvTimingResp does, is right.
THEOREM ReservationsSuffice == Spec => []ReservationsCover
  <1>1. Inv => ReservationsCover
    <2>1. InFlight = InFl(b.reqList, b.respList, peer)
      BY DEF InFlight, InBridge, InFl
    <2>2. \A s \in Ports : Owed(s) = Of(InFl(b.reqList, b.respList, peer), s)
      BY <2>1, Zenon DEF Owed, Of
    <2>. QED
      BY <2>2, Zenon DEF Inv, Cov, ReservationsCover
  <1>. QED
    BY <1>1, InvAlways, PTL

\* recvTimingResp finds the entry it dereferences, and it names the port that
\* admitted the request; trySendTiming finds no entry where it makes one; and
\* an entry that nobody will use is one of slavePort_DMA2.
THEOREM RoutesAreKnown == Spec => []RoutesKnown
  <1>1. Inv => RoutesKnown
    <2>. SUFFICES ASSUME Inv, NEW r \in Reqs
                  PROVE  LET held == {p \in UNION {peer[i] : i \in Ports} :
                                        p.req = r /\ p.type \notin Unrouted}
                         IN  /\ \A p \in held : b.routeTo[r] = p.from
                             /\ \A p \in InBridge(b) : p.req = r => b.routeTo[r] = NoPort
                             /\ held = {} => b.routeTo[r] \in {NoPort, CXLLink}
      BY Zenon DEF RoutesKnown
    <2>. DEFINE held == {p \in UNION {peer[i] : i \in Ports} :
                           p.req = r /\ p.type \notin Unrouted}
    <2>1. /\ Routes(b.routeTo, peer)
          /\ Clear(b.routeTo, b.reqList) /\ Clear(b.routeTo, b.respList)
      BY Zenon DEF Inv
    <2>2. \A p : p \in held <=> /\ \E i \in Ports : p \in peer[i]
                               /\ p.req = r /\ p.type \notin Unrouted
      BY Zenon
    <2>. HIDE DEF held
    <2>3. \A p \in held : b.routeTo[r] = p.from
      BY <2>1, <2>2, Zenon DEF Routes, Entry
    <2>4. b.routeTo[r] \notin {NoPort, CXLLink} => held # {}
      BY <2>1, <2>2, Zenon DEF Routes
    <2>5. ASSUME NEW p \in InBridge(b), p.req = r PROVE b.routeTo[r] = NoPort
      <3>1. PICK i \in Ports : p \in Range(b.reqList[i]) \/ p \in Range(b.respList[i])
        BY Zenon DEF InBridge
      <3>2. b.reqList[i] \in Seq(Packet) /\ b.respList[i] \in Seq(Packet)
        BY DEF Inv, TypeOK, Bridge
      <3>3. ASSUME NEW q \in Seq(Packet), p \in Range(q)
            PROVE  \E n \in 1 .. Len(q) : p = q[n]
        BY <3>3 DEF Range
      <3>. QED
        BY <2>1, <2>5, <3>1, <3>2, <3>3, ZenonT(40) DEF Clear
    <2>. QED
      BY <2>3, <2>4, <2>5, Zenon DEF held
  <1>. QED
    BY <1>1, InvAlways, PTL

\* A response is queued at the slave port that admitted its request, the ones
\* that the code sends to a fixed port included.
THEOREM AnswersGoHome == Spec => []ResponsesGoHome
  <1>1. Inv => ResponsesGoHome
    <2>. SUFFICES ASSUME Inv, NEW s \in Ports, NEW p \in Range(b.respList[s])
                  PROVE  p.from = s
      BY Zenon DEF ResponsesGoHome
    <2>1. b.respList[s] \in Seq(Packet)
      BY DEF Inv, TypeOK, Bridge
    <2>2. PICK n \in 1 .. Len(b.respList[s]) : p = b.respList[s][n]
      BY <2>1 DEF Range
    <2>3. Kinds(b.reqList, b.respList, peer)
      BY SMTT(30) DEF Inv
    <2>. QED
      BY <2>2, <2>3, Zenon DEF Kinds, KResp
  <1>. QED
    BY <1>1, InvAlways, PTL

ExactInv == AllRouted(OnTheWay) /\ Exact(OnTheWay, b.outstandingResponses)

\* Where no peer starts a coherence check or a snoop, SlavePort::trySendTiming
\* gives back every place that recvTimingReq reserved: a port never holds a
\* reservation for a request that is no longer on its way.
THEOREM ReservationsAreExact ==
  ASSUME Traffic \cap Unrouted = {}
  PROVE  Spec => []ReservationsExact
  <1>1. Init => ExactInv
    <2>. SUFFICES ASSUME Init PROVE ExactInv
      OBVIOUS
    <2>1. Inv
      BY InvInit, Zenon
    <2>2. /\ \A i \in Ports : b.reqList[i] = <<>> /\ b.respList[i] = <<>> /\ peer[i] = {}
          /\ \A s \in Ports : b.outstandingResponses[s] = 0
      BY Zenon DEF Init, NewBridge
    <2>3. b.reqList \in Queues /\ b.respList \in Queues /\ peer \in Peers
      BY <2>1, InvIsSt, Zenon DEF St, Good
    <2>4. Len(<<>>) = 0 /\ 1 .. 0 = {}
      BY SMTT(30), Z3T(30)
    <2>5. OnTheWay = {}
      BY <2>2, <2>3, <2>4, InFlPlaces, SMTT(30), Z3T(30) DEF OnTheWay
    <2>6. \A s \in Ports : Of({}, s) = {}
      BY Zenon DEF Of
    <2>. QED
      BY <2>2, <2>5, <2>6, CardinalityIsLawful, ZenonT(40)
         DEF ExactInv, AllRouted, Exact, CardinalityLaws
  <1>2. Inv /\ ExactInv /\ [Next]_vars => ExactInv'
    <2>. SUFFICES ASSUME Inv, ExactInv, [Next]_vars PROVE ExactInv'
      OBVIOUS
    <2>1. Moves(OnTheWay, b.outstandingResponses, OnTheWay', b.outstandingResponses')
      BY Traffic \cap Unrouted = {}, StepMoves, Zenon DEF ExactInv
    <2>2. /\ b.reqList \in Queues /\ b.respList \in Queues /\ peer \in Peers
          /\ b.outstandingResponses \in [Ports -> Int]
      BY InvIsSt, Zenon DEF St, Good
    <2>3. OnTheWay \in SUBSET Packet
      <3>1. ASSUME NEW p \in InFl(b.reqList, b.respList, peer) PROVE p \in Packet
        <4>1. PICK i \in Ports : \/ \E n \in 1 .. Len(b.reqList[i]) : p = b.reqList[i][n]
                                 \/ \E n \in 1 .. Len(b.respList[i]) : p = b.respList[i][n]
                                 \/ p \in peer[i]
          BY <2>2, InFlPlaces, ZenonT(40)
        <4>2. /\ b.reqList[i] \in Seq(Packet) /\ b.respList[i] \in Seq(Packet)
              /\ peer[i] \in SUBSET Packet
          BY <2>2, Zenon DEF Queues, Peers
        <4>. QED
          BY <4>1, <4>2
      <3>. QED
        BY <3>1, Zenon DEF OnTheWay
    <2>. QED
      BY <2>1, <2>2, <2>3, ExactMoves, Zenon DEF ExactInv
  <1>3. ExactInv => ReservationsExact
    <2>1. InFlight = OnTheWay
      BY DEF InFlight, InBridge, InFl, OnTheWay
    <2>2. \A s \in Ports : Owed(s) = Of(OnTheWay, s)
      BY <2>1 DEF Owed, Of
    <2>. QED
      BY <2>2, Zenon DEF ExactInv, Exact, ReservationsExact
  <1>. QED
    BY <1>1, <1>2, <1>3, InvAlways, PTL DEF Spec

\* A slave port keeps its peer waiting only while a request queue or its own
\* reservations are at their limit, for any traffic and any refusals: what makes
\* room in trySendTiming, of either kind of port, ends the stall.
THEOREM StallsHaveCauses == Spec => []StallHasCause
  <1>1. Caused(b) <=> StallHasCause
    BY Zenon DEF Caused, StallHasCause
  <1>2. Init => Caused(b)
    <2>. SUFFICES ASSUME Init PROVE Caused(b)
      OBVIOUS
    <2>1. b.retryReq = [i \in Ports |-> FALSE]
      BY Zenon DEF Init, NewBridge
    <2>. QED
      BY <2>1, Zenon DEF Caused
  <1>3. Inv /\ Caused(b) /\ [Next]_vars => Caused(b)'
    BY CausedNext, Zenon
  <1>. QED
    BY <1>1, <1>2, <1>3, InvAlways, PTL DEF Spec

\* Where no peer starts a coherence check or a snoop, a stalled port waits for
\* a packet that is under way, never for a reservation that nobody holds.
THEOREM StallsArePending ==
  ASSUME Traffic \cap Unrouted = {}
  PROVE  Spec => []StalledIsPending
  <1>1. Inv /\ StallHasCause /\ ReservationsExact => StalledIsPending
    <2>. SUFFICES ASSUME Inv, StallHasCause, ReservationsExact, NEW s \in Ports,
                         b.retryReq[s]
                  PROVE  Owed(s) # {} \/ \E m \in Ports : b.reqList[m] # <<>>
      BY Zenon DEF StalledIsPending
    <2>1. CASE respQueueFull(b, s)
      <3>1. Cardinality(Owed(s)) = respQueueLimit
        BY <2>1, Zenon DEF respQueueFull, ReservationsExact
      <3>2. Cardinality({}) = 0
        BY CardinalityIsLawful, Zenon DEF CardinalityLaws
      <3>3. respQueueLimit # 0
        BY LimitAssumption, Zenon
      <3>. QED
        BY <3>1, <3>2, <3>3, Zenon
    <2>2. ASSUME NEW m \in Ports, reqQueueFull(b, m)
          PROVE  b.reqList[m] # <<>>
      <3>1. Len(b.reqList[m]) = reqQueueLimit /\ reqQueueLimit # 0
        BY <2>2, LimitAssumption, Zenon DEF reqQueueFull
      <3>2. Len(<<>>) = 0
        BY SMTT(30), Z3T(30)
      <3>. QED
        BY <3>1, <3>2, Zenon
    <2>. QED
      BY <2>1, <2>2, Zenon DEF StallHasCause
  <1>2. Spec => []ReservationsExact
    BY Traffic \cap Unrouted = {}, ReservationsAreExact, Zenon
  <1>. QED
    BY <1>1, <1>2, InvAlways, StallsHaveCauses, PTL

=============================================================================
