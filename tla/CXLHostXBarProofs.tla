------------------------- MODULE CXLHostXBarProofs -------------------------
(***************************************************************************)
(* For every number of caches, requests and lines: the routing table of    *)
(* CXLHostXBar is exact, a refused port stands in exactly one line, and    *)
(* every line is woken.                                                    *)
(***************************************************************************)
EXTENDS CXLHostXBar, TLAPS

-----------------------------------------------------------------------------
(***************************************************************************)
(* The lines of ports in front of the layers.  S are the ports that may    *)
(* wait, w[p] is what port p waits to send.                                *)
(***************************************************************************)
LineOK(layers, S, w) ==
  \A p \in S : (w[p] # None <=> Waits(layers, p)) /\ NotTwice(layers, p)

\* The layers of a crossbar, all from the ports in S.
Layers(M, S) == [M -> Layer(S)]

\* What Append, \o and Tail do to a line.
LEMMA SeqFacts ==
  ASSUME NEW S, NEW s \in Seq(S), NEW e \in S
  PROVE  /\ Append(s, e) \in Seq(S)
         /\ Len(Append(s, e)) = Len(s) + 1
         /\ \A i \in 1 .. Len(s) : Append(s, e)[i] = s[i]
         /\ Append(s, e)[Len(s) + 1] = e
         /\ <<e>> \o s \in Seq(S)
         /\ Len(<<e>> \o s) = Len(s) + 1
         /\ (<<e>> \o s)[1] = e
         /\ \A i \in 1 .. Len(s) : (<<e>> \o s)[i + 1] = s[i]
         /\ s # <<>> => /\ Head(s) \in S
                        /\ Head(s) = s[1]
                        /\ Tail(s) \in Seq(S)
                        /\ Len(Tail(s)) = Len(s) - 1
                        /\ Len(s) >= 1
                        /\ \A i \in 1 .. Len(s) - 1 : Tail(s)[i] = s[i + 1]
  OBVIOUS

\* A change of state alone moves nobody.
LEMMA SameLines ==
  ASSUME NEW M, NEW S, NEW layers \in Layers(M, S), NEW w, LineOK(layers, S, w),
         NEW m \in M, NEW l \in Layer(S),
         l.waitingForLayer = layers[m].waitingForLayer,
         l.waitingForPeer = layers[m].waitingForPeer
  PROVE  LineOK([layers EXCEPT ![m] = l], S, w)
<1> DEFINE new == [layers EXCEPT ![m] = l]
<1>1. \A n \in M : Places(new[n]) = Places(layers[n])
  BY DEF Places, Layers
<1>2. \A n \in M : \A i \in Places(layers[n]) : Place(new[n], i) = Place(layers[n], i)
  BY DEF Place, Layers
<1>3. DOMAIN new = M /\ DOMAIN layers = M
  BY DEF Layers
<1> HIDE DEF new
<1>4. \A p \in S : Waits(new, p) <=> Waits(layers, p)
  BY <1>1, <1>2, <1>3, Zenon DEF Waits
<1>5. \A p \in S : NotTwice(new, p) <=> NotTwice(layers, p)
  BY <1>1, <1>2, <1>3 DEF NotTwice
<1> QED
  BY <1>4, <1>5, Zenon DEF LineOK, new

\* Port p gets in line for layer m, at place q: all other places stay.
LEMMA JoinLine ==
  ASSUME NEW M, NEW S, None \notin S, NEW layers \in Layers(M, S),
         NEW w \in [S -> Reqs \cup {None}], LineOK(layers, S, w),
         NEW m \in M, NEW l \in Layer(S), NEW p \in S, w[p] = None,
         NEW r \in Reqs, None \notin Reqs,
         NEW q \in Places(l), Place(l, q) = p,
         \A i \in Places(l) : i # q =>
           i \in Places(layers[m]) /\ Place(l, i) = Place(layers[m], i),
         \A i \in Places(layers[m]) : i \in Places(l),
         q \in Places(layers[m]) => Place(layers[m], q) = None
  PROVE  LineOK([layers EXCEPT ![m] = l], S, [w EXCEPT ![p] = r])
<1> DEFINE new == [layers EXCEPT ![m] = l]
           w2 == [w EXCEPT ![p] = r]
<1>1. DOMAIN new = M /\ DOMAIN layers = M /\ new[m] = l
  BY DEF Layers
<1>2. \A n \in M : n # m => new[n] = layers[n]
  BY DEF Layers
<1>3. ~ Waits(layers, p)
  BY DEF LineOK
<1> SUFFICES ASSUME NEW a \in S
             PROVE  (w2[a] # None <=> Waits(new, a)) /\ NotTwice(new, a)
  BY Zenon DEF LineOK
<1> HIDE DEF new
<1>4. CASE a = p
  <2>1. Waits(new, p)
    BY <1>1 DEF Waits
  <2>2. \A n \in M : \A i \in Places(new[n]) : Place(new[n], i) = p => n = m /\ i = q
    BY <1>1, <1>2, <1>3 DEF Waits
  <2>3. NotTwice(new, p)
    BY <2>2, <1>1 DEF NotTwice
  <2> QED
    BY <1>4, <2>1, <2>3
<1>5. CASE a # p
  <2>1. \A n \in M : \A i \in Places(new[n]) :
          Place(new[n], i) = a => i \in Places(layers[n]) /\ Place(layers[n], i) = a
    BY <1>1, <1>2, <1>5
  <2>2. \A n \in M : \A i \in Places(layers[n]) :
          Place(layers[n], i) = a => i \in Places(new[n]) /\ Place(new[n], i) = a
    BY <1>1, <1>2, <1>5
  <2>3. Waits(new, a) <=> Waits(layers, a)
    BY <2>1, <2>2, <1>1, SMTT(30), Z3T(30) DEF Waits
  <2>4. NotTwice(layers, a)
    BY DEF LineOK
  <2>5. NotTwice(new, a)
    BY <2>1, <2>4, <1>1 DEF NotTwice
  <2> QED
    BY <2>3, <2>5, <1>5 DEF LineOK
<1> QED
  BY <1>4, <1>5

\* wait and failedTiming put a port in line.
LEMMA WaitJoins ==
  ASSUME NEW M, NEW S, None \notin S, NEW layers \in Layers(M, S),
         NEW w \in [S -> Reqs \cup {None}], LineOK(layers, S, w),
         NEW m \in M, NEW p \in S, w[p] = None, NEW r \in Reqs, None \notin Reqs
  PROVE  /\ wait(layers[m], p) \in Layer(S)
         /\ LineOK([layers EXCEPT ![m] = wait(@, p)], S, [w EXCEPT ![p] = r])
<1> DEFINE l == layers[m]
           s == layers[m].waitingForLayer
           l2 == wait(layers[m], p)
<1>1. l \in Layer(S) /\ s \in Seq(S)
  BY DEF Layers, Layer
<1>2. l2 \in Layer(S) /\ l2.waitingForLayer = Append(s, p) /\ l2.waitingForPeer = l.waitingForPeer
  BY <1>1, SeqFacts, Zenon DEF wait, Layer
<1>3. /\ Len(s) \in Nat /\ Len(Append(s, p)) = Len(s) + 1
      /\ \A i \in 1 .. Len(s) : Append(s, p)[i] = s[i]
      /\ Append(s, p)[Len(s) + 1] = p
  BY <1>1, SeqFacts
<1> DEFINE q == Len(s) + 1
<1>4. q \in Places(l2) /\ Place(l2, q) = p
  BY <1>2, <1>3 DEF Places, Place
<1>5. \A i \in Places(l2) : i # q => i \in Places(l) /\ Place(l2, i) = Place(l, i)
  BY <1>2, <1>3 DEF Places, Place
<1>6. \A i \in Places(l) : i \in Places(l2)
  BY <1>2, <1>3 DEF Places
<1>7. q \notin Places(l)
  BY <1>3 DEF Places
<1>8. [layers EXCEPT ![m] = wait(@, p)] = [layers EXCEPT ![m] = l2]
  OBVIOUS
<1> HIDE DEF l2, q
<1> QED
  BY <1>2, <1>4, <1>5, <1>6, <1>7, <1>8, JoinLine, ZenonT(40) DEF l2

LEMMA FailJoins ==
  ASSUME NEW M, NEW S, None \notin S, NEW layers \in Layers(M, S),
         NEW w \in [S -> Reqs \cup {None}], LineOK(layers, S, w),
         NEW m \in M, NEW p \in S, w[p] = None, NEW r \in Reqs, None \notin Reqs,
         layers[m].waitingForPeer = None
  PROVE  /\ failedTiming(layers[m], p) \in Layer(S)
         /\ LineOK([layers EXCEPT ![m] = failedTiming(@, p)], S, [w EXCEPT ![p] = r])
<1> DEFINE l == layers[m]
           l2 == failedTiming(layers[m], p)
<1>1. l \in Layer(S) /\ l.waitingForLayer \in Seq(S)
  BY DEF Layers, Layer
<1>2. l2 \in Layer(S) /\ l2.waitingForLayer = l.waitingForLayer /\ l2.waitingForPeer = p
  BY <1>1, Zenon DEF failedTiming, Layer
<1>3. 0 \in Places(l2) /\ Place(l2, 0) = p /\ Places(l2) = Places(l)
  BY <1>1, <1>2 DEF Places, Place
<1>4. \A i \in Places(l2) : i # 0 => i \in Places(l) /\ Place(l2, i) = Place(l, i)
  BY <1>2, <1>3 DEF Place
<1>5. Place(l, 0) = None
  BY DEF Place
<1>6. [layers EXCEPT ![m] = failedTiming(@, p)] = [layers EXCEPT ![m] = l2]
  OBVIOUS
<1> HIDE DEF l2
<1> QED
  BY <1>2, <1>3, <1>4, <1>5, <1>6, JoinLine, Zenon DEF l2

\* recvRetry moves the port that the peer refused to the front of the line.
LEMMA RetryMoves ==
  ASSUME NEW M, NEW S, None \notin S, NEW layers \in Layers(M, S), NEW w,
         LineOK(layers, S, w), NEW m \in M, layers[m].waitingForPeer # None
  PROVE  /\ recvRetry(layers[m]) \in Layer(S)
         /\ LineOK([layers EXCEPT ![m] = recvRetry(@)], S, w)
<1> DEFINE l == layers[m]
           s == layers[m].waitingForLayer
           e == layers[m].waitingForPeer
           l2 == recvRetry(layers[m])
           new == [layers EXCEPT ![m] = l2]
<1>1. l \in Layer(S) /\ s \in Seq(S) /\ e \in S
  BY DEF Layers, Layer
<1>2. /\ Len(s) \in Nat /\ <<e>> \o s \in Seq(S) /\ Len(<<e>> \o s) = Len(s) + 1
      /\ (<<e>> \o s)[1] = e /\ \A i \in 1 .. Len(s) : (<<e>> \o s)[i + 1] = s[i]
  BY <1>1, SeqFacts
<1>3. l2 \in Layer(S) /\ l2.waitingForLayer = <<e>> \o s /\ l2.waitingForPeer = None
  BY <1>1, <1>2, Zenon DEF recvRetry, Layer
<1>4. [layers EXCEPT ![m] = recvRetry(@)] = new
  OBVIOUS
<1>5. DOMAIN new = M /\ DOMAIN layers = M /\ new[m] = l2
  BY DEF Layers
<1>6. \A n \in M : n # m => new[n] = layers[n]
  BY DEF Layers
<1> SUFFICES ASSUME NEW a \in S
             PROVE  (w[a] # None <=> Waits(new, a)) /\ NotTwice(new, a)
  BY <1>3, <1>4, Zenon DEF LineOK
<1>7. \A i \in Places(l2) : Place(l2, i) = a =>
        i - 1 \in Places(l) /\ Place(l, i - 1) = a
  BY <1>2, <1>3 DEF Places, Place
<1>8. \A i \in Places(l) : Place(l, i) = a =>
        i + 1 \in Places(l2) /\ Place(l2, i + 1) = a
  BY <1>2, <1>3 DEF Places, Place
<1>9. Places(l) \subseteq Int /\ \A n \in M : Places(new[n]) \subseteq Int
  BY DEF Places
<1> HIDE DEF new, l2, l
<1>10. Waits(new, a) <=> Waits(layers, a)
  BY <1>5, <1>6, <1>7, <1>8, Zenon DEF Waits, l
<1>11. NotTwice(layers, a)
  BY DEF LineOK
<1>12. NotTwice(new, a)
  <2> SUFFICES ASSUME NEW n1 \in M, NEW n2 \in M,
                      NEW i \in Places(new[n1]), NEW j \in Places(new[n2]),
                      Place(new[n1], i) = a, Place(new[n2], j) = a
               PROVE  n1 = n2 /\ i = j
    BY <1>5 DEF NotTwice
  <2>1. CASE n1 = m /\ n2 = m
    BY <2>1, <1>5, <1>7, <1>9, <1>11 DEF NotTwice, l
  <2>2. CASE n1 # m /\ n2 # m
    BY <2>2, <1>5, <1>6, <1>11 DEF NotTwice
  <2>3. CASE n1 = m /\ n2 # m
    BY <2>3, <1>5, <1>6, <1>7, <1>11 DEF NotTwice, l
  <2>4. CASE n1 # m /\ n2 = m
    BY <2>4, <1>5, <1>6, <1>7, <1>11 DEF NotTwice, l
  <2> QED
    BY <2>1, <2>2, <2>3, <2>4
<1> QED
  BY <1>10, <1>12 DEF LineOK

\* popWaiting takes the first port out of all lines.
LEMMA PopLeaves ==
  ASSUME NEW M, NEW S, None \notin S, NEW layers \in Layers(M, S),
         NEW w \in [S -> Reqs \cup {None}], LineOK(layers, S, w),
         NEW m \in M, layers[m].waitingForPeer = None, layers[m].waitingForLayer # <<>>
  PROVE  LET c == Head(layers[m].waitingForLayer)
         IN  /\ c \in S /\ w[c] \in Reqs
             /\ popWaiting(layers[m]) \in Layer(S)
             /\ LineOK([layers EXCEPT ![m] = popWaiting(@)], S, [w EXCEPT ![c] = None])
<1> DEFINE l == layers[m]
           s == layers[m].waitingForLayer
           c == Head(s)
           l2 == popWaiting(layers[m])
           new == [layers EXCEPT ![m] = l2]
           w2 == [w EXCEPT ![c] = None]
<1>1. l \in Layer(S) /\ s \in Seq(S)
  BY DEF Layers, Layer
<1>2. /\ Len(s) \in Nat /\ Len(s) >= 1 /\ c \in S /\ c = s[1]
      /\ Tail(s) \in Seq(S) /\ Len(Tail(s)) = Len(s) - 1
      /\ \A i \in 1 .. Len(s) - 1 : Tail(s)[i] = s[i + 1]
  <2>1. PICK e \in S : TRUE
    BY <1>1
  <2> QED
    BY <2>1, <1>1, SeqFacts
<1>3. l2 \in Layer(S) /\ l2.waitingForLayer = Tail(s) /\ l2.waitingForPeer = None
  BY <1>1, <1>2, Zenon DEF popWaiting, Layer
<1>4. [layers EXCEPT ![m] = popWaiting(@)] = new
  OBVIOUS
<1>5. DOMAIN new = M /\ DOMAIN layers = M /\ new[m] = l2
  BY DEF Layers
<1>6. \A n \in M : n # m => new[n] = layers[n]
  BY DEF Layers
<1>7. 1 \in Places(l) /\ Place(l, 1) = c
  BY <1>2 DEF Places, Place
<1>8. w[c] \in Reqs
  <2>1. Waits(layers, c)
    BY <1>5, <1>7, Zenon DEF Waits
  <2> QED
    BY <2>1, <1>2 DEF LineOK
<1>9. ASSUME NEW a \in S
      PROVE  (w2[a] # None <=> Waits(new, a)) /\ NotTwice(new, a)
  <2>1. \A i \in Places(l2) : Place(l2, i) = a =>
          i >= 1 /\ i + 1 \in Places(l) /\ Place(l, i + 1) = a
    BY <1>2, <1>3 DEF Places, Place
  <2>2. \A i \in Places(l) : Place(l, i) = a /\ a # c =>
          i - 1 \in Places(l2) /\ Place(l2, i - 1) = a
    BY <1>2, <1>3, SMT, Z3T(30) DEF Places, Place
  <2>3. \A n \in M : Places(new[n]) \subseteq Int
    BY DEF Places
  <2>4. NotTwice(layers, a)
    BY DEF LineOK
  <2> HIDE DEF new, l2, l
  <2>5. NotTwice(new, a)
    <3> SUFFICES ASSUME NEW n1 \in M, NEW n2 \in M,
                        NEW i \in Places(new[n1]), NEW j \in Places(new[n2]),
                        Place(new[n1], i) = a, Place(new[n2], j) = a
                 PROVE  n1 = n2 /\ i = j
      BY <1>5 DEF NotTwice
    <3>1. CASE n1 = m /\ n2 = m
      BY <3>1, <1>5, <2>1, <2>3, <2>4 DEF NotTwice, l
    <3>2. CASE n1 # m /\ n2 # m
      BY <3>2, <1>5, <1>6, <2>4 DEF NotTwice
    <3>3. CASE n1 = m /\ n2 # m
      BY <3>3, <1>5, <1>6, <2>1, <2>4 DEF NotTwice, l
    <3>4. CASE n1 # m /\ n2 = m
      BY <3>4, <1>5, <1>6, <2>1, <2>4 DEF NotTwice, l
    <3> QED
      BY <3>1, <3>2, <3>3, <3>4
  <2>6. CASE a = c
    <3>1. ASSUME Waits(new, a) PROVE FALSE
      <4>0. PICK n \in M : \E i \in Places(new[n]) : Place(new[n], i) = a
        BY <3>1, <1>5, Zenon DEF Waits
      <4>1. PICK i \in Places(new[n]) : Place(new[n], i) = a
        BY <4>0
      <4>2. CASE n = m
        BY <4>1, <4>2, <2>1, <2>3, <2>4, <2>6, <1>5, <1>7 DEF NotTwice, l
      <4>3. CASE n # m
        BY <4>1, <4>3, <2>4, <2>6, <1>5, <1>6, <1>7 DEF NotTwice, l
      <4> QED
        BY <4>2, <4>3
    <3> QED
      BY <3>1, <2>5, <2>6
  <2>7. CASE a # c
    <3>1. Waits(new, a) <=> Waits(layers, a)
      BY <1>5, <1>6, <2>1, <2>2, <2>7, Zenon DEF Waits, l
    <3> QED
      BY <3>1, <2>5, <2>7 DEF LineOK
  <2> QED
    BY <2>6, <2>7
<1> HIDE DEF new, w2
<1>10. LineOK(new, S, w2)
  BY <1>9 DEF LineOK
<1> QED
  BY <1>2, <1>3, <1>4, <1>8, <1>10, Zenon DEF w2

-----------------------------------------------------------------------------
(***************************************************************************)
(* The inductive invariant, as predicates on a crossbar k, the packets pk, *)
(* the blocked ports bl and the held responses hr, so that they apply to   *)
(* the crossbar in the middle of a handler too.                            *)
(***************************************************************************)
Typed(k, pk, bl, hr) ==
  /\ k \in XBar
  /\ pk \in [Reqs -> Packet \cup {None}]
  /\ bl \in [CpuSide -> Reqs \cup {None}]
  /\ hr \in [CpuSide \cup MemSide -> Reqs \cup {None}]

ReqLines(k, bl) == LineOK(k.reqLayers, CpuSide, bl)
RespLines(k, hr) == LineOK(k.respLayers, CpuSide \cup MemSide, hr)

\* Nobody waits for a free request layer; but layer m may be in retryWaiting.
ReqAwake(k, m) ==
  \A n \in MemSide :
    n # m /\ k.reqLayers[n].waitingForLayer # <<>> => ~ free(k.reqLayers[n])

\* A response layer never waits for its peer, and every port in its line has
\* an answer for it.
RespAwake(k, hr) ==
  \A c \in CpuSide :
    LET l == k.respLayers[c]
    IN  /\ l.waitingForPeer = None
        /\ l.waitingForLayer # <<>> => l.state = "BUSY"
        /\ \A i \in 1 .. Len(l.waitingForLayer) :
             k.routeTo[hr[l.waitingForLayer[i]]] = c

\* Somebody owes the answer to packet p.
Passed(p) == p # None /\ p.at # p.src

RouteOK(k, r, p) ==
  /\ k.routeTo[r] = IF Passed(p) THEN p.src ELSE None
  /\ r \in k.outstandingSnoop <=> Passed(p) /\ p.at \in CpuSide

\* Only what needs a response is owed one, and a peer below never holds an
\* upgrade.
PassedOK(p) ==
  Passed(p) => needsResponse(p) /\ (p.at \in MemSide => p.cmd # "UpgradeReq")

\* A refused request is at its source, and none of those that the I/O cache
\* passes on.
RefusedOK(c, p) ==
  p # None /\ p.src = c /\ p.at = c /\ p.type \in {"Default", "CXLcacheH2DReq"}

\* A held response is at the port that holds it; a snoop of the device whose
\* answer is held is not taken back.
HeldOK(f, p) ==
  Passed(p) /\ p.at = f /\ (f = RC => p.type # "CXLcacheH2DReq")

PacketsOK(k, pk, bl, hr) ==
  /\ \A r \in Reqs : RouteOK(k, r, pk[r]) /\ PassedOK(pk[r])
  /\ \A c \in CpuSide : bl[c] # None => RefusedOK(c, pk[bl[c]])
  /\ \A f \in CpuSide \cup MemSide : hr[f] # None => HeldOK(f, pk[hr[f]])

MidOK(k, pk, bl, hr, m) ==
  /\ Typed(k, pk, bl, hr)
  /\ ReqLines(k, bl)
  /\ RespLines(k, hr)
  /\ ReqAwake(k, m)
  /\ RespAwake(k, hr)
  /\ PacketsOK(k, pk, bl, hr)

StateOK(k, pk, bl, hr) == MidOK(k, pk, bl, hr, None)

Inv == StateOK(x, pkt, blocked, heldResp) /\ aborted \in BOOLEAN

\* The invariant holds at the start.
LEMMA InitInv == Init => Inv
<1> SUFFICES ASSUME Init PROVE Inv
  OBVIOUS
<1> USE PortAssumption DEF Init
<1>1. NewLayer \in Layer(CpuSide) /\ NewLayer \in Layer(MemSide \cup CpuSide)
  BY DEF NewLayer, Layer
<1>2. Typed(x, pkt, blocked, heldResp)
  BY <1>1 DEF Typed, XBar
<1>3. \A S : \A p \in S : None \notin S =>
        \A i \in Places(NewLayer) : Place(NewLayer, i) # p
  BY DEF Places, Place, NewLayer
<1>4. ReqLines(x, blocked)
  BY <1>3 DEF ReqLines, LineOK, Waits, NotTwice, CpuSide
<1>5. RespLines(x, heldResp)
  BY <1>3 DEF RespLines, LineOK, Waits, NotTwice
<1>6. ReqAwake(x, None) /\ RespAwake(x, heldResp)
  BY DEF ReqAwake, RespAwake, NewLayer
<1>7. PacketsOK(x, pkt, blocked, heldResp)
  BY DEF PacketsOK, RouteOK, PassedOK, Passed
<1> QED
  BY <1>2, <1>4, <1>5, <1>6, <1>7, Zenon DEF Inv, StateOK, MidOK

\* The invariant is what the properties say, and more.
LEMMA InvImplies == Inv => TypeOK /\ WaitsOnce /\ WaitersAreWoken /\ RoutesKnown
<1> SUFFICES ASSUME Inv PROVE TypeOK /\ WaitsOnce /\ WaitersAreWoken /\ RoutesKnown
  OBVIOUS
<1>1. TypeOK
  BY DEF Inv, StateOK, MidOK, Typed, TypeOK
<1>2. WaitsOnce
  BY Zenon DEF Inv, StateOK, MidOK, ReqLines, RespLines, LineOK, WaitsOnce
<1>3. WaitersAreWoken
  <2>1. None \notin MemSide
    BY PortAssumption
  <2> QED
    BY <2>1 DEF Inv, StateOK, MidOK, ReqAwake, RespAwake, WaitersAreWoken
<1>4. RoutesKnown
  BY DEF Inv, StateOK, MidOK, PacketsOK, RouteOK, Passed, RoutesKnown
<1> QED
  BY <1>1, <1>2, <1>3, <1>4

-----------------------------------------------------------------------------
(***************************************************************************)
(* What recvTimingReq does to the crossbar and to the packet.              *)
(***************************************************************************)

\* Assignments to the fields of the crossbar.
LEMMA SetReqLayer ==
  ASSUME NEW k \in XBar, NEW m \in MemSide, NEW l \in Layer(CpuSide)
  PROVE  LET n == [k EXCEPT !.reqLayers[m] = l]
         IN  /\ n \in XBar
             /\ n.reqLayers = [k.reqLayers EXCEPT ![m] = l]
             /\ n.respLayers = k.respLayers /\ n.routeTo = k.routeTo
             /\ n.outstandingSnoop = k.outstandingSnoop
  BY Zenon DEF XBar

LEMMA SetRespLayer ==
  ASSUME NEW k \in XBar, NEW c \in CpuSide, NEW l \in Layer(MemSide \cup CpuSide)
  PROVE  LET n == [k EXCEPT !.respLayers[c] = l]
         IN  /\ n \in XBar
             /\ n.respLayers = [k.respLayers EXCEPT ![c] = l]
             /\ n.reqLayers = k.reqLayers /\ n.routeTo = k.routeTo
             /\ n.outstandingSnoop = k.outstandingSnoop
  BY Zenon DEF XBar

LEMMA LayerTypes ==
  ASSUME NEW S, NEW l \in Layer(S), NEW p \in S
  PROVE  /\ succeededTiming(l) \in Layer(S) /\ releaseLayer(l) \in Layer(S)
         /\ failedTiming(l, p) \in Layer(S) /\ wait(l, p) \in Layer(S)
  BY SeqFacts, Zenon DEF succeededTiming, releaseLayer, failedTiming, wait, Layer

LEMMA AddRouteFacts ==
  ASSUME NEW k \in XBar, NEW r \in Reqs, NEW c \in CpuSide, NEW p, NEW by
  PROVE  LET n == addRoute(k, r, c, p, by)
         IN  /\ n \in XBar
             /\ n.reqLayers = k.reqLayers /\ n.respLayers = k.respLayers
             /\ n.outstandingSnoop = k.outstandingSnoop
             /\ n.routeTo = k.routeTo \/ n.routeTo = [k.routeTo EXCEPT ![r] = c]
             /\ needsResponse(p) /\ p.type # "CXLcacheH2DResp"
                  /\ (p.type = "HostBiasCheck" => sinkPacket(p, by))
                  => n.routeTo[r] = c
             /\ ~ needsResponse(p) \/ p.type = "CXLcacheH2DResp"
                  \/ (p.type = "HostBiasCheck" /\ ~ sinkPacket(p, by))
                  => n.routeTo = k.routeTo
  BY Zenon DEF addRoute, XBar

LEMMA MarkFacts ==
  ASSUME NEW k \in XBar, NEW p \in Packet
  PROVE  /\ findPort(k, p) \in MemSide
         /\ markSnoop(k, p) \in Packet
         /\ markSnoop(k, p).src = p.src /\ markSnoop(k, p).at = p.at
         /\ markSnoop(k, p).cmd = p.cmd /\ markSnoop(k, p).line = p.line
         /\ markSnoop(k, p).type \in {p.type, "CXLcacheH2DReq"}
         /\ markSnoop(k, p).type # p.type => p.type = "Default"
         /\ eraseFakeSF(k, p) \in XBar
         /\ eraseFakeSF(k, p).reqLayers = k.reqLayers
         /\ eraseFakeSF(k, p).respLayers = k.respLayers
         /\ eraseFakeSF(k, p).routeTo = k.routeTo
         /\ eraseFakeSF(k, p).outstandingSnoop = k.outstandingSnoop
<1>1. findPort(k, p) \in MemSide
  BY DEF findPort, MemSide
<1>2. /\ markSnoop(k, p) \in Packet
      /\ markSnoop(k, p).src = p.src /\ markSnoop(k, p).at = p.at
      /\ markSnoop(k, p).cmd = p.cmd /\ markSnoop(k, p).line = p.line
      /\ markSnoop(k, p).type \in {p.type, "CXLcacheH2DReq"}
      /\ markSnoop(k, p).type # p.type => p.type = "Default"
  BY DEF markSnoop, needsDevSnoop, Packet, Types
<1>3. /\ eraseFakeSF(k, p) \in XBar
      /\ eraseFakeSF(k, p).reqLayers = k.reqLayers
      /\ eraseFakeSF(k, p).respLayers = k.respLayers
      /\ eraseFakeSF(k, p).routeTo = k.routeTo
      /\ eraseFakeSF(k, p).outstandingSnoop = k.outstandingSnoop
  BY Zenon DEF eraseFakeSF, XBar
<1> QED
  BY <1>1, <1>2, <1>3

\* What recvTimingReq answers: the request is refused as packet p, or accepted,
\* at layer m.
RefusedAs(k, c, p, m, out) ==
  /\ out.k \in XBar
  /\ out.k.respLayers = k.respLayers
  /\ out.k.routeTo = k.routeTo
  /\ out.k.outstandingSnoop = k.outstandingSnoop
  /\ out.p = p
  /\ \/ /\ ~ free(k.reqLayers[m])
        /\ out.k.reqLayers = [k.reqLayers EXCEPT ![m] = wait(@, c)]
     \/ /\ free(k.reqLayers[m])
        /\ out.k.reqLayers = [k.reqLayers EXCEPT ![m] = failedTiming(@, c)]

AcceptedAs(k, r, m, out) ==
  /\ out.k \in XBar
  /\ out.k.respLayers = k.respLayers
  /\ out.k.reqLayers = [k.reqLayers EXCEPT ![m] = succeededTiming(@)]
  /\ free(k.reqLayers[m])
  /\ out.p \in Packet \cup {None}
  /\ \A q \in Reqs \ {r} :
       /\ out.k.routeTo[q] = k.routeTo[q]
       /\ q \in out.k.outstandingSnoop <=> q \in k.outstandingSnoop
  /\ RouteOK(out.k, r, out.p)
  /\ PassedOK(out.p)

LEMMA RefusedOutcome ==
  ASSUME NEW k0 \in XBar, NEW r \in Reqs, NEW c \in CpuSide, NEW p0 \in Packet,
         NEW by, NEW taken \in BOOLEAN,
         ~ recvTimingReq(k0, r, c, p0, by, taken).ok
  PROVE  RefusedAs(k0, c, markSnoop(k0, p0), findPort(k0, p0),
                   recvTimingReq(k0, r, c, p0, by, taken))
<1> DEFINE m == findPort(k0, p0)
           p == markSnoop(k0, p0)
           k == eraseFakeSF(k0, p0)
           out == recvTimingReq(k0, r, c, p0, by, taken)
<1> SUFFICES RefusedAs(k0, c, p, m, out)
  OBVIOUS
<1>1. /\ m \in MemSide /\ k \in XBar
      /\ k.reqLayers = k0.reqLayers /\ k.respLayers = k0.respLayers
      /\ k.routeTo = k0.routeTo /\ k.outstandingSnoop = k0.outstandingSnoop
  BY MarkFacts
<1>2. \/ ~ free(k.reqLayers[m])
         /\ out = Outcome([k EXCEPT !.reqLayers[m] = wait(@, c)], p, FALSE)
      \/ free(k.reqLayers[m])
         /\ out = Outcome([k EXCEPT !.reqLayers[m] = failedTiming(@, c)], p, FALSE)
  BY DEF recvTimingReq, Outcome
<1>3. k.reqLayers[m] \in Layer(CpuSide)
  BY <1>1 DEF XBar
<1>4. wait(k.reqLayers[m], c) \in Layer(CpuSide) /\ failedTiming(k.reqLayers[m], c) \in Layer(CpuSide)
  BY <1>3, LayerTypes, Zenon
<1> HIDE DEF m, p, k, out
<1>5. CASE /\ ~ free(k.reqLayers[m])
           /\ out = Outcome([k EXCEPT !.reqLayers[m] = wait(@, c)], p, FALSE)
  <2>1. out.k = [k EXCEPT !.reqLayers[m] = wait(k.reqLayers[m], c)] /\ out.p = p
    BY <1>5 DEF Outcome, XBar
  <2> QED
    BY <2>1, <1>1, <1>4, <1>5, SetReqLayer DEF RefusedAs
<1>6. CASE /\ free(k.reqLayers[m])
           /\ out = Outcome([k EXCEPT !.reqLayers[m] = failedTiming(@, c)], p, FALSE)
  <2>1. out.k = [k EXCEPT !.reqLayers[m] = failedTiming(k.reqLayers[m], c)] /\ out.p = p
    BY <1>6 DEF Outcome, XBar
  <2> QED
    BY <2>1, <1>1, <1>4, <1>6, SetReqLayer DEF RefusedAs
<1> QED
  BY <1>2, <1>5, <1>6, Zenon

\* A packet may meet the crossbar when it is a request that waits at the port c
\* it came from, or the answer to a snoop of the device, which comes through the
\* I/O cache while the route of the request is in place.
MayPass(k, r, c, p) ==
  /\ r \notin k.outstandingSnoop
  /\ \/ /\ p.type # "CXLcacheH2DResp" /\ p.src = c /\ p.at = c
        /\ k.routeTo[r] = None
     \/ /\ p.type = "CXLcacheH2DResp" /\ c = Io
        /\ p.cmd \in {"ReadSharedReq", "ReadExReq"}
        /\ k.routeTo[r] = p.src

LEMMA SetSnoops ==
  ASSUME NEW k \in XBar, NEW S \in SUBSET Reqs
  PROVE  LET k2 == [k EXCEPT !.outstandingSnoop = S]
         IN  /\ k2 \in XBar
             /\ k2.reqLayers = k.reqLayers /\ k2.respLayers = k.respLayers
             /\ k2.routeTo = k.routeTo /\ k2.outstandingSnoop = S
  BY DEF XBar

LEMMA AcceptedOutcome ==
  ASSUME NEW k0 \in XBar, NEW r \in Reqs, NEW c \in CpuSide, NEW p0 \in Packet,
         NEW by \in Responders(c, markSnoop(k0, p0)) \cup {None}, NEW taken \in BOOLEAN,
         MayPass(k0, r, c, p0),
         recvTimingReq(k0, r, c, p0, by, taken).ok
  PROVE  AcceptedAs(k0, r, findPort(k0, p0), recvTimingReq(k0, r, c, p0, by, taken))
<1> DEFINE m == findPort(k0, p0)
           p == markSnoop(k0, p0)
           k == eraseFakeSF(k0, p0)
           a == addRoute(k, r, c, p, by)
           l == succeededTiming(k0.reqLayers[m])
           passed == [a EXCEPT !.reqLayers[m] = l]
           out == recvTimingReq(k0, r, c, p0, by, taken)
<1> SUFFICES AcceptedAs(k0, r, m, out)
  OBVIOUS
<1>1. /\ m \in MemSide /\ k \in XBar /\ p \in Packet
      /\ k.reqLayers = k0.reqLayers /\ k.respLayers = k0.respLayers
      /\ k.routeTo = k0.routeTo /\ k.outstandingSnoop = k0.outstandingSnoop
      /\ p.src = p0.src /\ p.at = p0.at /\ p.cmd = p0.cmd
      /\ p.type = "CXLcacheH2DResp" <=> p0.type = "CXLcacheH2DResp"
  BY MarkFacts
<1>2. k0.reqLayers[m] \in Layer(CpuSide) /\ l \in Layer(CpuSide)
  BY <1>1, LayerTypes, ZenonT(40) DEF XBar
<1>3. /\ a \in XBar /\ a.reqLayers = k0.reqLayers /\ a.respLayers = k0.respLayers
      /\ a.outstandingSnoop = k0.outstandingSnoop
      /\ a.routeTo = k0.routeTo \/ a.routeTo = [k0.routeTo EXCEPT ![r] = c]
      /\ needsResponse(p) /\ p.type # "CXLcacheH2DResp"
           /\ (p.type = "HostBiasCheck" => sinkPacket(p, by)) => a.routeTo[r] = c
      /\ ~ needsResponse(p) \/ p.type = "CXLcacheH2DResp"
           \/ (p.type = "HostBiasCheck" /\ ~ sinkPacket(p, by))
           => a.routeTo = k0.routeTo
  BY <1>1, AddRouteFacts
<1>4. /\ passed \in XBar
      /\ passed.reqLayers = [k0.reqLayers EXCEPT ![m] = l]
      /\ passed.respLayers = k0.respLayers /\ passed.routeTo = a.routeTo
      /\ passed.outstandingSnoop = k0.outstandingSnoop
  BY <1>1, <1>2, <1>3, SetReqLayer
<1>5. [k0.reqLayers EXCEPT ![m] = l] = [k0.reqLayers EXCEPT ![m] = succeededTiming(@)]
  OBVIOUS
<1>6. [a EXCEPT !.reqLayers[m] = succeededTiming(@)] = passed
  BY <1>3 DEF XBar
<1>7. /\ free(k0.reqLayers[m])
      /\ \/ by # None /\ out = Outcome([passed EXCEPT !.outstandingSnoop = @ \cup {r}],
                                       [p EXCEPT !.at = by], TRUE)
         \/ by = None /\ sinkPacket(p, by) /\ out = Outcome(passed, None, TRUE)
         \/ /\ by = None /\ ~ sinkPacket(p, by) /\ ~ forwardPacket(p)
            /\ out = Outcome([k EXCEPT !.reqLayers[m] = succeededTiming(@)], None, TRUE)
         \/ /\ by = None /\ ~ sinkPacket(p, by) /\ forwardPacket(p)
            /\ out = Outcome(passed, IF needsResponse(p) /\ p.type # "HostBiasCheck"
                                     THEN [p EXCEPT !.at = m] ELSE None, TRUE)
  BY <1>1, <1>6, ZenonT(40) DEF recvTimingReq, Outcome
<1>8. k0.routeTo \in [Reqs -> CpuSide \cup {None}] /\ k0.outstandingSnoop \subseteq Reqs
  BY DEF XBar
<1>9. MemSide \cap CpuSide = {} /\ None \notin CpuSide
  BY PortAssumption
<1> HIDE DEF m, p, k, a, l, passed, out
<1>10. CASE /\ by # None
            /\ out = Outcome([passed EXCEPT !.outstandingSnoop = @ \cup {r}],
                             [p EXCEPT !.at = by], TRUE)
  <2>1. by \in CpuSide /\ by # c /\ needsResponse(p) /\ p.type # "CXLcacheH2DResp"
    BY <1>10 DEF Responders, CpuSide, p
  <2>2. a.routeTo[r] = c /\ p0.src = c
    BY <1>1, <1>3, <1>10, <2>1 DEF sinkPacket, MayPass
  <2>3. /\ out.k = [passed EXCEPT !.outstandingSnoop = passed.outstandingSnoop \cup {r}]
        /\ out.p = [p EXCEPT !.at = by]
    BY <1>10 DEF Outcome
  <2>4. /\ out.k \in XBar /\ out.k.reqLayers = passed.reqLayers
        /\ out.k.respLayers = passed.respLayers /\ out.k.routeTo = passed.routeTo
        /\ out.k.outstandingSnoop = passed.outstandingSnoop \cup {r}
    BY <2>3, <1>4, <1>8, SetSnoops, SMTT(30), Z3T(30)
  <2>5. /\ out.p \in Packet /\ out.p.at = by /\ out.p.src = c /\ out.p.cmd = p.cmd
    BY <2>1, <2>2, <2>3, <1>1 DEF Packet
  <2>6. out.p # None
    BY <2>5, TrafficAssumption
  <2>7. Passed(out.p)
    BY <2>1, <2>5, <2>6 DEF Passed
  <2>8. RouteOK(out.k, r, out.p) /\ PassedOK(out.p)
    BY <2>1, <2>2, <2>4, <2>5, <2>7, <1>4, <1>9 DEF RouteOK, PassedOK, needsResponse
  <2> QED
    BY <2>4, <2>5, <2>7, <2>8, <1>3, <1>4, <1>5, <1>7, <1>8 DEF AcceptedAs
<1>11. CASE by = None /\ sinkPacket(p, by) /\ out = Outcome(passed, None, TRUE)
  <2>1. ~ needsResponse(p) /\ a.routeTo = k0.routeTo
    BY <1>3, <1>11 DEF sinkPacket, needsResponse
  <2>2. p0.type # "CXLcacheH2DResp"
    BY <1>1, <2>1 DEF MayPass, needsResponse
  <2>3. out.k = passed /\ out.p = None
    BY <1>11 DEF Outcome
  <2>4. RouteOK(out.k, r, out.p) /\ PassedOK(out.p)
    BY <2>1, <2>2, <2>3, <1>4 DEF RouteOK, PassedOK, Passed, MayPass
  <2> QED
    BY <2>1, <2>3, <2>4, <1>4, <1>5, <1>7 DEF AcceptedAs
<1>12. CASE /\ by = None /\ ~ sinkPacket(p, by) /\ ~ forwardPacket(p)
            /\ out = Outcome([k EXCEPT !.reqLayers[m] = succeededTiming(@)], None, TRUE)
  <2>1. p0.type # "CXLcacheH2DResp"
    BY <1>1, <1>12 DEF MayPass, forwardPacket
  <2>2. out.k = [k EXCEPT !.reqLayers[m] = l] /\ out.p = None
    BY <1>1, <1>12 DEF Outcome, XBar, l
  <2>3. /\ out.k \in XBar /\ out.k.reqLayers = [k0.reqLayers EXCEPT ![m] = l]
        /\ out.k.respLayers = k0.respLayers /\ out.k.routeTo = k0.routeTo
        /\ out.k.outstandingSnoop = k0.outstandingSnoop
    BY <2>2, <1>1, <1>2, SetReqLayer
  <2>4. RouteOK(out.k, r, out.p) /\ PassedOK(out.p)
    BY <2>1, <2>2, <2>3, Zenon DEF RouteOK, PassedOK, Passed, MayPass
  <2> QED
    BY <2>2, <2>3, <2>4, <1>5, <1>7 DEF AcceptedAs
<1>13. CASE /\ by = None /\ ~ sinkPacket(p, by) /\ forwardPacket(p)
            /\ out = Outcome(passed, IF needsResponse(p) /\ p.type # "HostBiasCheck"
                                     THEN [p EXCEPT !.at = m] ELSE None, TRUE)
  <2>1. CASE needsResponse(p) /\ p.type # "HostBiasCheck"
    <3>1. out.k = passed /\ out.p = [p EXCEPT !.at = m]
      BY <1>13, <2>1 DEF Outcome
    <3>2. out.p \in Packet /\ out.p.at = m /\ out.p.src = p.src /\ out.p.cmd = p.cmd
      BY <3>1, <1>1 DEF Packet
    <3>3. p.src \in CpuSide
      BY <1>1, SMT, Z3T(30) DEF Packet
    <3>4. a.routeTo[r] = p.src
      BY <1>1, <1>3, <2>1, <3>3 DEF MayPass
    <3>5. out.p # None
      BY <3>2, TrafficAssumption
    <3>6. Passed(out.p)
      BY <3>2, <3>3, <3>5, <1>1, <1>9 DEF Passed
    <3>7. RouteOK(out.k, r, out.p) /\ PassedOK(out.p)
      BY <3>1, <3>2, <3>4, <3>6, <2>1, <1>1, <1>4, <1>9, <1>13
         DEF RouteOK, PassedOK, MayPass, needsResponse, forwardPacket
    <3> QED
      BY <3>1, <3>2, <3>6, <3>7, <1>3, <1>4, <1>5, <1>7, <1>8 DEF AcceptedAs
  <2>2. CASE ~ (needsResponse(p) /\ p.type # "HostBiasCheck")
    <3>1. out.k = passed /\ out.p = None
      BY <1>13, <2>2 DEF Outcome
    <3>2. p0.type # "CXLcacheH2DResp" /\ a.routeTo = k0.routeTo
      BY <1>1, <1>3, <1>13, <2>2, SMT, Z3T(30) DEF MayPass, needsResponse
    <3>3. RouteOK(out.k, r, out.p) /\ PassedOK(out.p)
      BY <3>1, <3>2, <1>4 DEF RouteOK, PassedOK, Passed, MayPass
    <3> QED
      BY <3>1, <3>2, <3>3, <1>4, <1>5, <1>7 DEF AcceptedAs
  <2> QED
    BY <2>1, <2>2
<1> QED
  BY <1>7, <1>10, <1>11, <1>12, <1>13, Zenon

\* Every port in the line of a response layer holds a response.
LEMMA HeldWaits ==
  ASSUME NEW k \in XBar, NEW hr \in [CpuSide \cup MemSide -> Reqs \cup {None}],
         RespLines(k, hr), NEW c \in CpuSide,
         NEW i \in 1 .. Len(k.respLayers[c].waitingForLayer)
  PROVE  LET f == k.respLayers[c].waitingForLayer[i]
         IN  f \in CpuSide \cup MemSide /\ hr[f] \in Reqs
<1> DEFINE l == k.respLayers[c]
           f == l.waitingForLayer[i]
<1>1. l.waitingForLayer \in Seq(MemSide \cup CpuSide) /\ DOMAIN k.respLayers = CpuSide
  BY DEF XBar, Layer
<1>2. f \in CpuSide \cup MemSide
  BY <1>1
<1>3. i \in Places(l) /\ Place(l, i) = f
  BY <1>1 DEF Places, Place
<1>4. Waits(k.respLayers, f)
  BY <1>1, <1>3 DEF Waits
<1> QED
  BY <1>2, <1>4 DEF RespLines, LineOK

\* What a request changes says nothing of the responses that wait.
LEMMA SameAnswers ==
  ASSUME NEW k, NEW n, NEW hr, NEW r, n.respLayers = k.respLayers,
         \A q \in Reqs \ {r} : n.routeTo[q] = k.routeTo[q],
         \A d \in CpuSide : \A i \in 1 .. Len(k.respLayers[d].waitingForLayer) :
           hr[k.respLayers[d].waitingForLayer[i]] \in Reqs \ {r},
         RespLines(k, hr), RespAwake(k, hr)
  PROVE  RespLines(n, hr) /\ RespAwake(n, hr)
<1>1. RespLines(n, hr)
  BY Zenon DEF RespLines
<1>2. \A d \in CpuSide :
        /\ n.respLayers[d].waitingForPeer = None
        /\ n.respLayers[d].waitingForLayer # <<>> => n.respLayers[d].state = "BUSY"
        /\ \A i \in 1 .. Len(n.respLayers[d].waitingForLayer) :
             n.routeTo[hr[n.respLayers[d].waitingForLayer[i]]] = d
  <2> TAKE d \in CpuSide
  <2>1. /\ k.respLayers[d].waitingForPeer = None
        /\ k.respLayers[d].waitingForLayer # <<>> => k.respLayers[d].state = "BUSY"
        /\ \A i \in 1 .. Len(k.respLayers[d].waitingForLayer) :
             k.routeTo[hr[k.respLayers[d].waitingForLayer[i]]] = d
    BY ZenonT(40) DEF RespAwake
  <2>2. \A i \in 1 .. Len(k.respLayers[d].waitingForLayer) :
          n.routeTo[hr[k.respLayers[d].waitingForLayer[i]]] = d
    BY <2>1, ZenonT(40)
  <2> QED
    BY <2>1, <2>2, ZenonT(40)
<1> QED
  BY <1>1, <1>2, Zenon DEF RespAwake

LEMMA SameRespAwake ==
  ASSUME NEW k, NEW n, NEW hr, n.respLayers = k.respLayers, n.routeTo = k.routeTo,
         RespAwake(k, hr)
  PROVE  RespAwake(n, hr)
<1> SUFFICES ASSUME NEW d \in CpuSide
             PROVE  /\ n.respLayers[d].waitingForPeer = None
                    /\ n.respLayers[d].waitingForLayer # <<>> => n.respLayers[d].state = "BUSY"
                    /\ \A i \in 1 .. Len(n.respLayers[d].waitingForLayer) :
                         n.routeTo[hr[n.respLayers[d].waitingForLayer[i]]] = d
  BY Zenon DEF RespAwake
<1>1. /\ k.respLayers[d].waitingForPeer = None
      /\ k.respLayers[d].waitingForLayer # <<>> => k.respLayers[d].state = "BUSY"
      /\ \A i \in 1 .. Len(k.respLayers[d].waitingForLayer) :
           k.routeTo[hr[k.respLayers[d].waitingForLayer[i]]] = d
  BY Zenon DEF RespAwake
<1> QED
  BY ONLY <1>1, n.respLayers = k.respLayers, n.routeTo = k.routeTo

\* recvTimingReq keeps the invariant, in the middle of retryWaiting of layer mm
\* too: r is a request that nobody keeps for a retry.
LEMMA PassKeeps ==
  ASSUME NEW k, NEW pk, NEW bl, NEW hr, NEW mm, MidOK(k, pk, bl, hr, mm),
         NEW r \in Reqs, NEW c \in CpuSide, NEW p \in Packet,
         NEW by \in Responders(c, markSnoop(k, p)) \cup {None}, NEW taken \in BOOLEAN,
         MayPass(k, r, c, p),
         \A d \in CpuSide : bl[d] # r,
         \A f \in CpuSide \cup MemSide : hr[f] # r,
         ~ recvTimingReq(k, r, c, p, by, taken).ok => p.type \notin Bypassing /\ bl[c] = None
  PROVE  LET out == recvTimingReq(k, r, c, p, by, taken)
         IN  MidOK(out.k, [pk EXCEPT ![r] = out.p],
                   IF out.ok THEN bl ELSE [bl EXCEPT ![c] = r], hr, mm)
<1> DEFINE out == recvTimingReq(k, r, c, p, by, taken)
           m == findPort(k, p)
           pk2 == [pk EXCEPT ![r] = out.p]
           bl2 == [bl EXCEPT ![c] = r]
<1>1. /\ k \in XBar /\ pk \in [Reqs -> Packet \cup {None}]
      /\ bl \in [CpuSide -> Reqs \cup {None}]
      /\ hr \in [CpuSide \cup MemSide -> Reqs \cup {None}]
      /\ k.reqLayers \in Layers(MemSide, CpuSide) /\ m \in MemSide
      /\ DOMAIN k.reqLayers = MemSide
  BY MarkFacts, ZenonT(40) DEF MidOK, Typed, XBar, Layers
<1>2. None \notin CpuSide /\ None \notin Reqs /\ MemSide \cap CpuSide = {}
  BY PortAssumption
<1>3. k.reqLayers[m] \in Layer(CpuSide)
  BY <1>1 DEF Layers
<1>4. \A d \in CpuSide : \A i \in 1 .. Len(k.respLayers[d].waitingForLayer) :
        hr[k.respLayers[d].waitingForLayer[i]] \in Reqs \ {r}
  BY <1>1, HeldWaits, Zenon DEF MidOK
<1>5. /\ ReqLines(k, bl) /\ RespLines(k, hr) /\ ReqAwake(k, mm) /\ RespAwake(k, hr)
      /\ PacketsOK(k, pk, bl, hr)
  BY SMTT(30) DEF MidOK
<1>6. ASSUME out.ok
      PROVE  MidOK(out.k, pk2, bl, hr, mm)
  <2>1. /\ out.k \in XBar /\ out.k.respLayers = k.respLayers
        /\ out.k.reqLayers = [k.reqLayers EXCEPT ![m] = succeededTiming(@)]
        /\ free(k.reqLayers[m]) /\ out.p \in Packet \cup {None}
        /\ \A q \in Reqs \ {r} :
             /\ out.k.routeTo[q] = k.routeTo[q]
             /\ q \in out.k.outstandingSnoop <=> q \in k.outstandingSnoop
        /\ RouteOK(out.k, r, out.p) /\ PassedOK(out.p)
    <3>1. AcceptedAs(k, r, m, out)
      BY <1>1, <1>6, AcceptedOutcome, ZenonT(40)
    <3> HIDE DEF out, m
    <3> QED
      BY ONLY <3>1 DEF AcceptedAs
  <2> HIDE DEF out, m
  <2>2. Typed(out.k, pk2, bl, hr)
    BY <1>1, <2>1 DEF Typed
  <2>3. LET l == k.reqLayers[m]
            n == succeededTiming(l)
        IN  /\ n \in Layer(CpuSide)
            /\ n.waitingForLayer = l.waitingForLayer /\ n.waitingForPeer = l.waitingForPeer
    BY <1>3, SMTT(30), Z3T(30) DEF succeededTiming, Layer
  <2>4. ReqLines(out.k, bl)
    <3>1. out.k.reqLayers = [k.reqLayers EXCEPT ![m] = succeededTiming(k.reqLayers[m])]
      BY ONLY <2>1, SMT, Z3T(30)
    <3>2. LineOK([k.reqLayers EXCEPT ![m] = succeededTiming(k.reqLayers[m])], CpuSide, bl)
      BY <1>1, <1>5, <2>3, SameLines DEF ReqLines
    <3> QED
      BY <3>1, <3>2, SMTT(30), Z3T(30) DEF ReqLines
  <2>5. ReqAwake(out.k, mm)
    BY <1>1, <1>3, <1>5, <2>1 DEF ReqAwake, free, succeededTiming, Layer
  <2>6. RespLines(out.k, hr) /\ RespAwake(out.k, hr)
    <3>1. /\ out.k.respLayers = k.respLayers
          /\ \A q \in Reqs \ {r} : out.k.routeTo[q] = k.routeTo[q]
      BY <2>1, Zenon
    <3> QED
      BY ONLY <1>4, <1>5, <3>1, SameAnswers, ZenonT(40)
  <2>7. PacketsOK(out.k, pk2, bl, hr)
    <3>1. \A q \in Reqs : RouteOK(out.k, q, pk2[q]) /\ PassedOK(pk2[q])
      BY <1>1, <1>5, <2>1 DEF PacketsOK, RouteOK
    <3>2. \A d \in CpuSide : bl[d] # None => RefusedOK(d, pk2[bl[d]])
      BY <1>1, <1>5 DEF PacketsOK
    <3>3. \A f \in CpuSide \cup MemSide : hr[f] # None => HeldOK(f, pk2[hr[f]])
      BY <1>1, <1>5 DEF PacketsOK
    <3> QED
      BY <3>1, <3>2, <3>3 DEF PacketsOK
  <2> QED
    BY <2>2, <2>4, <2>5, <2>6, <2>7, Zenon DEF MidOK
<1>7. ASSUME ~ out.ok
      PROVE  MidOK(out.k, pk2, bl2, hr, mm)
  <2>1. /\ out.k \in XBar /\ out.k.respLayers = k.respLayers
        /\ out.k.routeTo = k.routeTo /\ out.k.outstandingSnoop = k.outstandingSnoop
        /\ out.p = markSnoop(k, p)
        /\ \/ /\ ~ free(k.reqLayers[m])
              /\ out.k.reqLayers = [k.reqLayers EXCEPT ![m] = wait(@, c)]
           \/ /\ free(k.reqLayers[m])
              /\ out.k.reqLayers = [k.reqLayers EXCEPT ![m] = failedTiming(@, c)]
    <3>1. RefusedAs(k, c, markSnoop(k, p), m, out)
      BY <1>1, <1>7, RefusedOutcome, ZenonT(40)
    <3> HIDE DEF out, m
    <3> QED
      BY ONLY <3>1 DEF RefusedAs
  <2>2. /\ p.type \notin Bypassing /\ bl[c] = None
        /\ out.p \in Packet /\ out.p.src = p.src /\ out.p.at = p.at
        /\ out.p.type \in {p.type, "CXLcacheH2DReq"}
    BY <1>1, <1>7, <2>1, MarkFacts, SMTT(30)
  <2>3. /\ p.src = c /\ p.at = c /\ k.routeTo[r] = None /\ r \notin k.outstandingSnoop
        /\ p.type \in {"Default", "CXLcacheH2DReq"}
    BY <2>2, ZenonT(40) DEF MayPass, Bypassing, Packet, Types
  <2>4. out.p # None
    BY <2>2, TrafficAssumption, SMTT(30)
  <2> HIDE DEF out, m
  <2>5. Typed(out.k, pk2, bl2, hr)
    BY <1>1, <2>1, <2>2, ZenonT(40) DEF Typed
  <2>6. ReqLines(out.k, bl2) /\ ReqAwake(out.k, mm)
    <3>1. CASE /\ ~ free(k.reqLayers[m])
               /\ out.k.reqLayers = [k.reqLayers EXCEPT ![m] = wait(@, c)]
      <4>1. LineOK([k.reqLayers EXCEPT ![m] = wait(@, c)], CpuSide, bl2)
        BY <1>1, <1>2, <1>5, <2>2, WaitJoins, Zenon DEF ReqLines
      <4>2. ~ free(out.k.reqLayers[m])
        BY <1>1, <1>3, <3>1, ZenonT(40) DEF free, wait, Layer
      <4> QED
        BY <1>1, <1>5, <3>1, <4>1, <4>2 DEF ReqLines, ReqAwake
    <3>2. CASE /\ free(k.reqLayers[m])
               /\ out.k.reqLayers = [k.reqLayers EXCEPT ![m] = failedTiming(@, c)]
      <4>0. k.reqLayers[m].waitingForPeer = None
        BY <3>2 DEF free
      <4>1. LineOK([k.reqLayers EXCEPT ![m] = failedTiming(@, c)], CpuSide, bl2)
        BY <1>1, <1>2, <1>5, <2>2, <4>0, FailJoins, Zenon DEF ReqLines
      <4>2. ~ free(out.k.reqLayers[m])
        BY <1>1, <1>3, <3>2 DEF free, failedTiming, Layer
      <4> QED
        BY <1>1, <1>5, <3>2, <4>1, <4>2, SMTT(30), Z3T(30) DEF ReqLines, ReqAwake
    <3> QED
      BY ONLY <2>1, <3>1, <3>2, Zenon
  <2>7. RespLines(out.k, hr) /\ RespAwake(out.k, hr)
    BY <1>4, <1>5, <2>1, SameAnswers, ZenonT(40)
  <2>8. PacketsOK(out.k, pk2, bl2, hr)
    <3>0. ~ Passed(out.p)
      BY <2>2, <2>3 DEF Passed
    <3>1. \A q \in Reqs : RouteOK(out.k, q, pk2[q]) /\ PassedOK(pk2[q])
      BY <1>1, <1>5, <2>1, <2>3, <3>0, ZenonT(40) DEF PacketsOK, RouteOK, PassedOK
    <3>2. RefusedOK(c, out.p)
      BY <2>2, <2>3, <2>4 DEF RefusedOK
    <3>3. \A d \in CpuSide : bl2[d] # None => RefusedOK(d, pk2[bl2[d]])
      BY <1>1, <1>5, <3>2 DEF PacketsOK
    <3>4. \A f \in CpuSide \cup MemSide : hr[f] # None => HeldOK(f, pk2[hr[f]])
      BY <1>1, <1>5 DEF PacketsOK
    <3> QED
      BY <3>1, <3>3, <3>4, Zenon DEF PacketsOK
  <2> QED
    BY <2>5, <2>6, <2>7, <2>8, Zenon DEF MidOK
<1> QED
  BY <1>6, <1>7

\* The same with hypothesis and conclusion named.
PassPre(k, pk, bl, hr, mm, r, c, p, by, taken) ==
  /\ MidOK(k, pk, bl, hr, mm)
  /\ r \in Reqs /\ c \in CpuSide /\ p \in Packet
  /\ by \in Responders(c, markSnoop(k, p)) \cup {None} /\ taken \in BOOLEAN
  /\ MayPass(k, r, c, p)
  /\ \A d \in CpuSide : bl[d] # r
  /\ \A f \in CpuSide \cup MemSide : hr[f] # r
  /\ ~ recvTimingReq(k, r, c, p, by, taken).ok => p.type \notin Bypassing /\ bl[c] = None

PassPost(k, pk, bl, hr, mm, r, c, p, by, taken) ==
  LET out == recvTimingReq(k, r, c, p, by, taken)
  IN  MidOK(out.k, [pk EXCEPT ![r] = out.p],
            IF out.ok THEN bl ELSE [bl EXCEPT ![c] = r], hr, mm)

LEMMA PassKept ==
  ASSUME NEW k, NEW pk, NEW bl, NEW hr, NEW mm, NEW r, NEW c, NEW p, NEW by, NEW taken,
         PassPre(k, pk, bl, hr, mm, r, c, p, by, taken)
  PROVE  PassPost(k, pk, bl, hr, mm, r, c, p, by, taken)
  BY PassKeeps, ZenonT(40) DEF PassPre, PassPost

-----------------------------------------------------------------------------
(***************************************************************************)
(* One lemma per action.                                                   *)
(***************************************************************************)

\* What the invariant says of a request that nobody has sent, and of a snoop of
\* the device that has not been answered.
LEMMA NobodyKeeps ==
  ASSUME NEW k, NEW pk, NEW bl, NEW hr, PacketsOK(k, pk, bl, hr), NEW r \in Reqs
  PROVE  /\ pk[r] = None \/ pk[r].at # pk[r].src => \A d \in CpuSide : bl[d] # r
         /\ pk[r] = None \/ pk[r].at = pk[r].src => \A f \in CpuSide \cup MemSide : hr[f] # r
         /\ pk[r].at = RC /\ pk[r].type = "CXLcacheH2DReq"
              => \A f \in CpuSide \cup MemSide : hr[f] # r
<1> None \notin Reqs
  BY PortAssumption
<1>1. \A d \in CpuSide : bl[d] = r => pk[r] # None /\ pk[r].at = pk[r].src
  BY DEF PacketsOK, RefusedOK
<1>2. \A f \in CpuSide \cup MemSide :
        hr[f] = r => /\ pk[r] # None /\ pk[r].at # pk[r].src /\ pk[r].at = f
                     /\ f = RC => pk[r].type # "CXLcacheH2DReq"
  BY DEF PacketsOK, HeldOK, Passed
<1> QED
  BY <1>1, <1>2

LEMMA SendReqKeeps ==
  ASSUME Inv, NEW r \in Reqs, NEW p \in Traffic, SendReq(p.src, r, p)
  PROVE  Inv'
<1>1. PICK by \in Responders(p.src, markSnoop(x, p)) \cup {None}, taken \in BOOLEAN :
        LET out == recvTimingReq(x, r, p.src, p, by, taken)
        IN  IF \/ unexpectedAccess(x, p)
               \/ p.type \in Bypassing /\ ~ out.ok
            THEN aborted' = TRUE /\ UNCHANGED <<x, pkt, blocked>>
            ELSE /\ x' = out.k
                 /\ pkt' = [pkt EXCEPT ![r] = out.p]
                 /\ blocked' = IF out.ok THEN blocked ELSE [blocked EXCEPT ![p.src] = r]
                 /\ UNCHANGED aborted
  BY DEF SendReq, Pass, endRetry
<1> DEFINE out == recvTimingReq(x, r, p.src, p, by, taken)
<1>2. UNCHANGED heldResp /\ pkt[r] = None /\ (p.type = "Default" => blocked[p.src] = None)
  BY DEF SendReq
<1>3. /\ p \in Packet /\ p.src \in CpuSide /\ p.at = p.src
      /\ p.type \in {"Default", "CXLcache", "HostBiasCheck"}
  BY TrafficAssumption DEF Packet
<1>4. MidOK(x, pkt, blocked, heldResp, None) /\ PacketsOK(x, pkt, blocked, heldResp)
  BY DEF Inv, StateOK, MidOK
<1>5. MayPass(x, r, p.src, p)
  BY <1>2, <1>3, <1>4 DEF MayPass, PacketsOK, RouteOK, Passed
<1>6. /\ \A d \in CpuSide : blocked[d] # r
      /\ \A f \in CpuSide \cup MemSide : heldResp[f] # r
  BY <1>2, <1>4, NobodyKeeps
<1>7. CASE unexpectedAccess(x, p) \/ (p.type \in Bypassing /\ ~ out.ok)
  BY <1>1, <1>2, <1>7, Zenon DEF Inv, StateOK
<1>8. CASE ~ (unexpectedAccess(x, p) \/ (p.type \in Bypassing /\ ~ out.ok))
  <2>1. ~ out.ok => p.type \notin Bypassing /\ blocked[p.src] = None
    BY <1>2, <1>3, <1>8, SMTT(30) DEF Bypassing
  <2>2. MidOK(out.k, [pkt EXCEPT ![r] = out.p],
              IF out.ok THEN blocked ELSE [blocked EXCEPT ![p.src] = r], heldResp, None)
    <3>1. PassPre(x, pkt, blocked, heldResp, None, r, p.src, p, by, taken)
      BY <1>3, <1>4, <1>5, <1>6, <2>1, Zenon DEF PassPre
    <3>2. PassPost(x, pkt, blocked, heldResp, None, r, p.src, p, by, taken)
      BY ONLY <3>1, PassKept, Zenon
    <3> QED
      BY ONLY <3>2, Zenon DEF PassPost, out
  <2>3. /\ x' = out.k /\ pkt' = [pkt EXCEPT ![r] = out.p]
        /\ blocked' = IF out.ok THEN blocked ELSE [blocked EXCEPT ![p.src] = r]
        /\ heldResp' = heldResp /\ aborted' = aborted
    BY <1>1, <1>2, <1>8
  <2> HIDE DEF out
  <2> QED
    BY <2>2, <2>3, Zenon DEF Inv, StateOK
<1> QED
  BY <1>7, <1>8

LEMMA SnoopMissedKeeps ==
  ASSUME Inv, NEW r \in Reqs, SnoopMissed(r)
  PROVE  Inv'
<1> DEFINE p == [pkt[r] EXCEPT !.type = "CXLcacheH2DResp"]
<1>1. PICK by \in Responders(Io, markSnoop(x, p)) \cup {None}, taken \in BOOLEAN :
        LET out == recvTimingReq(x, r, Io, p, by, taken)
        IN  IF \/ unexpectedAccess(x, p)
               \/ p.type \in Bypassing /\ ~ out.ok
            THEN aborted' = TRUE /\ UNCHANGED <<x, pkt, blocked>>
            ELSE /\ x' = out.k
                 /\ pkt' = [pkt EXCEPT ![r] = out.p]
                 /\ blocked' = IF out.ok THEN blocked ELSE [blocked EXCEPT ![Io] = r]
                 /\ UNCHANGED aborted
  BY DEF SnoopMissed, Pass, endRetry
<1> DEFINE out == recvTimingReq(x, r, Io, p, by, taken)
<1>2. /\ UNCHANGED heldResp /\ pkt[r] # None
      /\ pkt[r].at = RC /\ pkt[r].type = "CXLcacheH2DReq"
  BY DEF SnoopMissed
<1>3. MidOK(x, pkt, blocked, heldResp, None) /\ PacketsOK(x, pkt, blocked, heldResp)
  BY DEF Inv, StateOK, MidOK
<1>4. pkt[r] \in Packet
  BY <1>2, <1>3 DEF MidOK, Typed
<1>5. /\ p \in Packet /\ p.type = "CXLcacheH2DResp" /\ p.src = pkt[r].src
      /\ p.cmd = pkt[r].cmd /\ Io \in CpuSide
  BY <1>4 DEF Packet, Types, CpuSide
<1>6. Passed(pkt[r]) /\ RC \in MemSide /\ RC \notin CpuSide
  BY <1>2, <1>4, PortAssumption, ZenonT(40) DEF Passed, Packet, MemSide
<1>7. MayPass(x, r, Io, p)
  <2>1. RouteOK(x, r, pkt[r]) /\ PassedOK(pkt[r])
    BY <1>3 DEF PacketsOK
  <2> HIDE DEF p
  <2> QED
    BY <1>2, <1>5, <1>6, <2>1 DEF MayPass, RouteOK, PassedOK, needsResponse
<1>8. /\ \A d \in CpuSide : blocked[d] # r
      /\ \A f \in CpuSide \cup MemSide : heldResp[f] # r
  BY <1>2, <1>3, <1>6, NobodyKeeps, SMT, Z3T(30) DEF Passed
<1> HIDE DEF p
<1>9. p.type \in Bypassing
  BY <1>5 DEF Bypassing
<1>10. CASE unexpectedAccess(x, p) \/ ~ out.ok
  BY <1>1, <1>2, <1>9, <1>10, Zenon DEF Inv, StateOK
<1>11. CASE ~ (unexpectedAccess(x, p) \/ ~ out.ok)
  <2>1. MidOK(out.k, [pkt EXCEPT ![r] = out.p],
              IF out.ok THEN blocked ELSE [blocked EXCEPT ![Io] = r], heldResp, None)
    <3>1. PassPre(x, pkt, blocked, heldResp, None, r, Io, p, by, taken)
      BY <1>3, <1>5, <1>7, <1>8, <1>11, Zenon DEF PassPre
    <3>2. PassPost(x, pkt, blocked, heldResp, None, r, Io, p, by, taken)
      BY ONLY <3>1, PassKept, ZenonT(40)
    <3> QED
      BY ONLY <3>2, Zenon DEF PassPost, out
  <2>2. /\ x' = out.k /\ pkt' = [pkt EXCEPT ![r] = out.p]
        /\ blocked' = IF out.ok THEN blocked ELSE [blocked EXCEPT ![Io] = r]
        /\ heldResp' = heldResp /\ aborted' = aborted
    BY <1>1, <1>2, <1>11, Zenon
  <2> HIDE DEF out
  <2> QED
    BY <2>1, <2>2, SMTT(30) DEF Inv, StateOK
<1> QED
  BY <1>10, <1>11

LEMMA ExpressSnoopKeeps ==
  ASSUME Inv, NEW p \in Traffic, ExpressSnoop(p)
  PROVE  Inv'
<1>1. p \in Packet
  BY TrafficAssumption
<1>2. /\ x \in XBar /\ x' \in XBar
      /\ x'.reqLayers = x.reqLayers /\ x'.respLayers = x.respLayers
      /\ x'.routeTo = x.routeTo /\ x'.outstandingSnoop = x.outstandingSnoop
  BY <1>1, MarkFacts DEF Inv, StateOK, MidOK, Typed, ExpressSnoop
<1>3. pkt' = pkt /\ blocked' = blocked /\ heldResp' = heldResp /\ aborted' \in BOOLEAN
  BY DEF ExpressSnoop, unexpectedAccess, needsDevSnoop
<1>4. MidOK(x, pkt, blocked, heldResp, None)
  BY ZenonT(40) DEF Inv, StateOK
<1>5. Typed(x', pkt, blocked, heldResp) /\ ReqLines(x', blocked) /\ RespLines(x', heldResp)
  BY <1>2, <1>4, SMTT(30) DEF MidOK, Typed, ReqLines, RespLines
<1>6. ReqAwake(x', None) /\ RespAwake(x', heldResp)
  <2>1. ReqAwake(x, None) /\ RespAwake(x, heldResp)
    BY <1>4, Zenon DEF MidOK
  <2>2. RespAwake(x', heldResp)
    BY ONLY <1>2, <2>1, SameRespAwake, ZenonT(40)
  <2> QED
    BY ONLY <1>2, <2>1, <2>2, Zenon DEF ReqAwake
<1>7. PacketsOK(x', pkt, blocked, heldResp)
  BY <1>2, <1>4 DEF MidOK, PacketsOK, RouteOK
<1> QED
  BY <1>3, <1>5, <1>6, <1>7 DEF Inv, StateOK, MidOK

\* A change of request layer m alone, that keeps the lines as bl2 says.
LEMMA ReqLayerChange ==
  ASSUME NEW k, NEW pk, NEW bl, NEW hr, NEW m \in MemSide, MidOK(k, pk, bl, hr, m),
         NEW l \in Layer(CpuSide), NEW bl2 \in [CpuSide -> Reqs \cup {None}],
         LineOK([k.reqLayers EXCEPT ![m] = l], CpuSide, bl2),
         \A d \in CpuSide : bl2[d] \in {bl[d], None}
  PROVE  MidOK([k EXCEPT !.reqLayers[m] = l], pk, bl2, hr, m)
<1> DEFINE k2 == [k EXCEPT !.reqLayers[m] = l]
<1>1. k \in XBar
  BY DEF MidOK, Typed
<1>2. /\ k2 \in XBar /\ k2.reqLayers = [k.reqLayers EXCEPT ![m] = l]
      /\ k2.respLayers = k.respLayers /\ k2.routeTo = k.routeTo
      /\ k2.outstandingSnoop = k.outstandingSnoop
  BY <1>1, SetReqLayer, SMTT(30)
<1> HIDE DEF k2
<1>3. Typed(k2, pk, bl2, hr) /\ ReqLines(k2, bl2) /\ RespLines(k2, hr)
  BY <1>2, ZenonT(40) DEF MidOK, Typed, ReqLines, RespLines
<1>4. \A n \in MemSide : n # m => k2.reqLayers[n] = k.reqLayers[n]
  BY <1>1, <1>2, SMTT(30) DEF XBar
<1>5. ReqAwake(k2, m) /\ RespAwake(k2, hr)
  <2>1. RespAwake(k, hr)
    BY Zenon DEF MidOK
  <2>2. RespAwake(k2, hr)
    BY ONLY <1>2, <2>1, SameRespAwake, Zenon
  <2>3. ReqAwake(k, m)
    BY Zenon DEF MidOK
  <2>4. ReqAwake(k2, m)
    BY ONLY <1>4, <2>3, ZenonT(40) DEF ReqAwake
  <2> QED
    BY <2>2, <2>4, ZenonT(40)
<1>6. PacketsOK(k2, pk, bl2, hr)
  <2>1. \A q \in Reqs : RouteOK(k2, q, pk[q]) /\ PassedOK(pk[q])
    BY <1>2, ZenonT(40) DEF MidOK, PacketsOK, RouteOK
  <2>2. \A d \in CpuSide : bl2[d] # None => RefusedOK(d, pk[bl2[d]])
    BY DEF MidOK, PacketsOK
  <2> QED
    BY <2>1, <2>2, Zenon DEF MidOK, PacketsOK
<1> QED
  BY <1>3, <1>5, <1>6, ZenonT(40) DEF MidOK, k2

\* A layer that is busy after its retry wakes its line later.
LEMMA Settle ==
  ASSUME NEW k, NEW pk, NEW bl, NEW hr, NEW m \in MemSide, MidOK(k, pk, bl, hr, m)
  PROVE  StateOK([k EXCEPT !.reqLayers[m] = succeededTiming(@)], pk, bl, hr)
<1> DEFINE l == succeededTiming(k.reqLayers[m])
           k2 == [k EXCEPT !.reqLayers[m] = l]
<1>1. /\ k \in XBar /\ k.reqLayers \in Layers(MemSide, CpuSide)
      /\ bl \in [CpuSide -> Reqs \cup {None}] /\ ReqLines(k, bl)
      /\ k.reqLayers[m] \in Layer(CpuSide)
  BY Zenon DEF MidOK, Typed, XBar, Layers
<1>2. /\ l \in Layer(CpuSide) /\ l.state = "BUSY"
      /\ l.waitingForLayer = k.reqLayers[m].waitingForLayer
      /\ l.waitingForPeer = k.reqLayers[m].waitingForPeer
  BY <1>1, Zenon DEF succeededTiming, Layer
<1>3. [k EXCEPT !.reqLayers[m] = succeededTiming(@)] = k2
  BY <1>1, SMTT(30), Z3T(30) DEF XBar
<1> HIDE DEF l
<1>4. LineOK([k.reqLayers EXCEPT ![m] = l], CpuSide, bl)
  BY <1>1, <1>2, SameLines DEF ReqLines
<1>5. MidOK(k2, pk, bl, hr, m)
  BY <1>1, <1>2, <1>4, ReqLayerChange
<1>6. k2.reqLayers[m] = l
  BY <1>1, ZenonT(40) DEF XBar
<1> HIDE DEF k2
<1>7. ReqAwake(k2, None)
  BY <1>2, <1>5, <1>6 DEF MidOK, ReqAwake, free
<1> QED
  BY <1>3, <1>5, <1>7 DEF MidOK, StateOK

\* A request that its source drops is in no table.
LEMMA DropKeeps ==
  ASSUME NEW k, NEW pk, NEW bl, NEW hr, NEW m, MidOK(k, pk, bl, hr, m),
         NEW r \in Reqs, ~ Passed(pk[r]),
         \A d \in CpuSide : bl[d] # r
  PROVE  MidOK(k, [pk EXCEPT ![r] = None], bl, hr, m)
<1> DEFINE pk2 == [pk EXCEPT ![r] = None]
<1>1. Typed(k, pk2, bl, hr) /\ pk \in [Reqs -> Packet \cup {None}]
  BY Zenon DEF MidOK, Typed
<1>2. \A f \in CpuSide \cup MemSide : hr[f] # None => hr[f] \in Reqs /\ hr[f] # r
  BY DEF MidOK, Typed, PacketsOK, HeldOK
<1>3. \A d \in CpuSide : bl[d] # None => bl[d] \in Reqs /\ bl[d] # r
  BY ZenonT(40) DEF MidOK, Typed
<1>4. \A q \in Reqs : RouteOK(k, q, pk2[q]) /\ PassedOK(pk2[q])
  <2>1. ~ Passed(None)
    BY ZenonT(40) DEF Passed
  <2> QED
    BY <1>1, <2>1 DEF MidOK, PacketsOK, RouteOK, PassedOK
<1>5. PacketsOK(k, pk2, bl, hr)
  BY <1>1, <1>2, <1>3, <1>4 DEF MidOK, PacketsOK
<1> QED
  BY <1>1, <1>5 DEF MidOK

LEMMA RetryKeeps ==
  ASSUME Inv, NEW k, NEW m \in MemSide, MidOK(k, pkt, blocked, heldResp, m),
         retryIfFree(k, m), UNCHANGED heldResp
  PROVE  Inv'
<1> DEFINE lm == k.reqLayers[m]
           c == Head(lm.waitingForLayer)
           r == blocked[c]
           l == popWaiting(lm)
           k1 == [k EXCEPT !.reqLayers[m] = l]
           unblocked == [blocked EXCEPT ![c] = None]
<1>1. /\ k \in XBar /\ k.reqLayers \in Layers(MemSide, CpuSide)
      /\ blocked \in [CpuSide -> Reqs \cup {None}] /\ ReqLines(k, blocked)
      /\ lm \in Layer(CpuSide) /\ None \notin CpuSide
      /\ pkt \in [Reqs -> Packet \cup {None}]
      /\ PacketsOK(k, pkt, blocked, heldResp) /\ None \notin Reqs
  BY PortAssumption, Zenon DEF MidOK, Typed, XBar, Layers
<1>2. CASE ~ mayRetry(lm)
  <2>1. x' = k /\ pkt' = pkt /\ blocked' = blocked /\ aborted' = aborted
    BY <1>2, SMT, Z3T(30) DEF retryIfFree
  <2>2. ReqAwake(k, None)
    BY <1>2 DEF MidOK, ReqAwake, mayRetry
  <2> QED
    BY <2>1, <2>2 DEF Inv, StateOK, MidOK
<1>3. CASE mayRetry(lm)
  <2>1. lm.waitingForPeer = None /\ lm.waitingForLayer # <<>>
    BY <1>3 DEF mayRetry, free
  <2>2. /\ c \in CpuSide /\ r \in Reqs /\ l \in Layer(CpuSide)
        /\ LineOK([k.reqLayers EXCEPT ![m] = popWaiting(@)], CpuSide, unblocked)
    BY <1>1, <2>1, PopLeaves, ZenonT(40) DEF ReqLines
  <2>3. LineOK([k.reqLayers EXCEPT ![m] = l], CpuSide, unblocked)
    BY <2>2
  <2>4. [k EXCEPT !.reqLayers[m] = popWaiting(@)] = k1
    BY <1>1 DEF XBar
  <2>5. \/ \E by \in Responders(c, markSnoop(k1, pkt[r])) \cup {None}, taken \in BOOLEAN :
             LET out == recvTimingReq(k1, r, c, pkt[r], by, taken)
             IN  IF \/ unexpectedAccess(k1, pkt[r])
                    \/ pkt[r].type \in Bypassing /\ ~ out.ok
                 THEN aborted' = TRUE /\ UNCHANGED <<x, pkt, blocked>>
                 ELSE /\ x' = [out.k EXCEPT !.reqLayers[m] = succeededTiming(@)]
                      /\ pkt' = [pkt EXCEPT ![r] = out.p]
                      /\ blocked' = IF out.ok THEN unblocked ELSE [unblocked EXCEPT ![c] = r]
                      /\ UNCHANGED aborted
        \/ /\ isEviction(pkt[r])
           /\ x' = [k1 EXCEPT !.reqLayers[m] = succeededTiming(@)]
           /\ pkt' = [pkt EXCEPT ![r] = None]
           /\ blocked' = unblocked
           /\ UNCHANGED aborted
    <3>1. m # None
      BY PortAssumption, Zenon
    <3> QED
      BY <1>3, <2>4, <3>1, ZenonT(40) DEF retryIfFree, retryWaiting, Pass, endRetry
  <2> HIDE DEF l, r, c
  <2>6. \A d \in CpuSide : unblocked[d] \in {blocked[d], None}
    BY <1>1
  <2>7. unblocked \in [CpuSide -> Reqs \cup {None}] /\ unblocked[c] = None
    BY <1>1, <2>2
  <2> HIDE DEF lm, unblocked
  <2>8. MidOK(k1, pkt, unblocked, heldResp, m)
    BY <2>2, <2>3, <2>6, <2>7, ReqLayerChange, Zenon
  <2>9. RefusedOK(c, pkt[r]) /\ pkt[r] \in Packet
    BY <1>1, <2>2, SMTT(30), Z3T(30) DEF PacketsOK, RefusedOK, r
  <2>10. ~ Passed(pkt[r]) /\ pkt[r].at = pkt[r].src
    BY <2>9 DEF RefusedOK, Passed
  <2> HIDE DEF k1
  <2>11. MayPass(k1, r, c, pkt[r])
    BY <2>2, <2>8, <2>9, <2>10, Zenon DEF MayPass, MidOK, PacketsOK, RouteOK, RefusedOK
  <2>12. \A d \in CpuSide : unblocked[d] # r
    <3> SUFFICES ASSUME NEW d \in CpuSide, unblocked[d] = r PROVE FALSE
      OBVIOUS
    <3>1. RefusedOK(d, pkt[r])
      BY <1>1, <2>2, <2>8, ZenonT(40) DEF MidOK, PacketsOK
    <3> QED
      BY <1>1, <2>2, <2>7, <2>9, <3>1, Zenon DEF RefusedOK
  <2>13. \A f \in CpuSide \cup MemSide : heldResp[f] # r
    <3>1. PacketsOK(k, pkt, blocked, heldResp) /\ r \in Reqs
      BY <1>1, <2>2, Zenon
    <3> QED
      BY ONLY <2>10, <3>1, NobodyKeeps
  <2>14. ASSUME NEW by \in Responders(c, markSnoop(k1, pkt[r])) \cup {None},
                NEW taken \in BOOLEAN,
                LET out == recvTimingReq(k1, r, c, pkt[r], by, taken)
                IN  IF \/ unexpectedAccess(k1, pkt[r])
                       \/ pkt[r].type \in Bypassing /\ ~ out.ok
                    THEN aborted' = TRUE /\ UNCHANGED <<x, pkt, blocked>>
                    ELSE /\ x' = [out.k EXCEPT !.reqLayers[m] = succeededTiming(@)]
                         /\ pkt' = [pkt EXCEPT ![r] = out.p]
                         /\ blocked' = IF out.ok THEN unblocked ELSE [unblocked EXCEPT ![c] = r]
                         /\ UNCHANGED aborted
         PROVE  Inv'
    <3> DEFINE out == recvTimingReq(k1, r, c, pkt[r], by, taken)
               bl2 == IF out.ok THEN unblocked ELSE [unblocked EXCEPT ![c] = r]
    <3>1. CASE unexpectedAccess(k1, pkt[r])
      BY <2>14, <3>1 DEF Inv, StateOK
    <3>2. CASE ~ unexpectedAccess(k1, pkt[r])
      <4>1. pkt[r].type \notin Bypassing
        BY <2>9 DEF RefusedOK, Bypassing
      <4>2. MidOK(out.k, [pkt EXCEPT ![r] = out.p], bl2, heldResp, m)
        <5>1. PassPre(k1, pkt, unblocked, heldResp, m, r, c, pkt[r], by, taken)
          BY <2>2, <2>7, <2>8, <2>9, <2>11, <2>12, <2>13, <4>1, Zenon DEF PassPre
        <5>2. PassPost(k1, pkt, unblocked, heldResp, m, r, c, pkt[r], by, taken)
          BY ONLY <5>1, PassKept, Zenon
        <5> QED
          BY ONLY <5>2, Zenon DEF PassPost, out, bl2
      <4>3. /\ x' = [out.k EXCEPT !.reqLayers[m] = succeededTiming(@)]
            /\ pkt' = [pkt EXCEPT ![r] = out.p] /\ blocked' = bl2
            /\ aborted' = aborted
        BY <2>14, <3>2, <4>1
      <4> HIDE DEF out, bl2
      <4>4. StateOK(x', pkt', blocked', heldResp')
        BY <4>2, <4>3, Settle
      <4> QED
        BY <4>3, <4>4, ZenonT(40) DEF Inv
    <3> QED
      BY <3>1, <3>2
  <2>15. CASE /\ x' = [k1 EXCEPT !.reqLayers[m] = succeededTiming(@)]
              /\ pkt' = [pkt EXCEPT ![r] = None] /\ blocked' = unblocked
              /\ UNCHANGED aborted
    <3>1. MidOK(k1, [pkt EXCEPT ![r] = None], unblocked, heldResp, m)
      BY <2>2, <2>8, <2>10, <2>12, DropKeeps
    <3>2. StateOK(x', pkt', blocked', heldResp')
      BY <2>15, <3>1, Settle
    <3> QED
      BY <2>15, <3>2, SMT, Z3T(30) DEF Inv
  <2> QED
    BY <2>5, <2>14, <2>15, ZenonT(40)
<1> QED
  BY <1>2, <1>3

LEMMA ReleaseReqKeeps ==
  ASSUME Inv, NEW m \in MemSide, ReleaseReq(m)
  PROVE  Inv'
<1> DEFINE l == releaseLayer(x.reqLayers[m])
           k == [x EXCEPT !.reqLayers[m] = l]
<1>1. /\ x \in XBar /\ x.reqLayers \in Layers(MemSide, CpuSide)
      /\ blocked \in [CpuSide -> Reqs \cup {None}] /\ ReqLines(x, blocked)
      /\ x.reqLayers[m] \in Layer(CpuSide)
  BY Zenon DEF Inv, StateOK, MidOK, Typed, XBar, Layers
<1>2. /\ l \in Layer(CpuSide)
      /\ l.waitingForLayer = x.reqLayers[m].waitingForLayer
      /\ l.waitingForPeer = x.reqLayers[m].waitingForPeer
  BY <1>1 DEF releaseLayer, Layer
<1>3. retryIfFree([x EXCEPT !.reqLayers[m] = releaseLayer(@)], m) /\ UNCHANGED heldResp
  BY DEF ReleaseReq
<1>4. [x EXCEPT !.reqLayers[m] = releaseLayer(@)] = k
  BY <1>1, Zenon DEF XBar
<1> HIDE DEF l
<1>5. LineOK([x.reqLayers EXCEPT ![m] = l], CpuSide, blocked)
  BY <1>1, <1>2, SameLines, ZenonT(40) DEF ReqLines
<1>6. MidOK(x, pkt, blocked, heldResp, m)
  BY PortAssumption DEF Inv, StateOK, MidOK, ReqAwake
<1>7. MidOK(k, pkt, blocked, heldResp, m)
  BY <1>1, <1>2, <1>5, <1>6, ReqLayerChange
<1> HIDE DEF k
<1> QED
  BY <1>3, <1>4, <1>7, RetryKeeps

LEMMA recvReqRetryKeeps ==
  ASSUME Inv, NEW m \in MemSide, recvReqRetry(m)
  PROVE  Inv'
<1> DEFINE l == recvRetry(x.reqLayers[m])
           k == [x EXCEPT !.reqLayers[m] = l]
<1>1. /\ x \in XBar /\ x.reqLayers \in Layers(MemSide, CpuSide)
      /\ blocked \in [CpuSide -> Reqs \cup {None}] /\ ReqLines(x, blocked)
      /\ None \notin CpuSide
  BY PortAssumption, Zenon DEF Inv, StateOK, MidOK, Typed, XBar, Layers
<1>2. x.reqLayers[m].waitingForPeer # None
  BY DEF recvReqRetry
<1>3. /\ l \in Layer(CpuSide)
      /\ LineOK([x.reqLayers EXCEPT ![m] = recvRetry(@)], CpuSide, blocked)
  BY <1>1, <1>2, RetryMoves, Zenon DEF ReqLines
<1>4. retryIfFree([x EXCEPT !.reqLayers[m] = recvRetry(@)], m) /\ UNCHANGED heldResp
  BY DEF recvReqRetry
<1>5. [x EXCEPT !.reqLayers[m] = recvRetry(@)] = k
  BY <1>1 DEF XBar
<1>6. LineOK([x.reqLayers EXCEPT ![m] = l], CpuSide, blocked)
  BY <1>3
<1> HIDE DEF l
<1>7. MidOK(x, pkt, blocked, heldResp, m)
  BY PortAssumption DEF Inv, StateOK, MidOK, ReqAwake
<1>8. MidOK(k, pkt, blocked, heldResp, m)
  BY <1>1, <1>3, <1>6, <1>7, ReqLayerChange, ZenonT(40)
<1> HIDE DEF k
<1> QED
  BY <1>4, <1>5, <1>8, RetryKeeps

LEMMA DeliverFacts ==
  ASSUME NEW k \in XBar, NEW r \in Reqs, NEW c \in CpuSide, NEW p \in Packet
  PROVE  LET l == succeededTiming(k.respLayers[c])
         IN  /\ deliver(k, r, c, p) \in XBar
             /\ deliver(k, r, c, p).reqLayers = k.reqLayers
             /\ deliver(k, r, c, p).respLayers = [k.respLayers EXCEPT ![c] = l]
             /\ deliver(k, r, c, p).routeTo = [k.routeTo EXCEPT ![r] = None]
             /\ deliver(k, r, c, p).outstandingSnoop = k.outstandingSnoop
             /\ deliverSnoop(k, r, c) \in XBar
             /\ deliverSnoop(k, r, c).reqLayers = k.reqLayers
             /\ deliverSnoop(k, r, c).respLayers = [k.respLayers EXCEPT ![c] = l]
             /\ deliverSnoop(k, r, c).routeTo = [k.routeTo EXCEPT ![r] = None]
             /\ deliverSnoop(k, r, c).outstandingSnoop = k.outstandingSnoop \ {r}
<1> DEFINE l == succeededTiming(k.respLayers[c])
           s == setFakeSF(k, p)
           d == [s EXCEPT !.routeTo[r] = None, !.respLayers[c] = l]
           e == [k EXCEPT !.outstandingSnoop = @ \ {r}, !.routeTo[r] = None,
                          !.respLayers[c] = l]
<1>1. l \in Layer(MemSide \cup CpuSide)
  BY ZenonT(40) DEF XBar, succeededTiming, Layer
<1>2. /\ s \in XBar /\ s.reqLayers = k.reqLayers /\ s.respLayers = k.respLayers
      /\ s.routeTo = k.routeTo /\ s.outstandingSnoop = k.outstandingSnoop
  BY Zenon DEF XBar, setFakeSF, Packet
<1>3. deliver(k, r, c, p) = d /\ deliverSnoop(k, r, c) = e
  BY <1>2 DEF deliver, deliverSnoop, XBar
<1> HIDE DEF l, s
<1>4. /\ d \in XBar /\ d.reqLayers = s.reqLayers
      /\ d.respLayers = [s.respLayers EXCEPT ![c] = l]
      /\ d.routeTo = [s.routeTo EXCEPT ![r] = None]
      /\ d.outstandingSnoop = s.outstandingSnoop
  BY <1>1, <1>2, Zenon DEF XBar
<1>5. /\ e \in XBar /\ e.reqLayers = k.reqLayers
      /\ e.respLayers = [k.respLayers EXCEPT ![c] = l]
      /\ e.routeTo = [k.routeTo EXCEPT ![r] = None]
      /\ e.outstandingSnoop = k.outstandingSnoop \ {r}
  BY <1>1, Zenon DEF XBar
<1> HIDE DEF d, e
<1> QED
  BY <1>2, <1>3, <1>4, <1>5 DEF l

\* As RespAwake, but layer e has just been released.
RespAwakeBut(k, hr, e) ==
  \A c \in CpuSide :
    LET l == k.respLayers[c]
    IN  /\ l.waitingForPeer = None
        /\ l.waitingForLayer # <<>> => l.state = "BUSY" \/ c = e
        /\ \A i \in 1 .. Len(l.waitingForLayer) :
             k.routeTo[hr[l.waitingForLayer[i]]] = c

\* Port f, which holds no response, answers request r with packet p.  Its layer
\* may be one that has just been released.
LEMMA AnswerKeeps ==
  ASSUME NEW k, NEW hr, Typed(k, pkt, blocked, hr), ReqLines(k, blocked), RespLines(k, hr),
         ReqAwake(k, None), PacketsOK(k, pkt, blocked, hr),
         NEW f \in CpuSide \cup MemSide, NEW r \in Reqs, NEW p \in Packet,
         RespAwakeBut(k, hr, k.routeTo[r]),
         Passed(pkt[r]), pkt[r].at = f,
         p.src = pkt[r].src, p.at = pkt[r].at, p.cmd = pkt[r].cmd,
         f = RC => p.type # "CXLcacheH2DReq",
         hr = [heldResp EXCEPT ![f] = None],
         heldResp \in [CpuSide \cup MemSide -> Reqs \cup {None}],
         Answer(k, f, r, p), UNCHANGED <<blocked, aborted>>, aborted \in BOOLEAN
  PROVE  Inv'
<1> DEFINE c == k.routeTo[r]
           lc == k.respLayers[c]
<1>1. /\ k \in XBar /\ pkt \in [Reqs -> Packet \cup {None}]
      /\ hr \in [CpuSide \cup MemSide -> Reqs \cup {None}]
      /\ blocked \in [CpuSide -> Reqs \cup {None}]
      /\ k.respLayers \in Layers(CpuSide, CpuSide \cup MemSide)
      /\ None \notin CpuSide \cup MemSide /\ None \notin Reqs
      /\ CpuSide \cap MemSide = {} /\ hr[f] = None
      /\ MemSide \cup CpuSide = CpuSide \cup MemSide
  BY PortAssumption, Zenon DEF Typed, XBar, Layers
<1>2. RouteOK(k, r, pkt[r]) /\ PassedOK(pkt[r]) /\ pkt[r] # None /\ pkt[r] \in Packet
  BY <1>1, Zenon DEF PacketsOK, Passed
<1>3. c = p.src /\ c \in CpuSide
  BY <1>2, ZenonT(40) DEF RouteOK, Packet
<1> HIDE DEF c
<1>4. \A g \in CpuSide \cup MemSide : hr[g] # r
  <2> SUFFICES ASSUME NEW g \in CpuSide \cup MemSide, hr[g] = r PROVE FALSE
    BY Zenon
  <2>1. r # None
    BY <1>1, Zenon
  <2>2. HeldOK(g, pkt[r])
    BY <2>1, Zenon DEF PacketsOK
  <2>3. g = f
    BY <2>2, ZenonT(40) DEF HeldOK
  <2> QED
    BY <1>1, <2>1, <2>3, Zenon
<1>5. \A d \in CpuSide : blocked[d] # r
  <2>1. pkt[r].at # pkt[r].src
    BY ZenonT(40) DEF Passed
  <2> QED
    BY ONLY <2>1, PacketsOK(k, pkt, blocked, hr), r \in Reqs, NobodyKeeps
<1>6. lc \in Layer(CpuSide \cup MemSide) /\ DOMAIN k.respLayers = CpuSide
  BY <1>1, <1>3, Zenon DEF Layers
<1>7. \A d \in CpuSide : \A i \in 1 .. Len(k.respLayers[d].waitingForLayer) :
        /\ k.respLayers[d].waitingForLayer[i] \in CpuSide \cup MemSide
        /\ hr[k.respLayers[d].waitingForLayer[i]] \in Reqs \ {r}
  <2> TAKE d \in CpuSide
  <2> TAKE i \in 1 .. Len(k.respLayers[d].waitingForLayer)
  <2>1. /\ k.respLayers[d].waitingForLayer[i] \in CpuSide \cup MemSide
        /\ hr[k.respLayers[d].waitingForLayer[i]] \in Reqs
    BY <1>1, HeldWaits, Zenon
  <2> QED
    BY <1>4, <2>1, ZenonT(40)
<1>8. \A d \in CpuSide :
        /\ k.respLayers[d].waitingForPeer = None
        /\ k.respLayers[d].waitingForLayer # <<>> => k.respLayers[d].state = "BUSY" \/ d = c
        /\ \A i \in 1 .. Len(k.respLayers[d].waitingForLayer) :
             k.routeTo[hr[k.respLayers[d].waitingForLayer[i]]] = d
  BY Zenon DEF RespAwakeBut, c
<1>9. CASE free(lc)
  <2> DEFINE l == succeededTiming(lc)
             pk2 == [pkt EXCEPT ![r] = None]
  <2>1. /\ x' = IF f \in MemSide THEN deliver(k, r, c, p) ELSE deliverSnoop(k, r, c)
        /\ pkt' = pk2 /\ heldResp' = [heldResp EXCEPT ![f] = None]
    BY <1>9, ZenonT(40) DEF Answer, c
  <2>2. heldResp' = hr
    BY <2>1, SMTT(30), Z3T(30)
  <2>3. f \in MemSide => r \notin k.outstandingSnoop
    BY <1>1, <1>2 DEF RouteOK
  <2>4. /\ x' \in XBar /\ x'.reqLayers = k.reqLayers
        /\ x'.respLayers = [k.respLayers EXCEPT ![c] = l]
        /\ x'.routeTo = [k.routeTo EXCEPT ![r] = None]
        /\ x'.outstandingSnoop = k.outstandingSnoop \ {r}
    <3> DEFINE y == deliver(k, r, c, p)
               z == deliverSnoop(k, r, c)
    <3>0. /\ y \in XBar /\ y.reqLayers = k.reqLayers
          /\ y.respLayers = [k.respLayers EXCEPT ![c] = l]
          /\ y.routeTo = [k.routeTo EXCEPT ![r] = None]
          /\ y.outstandingSnoop = k.outstandingSnoop
          /\ z \in XBar /\ z.reqLayers = k.reqLayers
          /\ z.respLayers = [k.respLayers EXCEPT ![c] = l]
          /\ z.routeTo = [k.routeTo EXCEPT ![r] = None]
          /\ z.outstandingSnoop = k.outstandingSnoop \ {r}
      <4>1. k \in XBar /\ c \in CpuSide
        BY <1>1, <1>3, Zenon
      <4> QED
        BY ONLY <4>1, r \in Reqs, p \in Packet, DeliverFacts DEF l, lc
    <3>3. x' = IF f \in MemSide THEN y ELSE z
      BY <2>1, Zenon
    <3> HIDE DEF y, z, l
    <3>1. CASE f \in MemSide
      <4>1. k.outstandingSnoop = k.outstandingSnoop \ {r}
        BY <2>3, <3>1, Zenon
      <4> QED
        BY <3>0, <3>1, <3>3, <4>1, Zenon
    <3>2. CASE f \notin MemSide
      BY <3>0, <3>2, <3>3, Zenon
    <3> QED
      BY <3>1, <3>2, ZenonT(40)
  <2>5. /\ l \in Layer(CpuSide \cup MemSide) /\ l.state = "BUSY"
        /\ l.waitingForLayer = lc.waitingForLayer /\ l.waitingForPeer = lc.waitingForPeer
    BY <1>6 DEF succeededTiming, Layer
  <2> HIDE DEF l
  <2>6. RespLines(x', hr)
    <3>1. LineOK([k.respLayers EXCEPT ![c] = l], CpuSide \cup MemSide, hr)
      BY <1>1, <1>3, <2>5, SameLines, Zenon DEF RespLines
    <3> QED
      BY <2>4, <3>1, Zenon DEF RespLines
  <2>7. RespAwake(x', hr)
    <3>1. \A d \in CpuSide :
            /\ x'.respLayers[d].waitingForLayer = k.respLayers[d].waitingForLayer
            /\ x'.respLayers[d].waitingForPeer = k.respLayers[d].waitingForPeer
            /\ x'.respLayers[d].state = IF d = c THEN "BUSY" ELSE k.respLayers[d].state
      BY <1>6, <2>4, <2>5, Zenon
    <3>2. \A q \in Reqs \ {r} : x'.routeTo[q] = k.routeTo[q]
      BY <1>1, <2>4, ZenonT(40) DEF XBar
    <3>3. \A d \in CpuSide : \A i \in 1 .. Len(x'.respLayers[d].waitingForLayer) :
            x'.routeTo[hr[x'.respLayers[d].waitingForLayer[i]]] = d
      <4> TAKE d \in CpuSide
      <4>1. x'.respLayers[d].waitingForLayer = k.respLayers[d].waitingForLayer
        BY <3>1, ZenonT(40)
      <4> TAKE i \in 1 .. Len(x'.respLayers[d].waitingForLayer)
      <4>2. hr[k.respLayers[d].waitingForLayer[i]] \in Reqs \ {r}
        BY <1>7, <4>1, Zenon
      <4>3. k.routeTo[hr[k.respLayers[d].waitingForLayer[i]]] = d
        BY <1>8, <4>1, ZenonT(40)
      <4> QED
        BY <3>2, <4>1, <4>2, <4>3, ZenonT(40)
    <3>4. \A d \in CpuSide :
            /\ x'.respLayers[d].waitingForPeer = None
            /\ x'.respLayers[d].waitingForLayer # <<>> => x'.respLayers[d].state = "BUSY"
      BY <1>8, <3>1, Zenon
    <3> QED
      BY <3>3, <3>4, Zenon DEF RespAwake
  <2>8. Typed(x', pk2, blocked, hr) /\ ReqLines(x', blocked) /\ ReqAwake(x', None)
    BY <1>1, <2>4, Zenon DEF Typed, ReqLines, ReqAwake
  <2>9. PacketsOK(x', pk2, blocked, hr)
    <3>1. ~ Passed(None)
      BY Zenon DEF Passed
    <3>2. k.routeTo \in [Reqs -> CpuSide \cup {None}]
      BY <1>1, ZenonT(40) DEF XBar
    <3>3. \A q \in Reqs : RouteOK(x', q, pk2[q]) /\ PassedOK(pk2[q])
      BY <1>1, <2>4, <3>1, <3>2 DEF PacketsOK, RouteOK, PassedOK
    <3> QED
      BY <1>1, <1>4, <1>5, <3>3, Zenon DEF PacketsOK
  <2> QED
    BY <2>1, <2>2, <2>6, <2>7, <2>8, <2>9, Zenon DEF Inv, StateOK, MidOK
<1>10. CASE ~ free(lc)
  <2> DEFINE l == wait(lc, f)
             pk2 == [pkt EXCEPT ![r] = p]
             hr2 == [hr EXCEPT ![f] = r]
  <2>1. /\ x' = [k EXCEPT !.respLayers[c] = wait(@, f)]
        /\ pkt' = pk2 /\ heldResp' = [heldResp EXCEPT ![f] = r]
    BY <1>10 DEF Answer, c
  <2>2. heldResp' = hr2 /\ hr2 \in [CpuSide \cup MemSide -> Reqs \cup {None}]
    BY <1>1, <2>1, SMTT(30)
  <2>3. /\ l \in Layer(CpuSide \cup MemSide)
        /\ LineOK([k.respLayers EXCEPT ![c] = wait(@, f)], CpuSide \cup MemSide, hr2)
    <3>1. LineOK(k.respLayers, CpuSide \cup MemSide, hr)
      BY Zenon DEF RespLines
    <3> QED
      BY ONLY <1>1, <1>3, <3>1, f \in CpuSide \cup MemSide, r \in Reqs, WaitJoins, ZenonT(40)
  <2>4. x' = [k EXCEPT !.respLayers[c] = l]
    BY <1>1, <1>3, <2>1 DEF XBar
  <2>5. /\ x' \in XBar /\ x'.reqLayers = k.reqLayers
        /\ x'.respLayers = [k.respLayers EXCEPT ![c] = l]
        /\ x'.routeTo = k.routeTo /\ x'.outstandingSnoop = k.outstandingSnoop
    BY <1>1, <1>3, <2>3, <2>4, SetRespLayer
  <2>6. RespLines(x', hr2)
    BY <2>3, <2>5, Zenon DEF RespLines
  <2>7. /\ l.state = "BUSY" /\ l.waitingForPeer = None
        /\ l.waitingForLayer = Append(lc.waitingForLayer, f)
        /\ lc.waitingForLayer \in Seq(CpuSide \cup MemSide)
    BY <1>3, <1>6, <1>8, <1>10, Zenon DEF free, wait, Layer
  <2> HIDE DEF l
  <2>8. RespAwake(x', hr2)
    <3> SUFFICES ASSUME NEW d \in CpuSide
                 PROVE  /\ x'.respLayers[d].waitingForPeer = None
                        /\ x'.respLayers[d].waitingForLayer # <<>>
                             => x'.respLayers[d].state = "BUSY"
                        /\ \A i \in 1 .. Len(x'.respLayers[d].waitingForLayer) :
                             x'.routeTo[hr2[x'.respLayers[d].waitingForLayer[i]]] = d
      BY Zenon DEF RespAwake
    <3>1. \A i \in 1 .. Len(k.respLayers[d].waitingForLayer) :
            hr2[k.respLayers[d].waitingForLayer[i]] = hr[k.respLayers[d].waitingForLayer[i]]
      BY <1>1, <1>7, Zenon
    <3>2. CASE d # c
      <4>1. x'.respLayers[d] = k.respLayers[d]
        BY <1>6, <2>5, <3>2, Zenon
      <4>2. \A i \in 1 .. Len(k.respLayers[d].waitingForLayer) :
              k.routeTo[hr[k.respLayers[d].waitingForLayer[i]]] = d
        BY <1>8, Zenon
      <4>3. \A i \in 1 .. Len(k.respLayers[d].waitingForLayer) :
              k.routeTo[hr2[k.respLayers[d].waitingForLayer[i]]] = d
        BY <3>1, <4>2, Zenon
      <4> QED
        <5>1. x'.routeTo = k.routeTo
          BY <2>5, Zenon
        <5>2. /\ k.respLayers[d].waitingForPeer = None
              /\ k.respLayers[d].waitingForLayer # <<>> => k.respLayers[d].state = "BUSY"
          BY <1>8, <3>2, Zenon
        <5> QED
          BY <4>1, <4>3, <5>1, <5>2, Zenon
    <3>3. CASE d = c
      <4>1. x'.respLayers[d] = l
        BY <1>3, <1>6, <2>5, <3>3, Zenon
      <4>2. /\ Len(Append(lc.waitingForLayer, f)) = Len(lc.waitingForLayer) + 1
            /\ Append(lc.waitingForLayer, f)[Len(lc.waitingForLayer) + 1] = f
            /\ \A i \in 1 .. Len(lc.waitingForLayer) :
                 Append(lc.waitingForLayer, f)[i] = lc.waitingForLayer[i]
            /\ Len(lc.waitingForLayer) \in Nat
        <5>1. Len(lc.waitingForLayer) \in Nat
          BY ONLY <2>7
        <5> QED
          BY ONLY <2>7, <5>1, f \in CpuSide \cup MemSide, SeqFacts, SMTT(30), Z3T(30)
      <4>3. \A i \in 1 .. Len(l.waitingForLayer) :
              i = Len(lc.waitingForLayer) + 1 \/ i \in 1 .. Len(lc.waitingForLayer)
        BY ONLY <2>7, <4>2, SMT, Z3T(30)
      <4>4. hr2[f] = r /\ k.routeTo[r] = c
        BY <1>1, Zenon DEF c
      <4>5. \A i \in 1 .. Len(l.waitingForLayer) : k.routeTo[hr2[l.waitingForLayer[i]]] = d
        <5> TAKE i \in 1 .. Len(l.waitingForLayer)
        <5>1. CASE i = Len(lc.waitingForLayer) + 1
          BY <2>7, <3>3, <4>2, <4>4, <5>1, Zenon
        <5>2. CASE i \in 1 .. Len(lc.waitingForLayer)
          <6>1. l.waitingForLayer[i] = lc.waitingForLayer[i]
            BY <2>7, <4>2, <5>2, Zenon
          <6>2. hr2[lc.waitingForLayer[i]] = hr[lc.waitingForLayer[i]]
            BY <3>1, <3>3, <5>2, Zenon
          <6>3. k.routeTo[hr[lc.waitingForLayer[i]]] = d
            BY <1>8, <3>3, <5>2, Zenon
          <6> QED
            BY <6>1, <6>2, <6>3, Zenon
        <5> QED
          BY <4>3, <5>1, <5>2, Zenon
      <4> QED
        BY <2>5, <2>7, <4>1, <4>5, ZenonT(40)
    <3> QED
      BY <3>2, <3>3, ZenonT(40)
  <2>9. Typed(x', pk2, blocked, hr2) /\ ReqLines(x', blocked) /\ ReqAwake(x', None)
    BY <1>1, <2>2, <2>5, Zenon DEF Typed, ReqLines, ReqAwake
  <2>10. PacketsOK(x', pk2, blocked, hr2)
    <3>1. p # None /\ Passed(p)
      BY TrafficAssumption, ZenonT(40) DEF Passed
    <3>2. \A q \in Reqs : RouteOK(x', q, pk2[q]) /\ PassedOK(pk2[q])
      BY <1>1, <1>2, <2>5, <3>1 DEF PacketsOK, RouteOK, PassedOK, needsResponse
    <3>3. HeldOK(f, p)
      BY <3>1, Zenon DEF HeldOK
    <3> QED
      BY <1>1, <1>4, <1>5, <3>2, <3>3, ZenonT(40) DEF PacketsOK
  <2> QED
    BY <2>1, <2>2, <2>6, <2>8, <2>9, <2>10, Zenon DEF Inv, StateOK, MidOK
<1> QED
  BY <1>9, <1>10

LEMMA SendRespKeeps ==
  ASSUME Inv, NEW f \in MemSide \cup CpuSide, NEW r \in Reqs, SendResp(f, r)
  PROVE  Inv'
<1> DEFINE p == IF f = RC /\ pkt[r].type = "CXLcacheH2DReq"
                THEN [pkt[r] EXCEPT !.type = "CXLcacheH2DResp"] ELSE pkt[r]
<1>1. /\ pkt[r] # None /\ heldResp[f] = None /\ pkt[r].at = f /\ f # pkt[r].src
      /\ Answer(x, f, r, p) /\ UNCHANGED <<blocked, aborted>>
  BY DEF SendResp
<1>2. /\ Typed(x, pkt, blocked, heldResp) /\ ReqLines(x, blocked) /\ RespLines(x, heldResp)
      /\ ReqAwake(x, None) /\ RespAwake(x, heldResp)
      /\ PacketsOK(x, pkt, blocked, heldResp) /\ aborted \in BOOLEAN
  BY DEF Inv, StateOK, MidOK
<1>3. /\ heldResp \in [CpuSide \cup MemSide -> Reqs \cup {None}]
      /\ pkt[r] \in Packet /\ f \in CpuSide \cup MemSide
  BY <1>1, <1>2 DEF Typed
<1>4. heldResp = [heldResp EXCEPT ![f] = None]
  BY <1>1, <1>3
<1>5. /\ p \in Packet /\ p.src = pkt[r].src /\ p.at = pkt[r].at /\ p.cmd = pkt[r].cmd
      /\ f = RC => p.type # "CXLcacheH2DReq"
  BY <1>3 DEF Packet, Types
<1>6. RespAwakeBut(x, heldResp, x.routeTo[r])
  BY <1>2, Zenon DEF RespAwake, RespAwakeBut
<1>7. Passed(pkt[r])
  BY <1>1 DEF Passed
<1> HIDE DEF p
<1> QED
  BY <1>1, <1>2, <1>3, <1>4, <1>5, <1>6, <1>7, AnswerKeeps, Zenon

LEMMA ReleaseRespKeeps ==
  ASSUME Inv, NEW c \in CpuSide, ReleaseResp(c)
  PROVE  Inv'
<1> DEFINE S == CpuSide \cup MemSide
           l1 == releaseLayer(x.respLayers[c])
           k1 == [x EXCEPT !.respLayers[c] = l1]
           f == Head(l1.waitingForLayer)
           r == heldResp[f]
           l2 == popWaiting(l1)
           k2 == [x EXCEPT !.respLayers[c] = l2]
           hr == [heldResp EXCEPT ![f] = None]
<1>1. /\ Typed(x, pkt, blocked, heldResp) /\ ReqLines(x, blocked) /\ RespLines(x, heldResp)
      /\ ReqAwake(x, None) /\ RespAwake(x, heldResp)
      /\ PacketsOK(x, pkt, blocked, heldResp) /\ aborted \in BOOLEAN
  BY DEF Inv, StateOK, MidOK
<1>2. /\ x \in XBar /\ x.respLayers \in Layers(CpuSide, S) /\ x.respLayers[c] \in Layer(S)
      /\ heldResp \in [S -> Reqs \cup {None}] /\ pkt \in [Reqs -> Packet \cup {None}]
      /\ DOMAIN x.respLayers = CpuSide
      /\ None \notin S /\ None \notin Reqs /\ S = MemSide \cup CpuSide
  BY <1>1, PortAssumption, Zenon DEF Typed, XBar, Layers
<1>3. /\ l1 \in Layer(S) /\ l1.waitingForLayer = x.respLayers[c].waitingForLayer
      /\ l1.waitingForPeer = x.respLayers[c].waitingForPeer
  BY <1>2 DEF releaseLayer, Layer
<1>4. x.respLayers[c].waitingForPeer = None
  BY <1>1, Zenon DEF RespAwake
<1>5. [x EXCEPT !.respLayers[c] = releaseLayer(@)] = k1
  BY <1>2 DEF XBar
<1>6. k1.respLayers[c] = l1 /\ [k1 EXCEPT !.respLayers[c] = popWaiting(@)] = k2
  <2> HIDE DEF l1
  <2>1. k1.respLayers[c] = l1
    BY <1>2 DEF XBar
  <2>2. [k1 EXCEPT !.respLayers[c] = popWaiting(l1)] = k2
    BY <1>2, ZenonT(40) DEF XBar
  <2>3. [k1 EXCEPT !.respLayers[c] = popWaiting(@)] = [k1 EXCEPT !.respLayers[c] = popWaiting(k1.respLayers[c])]
    BY <1>2, Zenon DEF XBar
  <2> QED
    BY <2>1, <2>2, <2>3, Zenon
<1>7. /\ IF l1.waitingForLayer = <<>>
         THEN x' = k1 /\ UNCHANGED <<pkt, heldResp>>
         ELSE Answer(k2, f, r, pkt[r])
      /\ UNCHANGED <<blocked, aborted>>
  BY <1>5, <1>6 DEF ReleaseResp
<1>8. /\ k1 \in XBar /\ k1.respLayers = [x.respLayers EXCEPT ![c] = l1]
      /\ k1.reqLayers = x.reqLayers /\ k1.routeTo = x.routeTo
      /\ k1.outstandingSnoop = x.outstandingSnoop
  BY <1>2, <1>3, SetRespLayer
<1> HIDE DEF l1, k1, S
<1>9. LineOK([x.respLayers EXCEPT ![c] = l1], S, heldResp)
  BY <1>1, <1>2, <1>3, SameLines, Zenon DEF RespLines, S
<1>10. CASE l1.waitingForLayer = <<>>
  <2>1. RespLines(k1, heldResp)
    BY <1>8, <1>9, ZenonT(40) DEF RespLines, S
  <2>2. \A d \in CpuSide :
          /\ k1.respLayers[d].waitingForLayer = x.respLayers[d].waitingForLayer
          /\ k1.respLayers[d].waitingForPeer = x.respLayers[d].waitingForPeer
          /\ d # c => k1.respLayers[d].state = x.respLayers[d].state
    BY <1>2, <1>3, <1>8
  <2>3. RespAwake(k1, heldResp)
    <3>1. k1.respLayers[c].waitingForLayer = <<>>
      BY ONLY <1>2, <1>8, <1>10, SMT, Z3T(30)
    <3> QED
      <4>1. \A d \in CpuSide :
              /\ x.respLayers[d].waitingForPeer = None
              /\ x.respLayers[d].waitingForLayer # <<>> => x.respLayers[d].state = "BUSY"
              /\ \A i \in 1 .. Len(x.respLayers[d].waitingForLayer) :
                   x.routeTo[heldResp[x.respLayers[d].waitingForLayer[i]]] = d
        BY <1>1, ZenonT(40) DEF RespAwake
      <4>2. \A d \in CpuSide :
              /\ k1.respLayers[d].waitingForPeer = None
              /\ \A i \in 1 .. Len(k1.respLayers[d].waitingForLayer) :
                   k1.routeTo[heldResp[k1.respLayers[d].waitingForLayer[i]]] = d
        <5> TAKE d \in CpuSide
        <5>1. /\ k1.respLayers[d].waitingForLayer = x.respLayers[d].waitingForLayer
              /\ k1.respLayers[d].waitingForPeer = x.respLayers[d].waitingForPeer
              /\ k1.routeTo = x.routeTo
          BY ONLY <1>8, <2>2, d \in CpuSide, Zenon
        <5>2. /\ x.respLayers[d].waitingForPeer = None
              /\ \A i \in 1 .. Len(x.respLayers[d].waitingForLayer) :
                   x.routeTo[heldResp[x.respLayers[d].waitingForLayer[i]]] = d
          BY ONLY <4>1, d \in CpuSide, Zenon
        <5> QED
          BY ONLY <5>1, <5>2, SMTT(30), Z3T(30)
      <4>3. \A d \in CpuSide :
              k1.respLayers[d].waitingForLayer # <<>> => k1.respLayers[d].state = "BUSY"
        BY <2>2, <3>1, <4>1, ZenonT(40)
      <4> QED
        BY <4>2, <4>3, Zenon DEF RespAwake
  <2>4. Typed(k1, pkt, blocked, heldResp) /\ ReqLines(k1, blocked) /\ ReqAwake(k1, None)
    BY <1>1, <1>8 DEF Typed, ReqLines, ReqAwake
  <2>5. PacketsOK(k1, pkt, blocked, heldResp)
    BY <1>1, <1>8, Zenon DEF PacketsOK, RouteOK
  <2>6. x' = k1 /\ pkt' = pkt /\ blocked' = blocked /\ heldResp' = heldResp /\ aborted' = aborted
    BY <1>7, <1>10
  <2> QED
    BY <1>1, <2>1, <2>3, <2>4, <2>5, <2>6, Zenon DEF Inv, StateOK, MidOK
<1>11. CASE l1.waitingForLayer # <<>>
  <2> DEFINE new == [x.respLayers EXCEPT ![c] = l1]
  <2>1. new \in Layers(CpuSide, S) /\ new[c] = l1
    BY <1>2, <1>3, Zenon DEF Layers
  <2>2. /\ f \in S /\ r \in Reqs /\ l2 \in Layer(S)
        /\ LineOK([new EXCEPT ![c] = popWaiting(@)], S, hr)
    <3>1. new[c].waitingForPeer = None /\ new[c].waitingForLayer # <<>>
      BY <1>3, <1>4, <1>11, <2>1, Zenon
    <3>2. LineOK(new, S, heldResp)
      BY <1>9, Zenon
    <3> HIDE DEF new
    <3> QED
      BY <1>2, <2>1, <3>1, <3>2, PopLeaves, ZenonT(40)
  <2>3. [new EXCEPT ![c] = popWaiting(@)] = [x.respLayers EXCEPT ![c] = l2]
    BY <1>2
  <2>4. /\ k2 \in XBar /\ k2.respLayers = [x.respLayers EXCEPT ![c] = l2]
        /\ k2.reqLayers = x.reqLayers /\ k2.routeTo = x.routeTo
        /\ k2.outstandingSnoop = x.outstandingSnoop
    <3> HIDE DEF l2
    <3> QED
      BY <1>2, <2>2, SetRespLayer, SMTT(30), Z3T(30)
  <2>5. l2.waitingForPeer = None /\ l2.waitingForLayer = Tail(l1.waitingForLayer)
    BY <1>3, <1>4 DEF popWaiting, Layer
  <2>6. /\ f = l1.waitingForLayer[1] /\ Len(l1.waitingForLayer) >= 1
        /\ Len(l1.waitingForLayer) \in Nat
        /\ Len(Tail(l1.waitingForLayer)) = Len(l1.waitingForLayer) - 1
        /\ \A i \in 1 .. Len(l1.waitingForLayer) - 1 :
             Tail(l1.waitingForLayer)[i] = l1.waitingForLayer[i + 1]
    <3>1. l1.waitingForLayer \in Seq(S)
      BY <1>3, Zenon DEF Layer
    <3> QED
      BY <1>11, <2>2, <3>1, SeqFacts
  <2>7. \A i \in 1 .. Len(l1.waitingForLayer) : x.routeTo[heldResp[l1.waitingForLayer[i]]] = c
    BY <1>1, <1>3, ZenonT(40) DEF RespAwake
  <2>8. x.routeTo[r] = c
    BY <2>6, <2>7, SMTT(30)
  <2> HIDE DEF l2, k2, new, f, r
  <2>9. RespLines(k2, hr)
    BY <2>2, <2>3, <2>4, ZenonT(40) DEF RespLines, S
  <2>10. hr \in [S -> Reqs \cup {None}] /\ hr[f] = None /\ \A g \in S : g # f => hr[g] = heldResp[g]
    BY <1>2, <2>2
  <2>11. HeldOK(f, pkt[r])
    BY <1>1, <1>2, <2>2, ZenonT(40) DEF PacketsOK, r, S
  <2> HIDE DEF hr
  <2>12. Typed(k2, pkt, blocked, hr) /\ ReqLines(k2, blocked) /\ ReqAwake(k2, None)
    BY <1>1, <2>4, <2>10 DEF Typed, ReqLines, ReqAwake, S
  <2>13. PacketsOK(k2, pkt, blocked, hr)
    <3>1. \A q \in Reqs : RouteOK(k2, q, pkt[q]) /\ PassedOK(pkt[q])
      BY <1>1, <2>4, Zenon DEF PacketsOK, RouteOK
    <3>2. \A g \in S : hr[g] # None => HeldOK(g, pkt[hr[g]])
      BY <1>1, <2>10, ZenonT(40) DEF PacketsOK, S
    <3> QED
      BY <1>1, <3>1, <3>2, Zenon DEF PacketsOK, S
  <2>14. RespAwakeBut(k2, hr, k2.routeTo[r])
    <3> SUFFICES ASSUME NEW d \in CpuSide
                 PROVE  /\ k2.respLayers[d].waitingForPeer = None
                        /\ k2.respLayers[d].waitingForLayer # <<>>
                             => k2.respLayers[d].state = "BUSY" \/ d = k2.routeTo[r]
                        /\ \A i \in 1 .. Len(k2.respLayers[d].waitingForLayer) :
                             k2.routeTo[hr[k2.respLayers[d].waitingForLayer[i]]] = d
      BY DEF RespAwakeBut
    <3>1. \A i \in 1 .. Len(k2.respLayers[d].waitingForLayer) :
            LET g == k2.respLayers[d].waitingForLayer[i]
            IN  g \in S /\ hr[g] \in Reqs
      BY <2>4, <2>9, <2>10, HeldWaits, ZenonT(40) DEF S
    <3>2. \A g \in S : hr[g] \in Reqs => hr[g] = heldResp[g]
      BY <1>2, <2>10
    <3>3. CASE d # c
      <4>1. k2.respLayers[d] = x.respLayers[d]
        BY ONLY <1>2, <2>4, <3>3, SMT, Z3T(30)
      <4>2. /\ x.respLayers[d].waitingForPeer = None
            /\ x.respLayers[d].waitingForLayer # <<>> => x.respLayers[d].state = "BUSY"
            /\ \A i \in 1 .. Len(x.respLayers[d].waitingForLayer) :
                 x.routeTo[heldResp[x.respLayers[d].waitingForLayer[i]]] = d
        BY <1>1 DEF RespAwake
      <4>3. \A i \in 1 .. Len(k2.respLayers[d].waitingForLayer) :
              k2.routeTo[hr[k2.respLayers[d].waitingForLayer[i]]] = d
        <5> TAKE i \in 1 .. Len(k2.respLayers[d].waitingForLayer)
        <5>1. x.routeTo[heldResp[k2.respLayers[d].waitingForLayer[i]]] = d
          BY ONLY <4>1, <4>2, SMT, Z3T(30)
        <5> QED
          BY <2>4, <3>1, <3>2, <5>1, ZenonT(40)
      <4> QED
        BY <4>1, <4>2, <4>3, ZenonT(40)
    <3>4. CASE d = c
      <4>1. k2.respLayers[d] = l2
        BY ONLY <1>2, <2>4, <3>4
      <4>2. \A i \in 1 .. Len(k2.respLayers[d].waitingForLayer) :
              k2.routeTo[hr[k2.respLayers[d].waitingForLayer[i]]] = d
        <5> TAKE i \in 1 .. Len(k2.respLayers[d].waitingForLayer)
        <5>1. i \in 1 .. Len(l1.waitingForLayer) - 1 /\ i + 1 \in 1 .. Len(l1.waitingForLayer)
          <6>1. i \in 1 .. Len(l1.waitingForLayer) - 1
            BY <2>5, <2>6, <4>1, Zenon
          <6> QED
            BY <2>6, <6>1
        <5>2. k2.respLayers[d].waitingForLayer[i] = l1.waitingForLayer[i + 1]
          BY <2>5, <2>6, <4>1, <5>1, ZenonT(40)
        <5>3. x.routeTo[heldResp[l1.waitingForLayer[i + 1]]] = c
          BY ONLY <2>7, <5>1
        <5> QED
          BY <2>4, <3>1, <3>2, <3>4, <5>2, <5>3, ZenonT(40)
      <4> QED
        BY ONLY <2>4, <2>5, <2>8, <3>4, <4>1, <4>2, SMT, Z3T(30)
    <3> QED
      BY <3>3, <3>4, ZenonT(40)
  <2>15. /\ Passed(pkt[r]) /\ pkt[r].at = f /\ pkt[r] \in Packet
         /\ f = RC => pkt[r].type # "CXLcacheH2DReq"
    BY <1>2, <2>2, <2>11, Zenon DEF HeldOK, Passed
  <2>16. Answer(k2, f, r, pkt[r]) /\ UNCHANGED <<blocked, aborted>>
    BY <1>7, <1>11
  <2>17. hr = [heldResp EXCEPT ![f] = None] /\ f \in CpuSide \cup MemSide
         /\ heldResp \in [CpuSide \cup MemSide -> Reqs \cup {None}]
    BY <1>2, <2>2, SMT, Z3T(30) DEF hr, S
  <2> QED
    BY <1>1, <2>2, <2>9, <2>12, <2>13, <2>14, <2>15, <2>16, <2>17, AnswerKeeps, ZenonT(40)
<1> QED
  BY <1>10, <1>11

-----------------------------------------------------------------------------
LEMMA NextInv == Inv /\ [Next]_vars => Inv'
<1> SUFFICES ASSUME Inv, [Next]_vars PROVE Inv'
  OBVIOUS
<1>1. ASSUME NEW r \in Reqs, NEW p \in Traffic, SendReq(p.src, r, p) PROVE Inv'
  BY <1>1, SendReqKeeps
<1>2. ASSUME NEW p \in Traffic, ExpressSnoop(p) PROVE Inv'
  BY <1>2, ExpressSnoopKeeps
<1>3. ASSUME NEW m \in MemSide, ReleaseReq(m) PROVE Inv'
  BY <1>3, ReleaseReqKeeps
<1>4. ASSUME NEW m \in MemSide, recvReqRetry(m) PROVE Inv'
  BY <1>4, recvReqRetryKeeps
<1>5. ASSUME NEW f \in MemSide \cup CpuSide, NEW r \in Reqs, SendResp(f, r) PROVE Inv'
  BY <1>5, SendRespKeeps
<1>6. ASSUME NEW r \in Reqs, SnoopMissed(r) PROVE Inv'
  BY <1>6, SnoopMissedKeeps
<1>7. ASSUME NEW c \in CpuSide, ReleaseResp(c) PROVE Inv'
  BY <1>7, ReleaseRespKeeps
<1>8. CASE UNCHANGED vars
  BY <1>8 DEF vars, Inv
<1> QED
  BY <1>1, <1>2, <1>3, <1>4, <1>5, <1>6, <1>7, <1>8 DEF Next

LEMMA InvAlways == Spec => []Inv
  BY InitInv, NextInv, PTL DEF Spec

\* The type invariant of the crossbar, for any number of ports and requests.
THEOREM TypeCorrect == Spec => []TypeOK
  BY InvAlways, InvImplies, PTL

\* Whatever the caches and the peers do, a port that the crossbar refused stands
\* in exactly one line of one layer, so that it is retried once and the assertion
\* in tryTiming holds.
THEOREM RefusedWaitOnce == Spec => []WaitsOnce
  BY InvAlways, InvImplies, PTL

\* No layer is ever free while ports wait for it: the release event or the retry
\* of the peer that wakes them is still to come.
THEOREM NoLostWakeup == Spec => []WaitersAreWoken
  BY InvAlways, InvImplies, PTL

\* The routing table and the set of outstanding snoops agree with who owes the
\* answer to every request, so that the assertions of the response handlers hold.
THEOREM RoutesAreKnown == Spec => []RoutesKnown
  BY InvAlways, InvImplies, PTL

=============================================================================
