--------------------------- MODULE PCIELinkProofs ---------------------------
(***************************************************************************)
(* Proofs about PCIELink for any number of packets, any capacity of the    *)
(* replay buffer and any packet sets.                                      *)
(***************************************************************************)
EXTENDS PCIELink, TLAPS

(***************************************************************************)
(* The invariant of one interface.  The replay buffer and the TLP on its   *)
(* way there are the last packets the interface accepted, numbered without *)
(* gaps, and a TLP on the link is one the interface accepted.              *)
(***************************************************************************)
Base(k) ==
  k.sendSeqNum - Len(k.buffer) - (IF k.replayPacket = NULL THEN 0 ELSE 1)

Genuine(k, p) == p.seqNum < k.sendSeqNum /\ p.pkt = k.sent[p.seqNum + 1]

Counted(k) ==
  /\ Len(k.buffer) <= MaxQueueSize
  /\ Len(k.sent) = k.sendSeqNum
  /\ Len(k.rcvd) = k.recvSeqNum
  /\ Offered(k) <= MaxTLPs
  /\ \A c \in Class : k.held[c] # NoPkt => ClassOf(k.held[c]) = c

Contiguous(k) ==
  /\ Base(k) >= 0
  /\ \A i \in 1 .. Len(k.buffer) :
       k.buffer[i].seqNum = Base(k) + i - 1 /\ Genuine(k, k.buffer[i])
  /\ k.replayPacket # NULL =>
       /\ k.replayPacket.seqNum = k.sendSeqNum - 1
       /\ Genuine(k, k.replayPacket)
       /\ Len(k.buffer) < MaxQueueSize

LinkInv(k) ==
  /\ k \in LinkState
  /\ Counted(k)
  /\ Contiguous(k)
  /\ k.packet.kind = "TLP" => Genuine(k, k.packet)

(***************************************************************************)
(* The packets on a link.                                                  *)
(***************************************************************************)

\* The packets on a link differ from NULL and from each other by their kind.
LEMMA Kinds ==
  /\ NULL \notin TLPs \cup DLLPs
  /\ \A p \in TLPs : p.kind = "TLP" /\ p.seqNum \in 0 .. UInt64Max /\ p.pkt \in Pkt
  /\ \A p \in DLLPs : p.kind = "DLLP" /\ p.seqNum \in 0 .. UInt64Max
  /\ NULL.kind = "NULL"
BY DEF NULL, TLPs, DLLPs

LEMMA NewTLP ==
  ASSUME NEW n \in 0 .. UInt64Max, NEW pkt \in Pkt
  PROVE  /\ TLP(n, pkt) \in TLPs
         /\ TLP(n, pkt).kind = "TLP"
         /\ TLP(n, pkt).seqNum = n
         /\ TLP(n, pkt).pkt = pkt
         /\ TLP(n, pkt) # NULL
BY DEF TLP, TLPs, NULL

\* transmit changes the packet on the link and nothing else.
LEMMA TransmitFrame ==
  ASSUME NEW k \in LinkState, NEW p \in TLPs \cup DLLPs
  PROVE  /\ transmit(k, p) \in LinkState
         /\ transmit(k, p).packet = IF busy(k) THEN k.packet ELSE p
         /\ transmit(k, p).buffer = k.buffer
         /\ transmit(k, p).sendSeqNum = k.sendSeqNum
         /\ transmit(k, p).recvSeqNum = k.recvSeqNum
         /\ transmit(k, p).replayPacket = k.replayPacket
         /\ transmit(k, p).replayDLLP = k.replayDLLP
         /\ transmit(k, p).ackEvent = k.ackEvent
         /\ transmit(k, p).held = k.held
         /\ transmit(k, p).sent = k.sent
         /\ transmit(k, p).rcvd = k.rcvd
         /\ transmit(k, p).retransmit = k.retransmit
BY Zenon DEF transmit, LinkState, busy

\* An interface that transmits one of its own TLPs, or a DLLP, stays as it is.
LEMMA TransmitInv ==
  ASSUME NEW k, LinkInv(k), NEW p \in TLPs \cup DLLPs,
         p.kind = "TLP" => Genuine(k, p)
  PROVE  LinkInv(transmit(k, p))
<1> DEFINE n == transmit(k, p)
<1>1. k \in LinkState
  BY DEF LinkInv
<1> HIDE DEF n
<1>2. /\ n \in LinkState
      /\ n.packet = IF busy(k) THEN k.packet ELSE p
      /\ n.buffer = k.buffer
      /\ n.sendSeqNum = k.sendSeqNum
      /\ n.recvSeqNum = k.recvSeqNum
      /\ n.replayPacket = k.replayPacket
      /\ n.held = k.held
      /\ n.sent = k.sent
      /\ n.rcvd = k.rcvd
  BY <1>1, TransmitFrame DEF n
<1> QED
  BY <1>2 DEF LinkInv, Counted, Contiguous, Base, Genuine, Offered, n

(***************************************************************************)
(* Accepting packets.  Accepts(k, n) says what may differ between an       *)
(* interface k and the interface n it becomes when the device is allowed   *)
(* to offer: at most one packet is accepted, and only when no TLP waits.   *)
(***************************************************************************)
Accepts(k, n) ==
  /\ n.recvSeqNum = k.recvSeqNum
  /\ n.rcvd = k.rcvd
  /\ n.ackEvent = k.ackEvent
  /\ n.replayDLLP = k.replayDLLP
  /\ n.buffer = k.buffer
  /\ n.retransmit = k.retransmit
  /\ n.packet = k.packet \/ n.packet \in TLPs
  /\ \/ /\ n.sent = k.sent
        /\ n.sendSeqNum = k.sendSeqNum
        /\ n.replayPacket = k.replayPacket
     \/ /\ \E pkt \in Pkt : n.sent = Append(k.sent, pkt)
        /\ n.sendSeqNum = k.sendSeqNum + 1
        /\ k.replayPacket = NULL
        /\ n.replayPacket # NULL

LEMMA AcceptsTrans ==
  ASSUME NEW k, NEW m, NEW n, Accepts(k, m), Accepts(m, n)
  PROVE  Accepts(k, n)
BY SMT, Z3T(30) DEF Accepts

LEMMA AcceptsBase ==
  ASSUME NEW k, NEW n, LinkInv(k), Accepts(k, n)
  PROVE  Base(n) = Base(k)
<1>1. n.buffer = k.buffer /\ k.sendSeqNum \in Nat /\ Len(k.buffer) \in Nat
  BY SizeAssumption DEF Accepts, LinkInv, LinkState
<1>2. CASE n.sendSeqNum = k.sendSeqNum /\ n.replayPacket = k.replayPacket
  BY <1>1, <1>2 DEF Base
<1>3. CASE /\ n.sendSeqNum = k.sendSeqNum + 1
           /\ k.replayPacket = NULL
           /\ n.replayPacket # NULL
  <2>1. Base(n) = (k.sendSeqNum + 1) - Len(k.buffer) - 1
    BY <1>1, <1>3 DEF Base
  <2>2. Base(k) = k.sendSeqNum - Len(k.buffer) - 0
    BY <1>3 DEF Base
  <2> QED
    BY <1>1, <2>1, <2>2
<1> QED
  BY <1>2, <1>3 DEF Accepts

LEMMA LinkTransmitInv ==
  ASSUME NEW k, LinkInv(k), NEW pkt \in Pkt,
         \/ k.held[ClassOf(pkt)] = NoPkt /\ Offered(k) < MaxTLPs
         \/ k.held[ClassOf(pkt)] = pkt
  PROVE  /\ LinkInv(linkTransmitInterface(k, pkt))
         /\ Accepts(k, linkTransmitInterface(k, pkt))
<1> DEFINE c == ClassOf(pkt)
           tlp == TLP(k.sendSeqNum, pkt)
           n == linkTransmitInterface(k, pkt)
<1>1. k \in LinkState /\ c \in Class /\ k.held \in [Class -> Pkt \cup {NoPkt}]
  BY DEF LinkInv, ClassOf, Class, LinkState
<1>2. Class = {"req", "resp"}
  BY DEF Class
<1>3. NoPkt \notin Pkt
  BY PktAssumption
<1>4. CASE MustWait(k)
  <2> HIDE DEF c
  <2> DEFINE w == [k EXCEPT !.retry = @ \cup {c}, !.held[c] = pkt]
  <2>1. n = w
    BY <1>4 DEF linkTransmitInterface, c
  <2>2. /\ w \in LinkState
        /\ w.packet = k.packet
        /\ w.buffer = k.buffer
        /\ w.sendSeqNum = k.sendSeqNum
        /\ w.recvSeqNum = k.recvSeqNum
        /\ w.replayPacket = k.replayPacket
        /\ w.replayDLLP = k.replayDLLP
        /\ w.ackEvent = k.ackEvent
        /\ w.sent = k.sent
        /\ w.rcvd = k.rcvd
        /\ w.retransmit = k.retransmit
        /\ w.held = [k.held EXCEPT ![c] = pkt]
    BY <1>1, Zenon DEF LinkState
  <2> HIDE DEF w
  <2>3. Offered(w) <= MaxTLPs
    BY <2>2, <1>1, <1>2, <1>3, SizeAssumption, SMTT(30), Z3T(30)
    DEF Offered, LinkInv, Counted, c, LinkState
  <2>4. \A d \in Class : w.held[d] # NoPkt => ClassOf(w.held[d]) = d
    BY <2>2, <1>1 DEF LinkInv, Counted, c
  <2> QED
    BY <2>1, <2>2, <2>3, <2>4
    DEF LinkInv, Counted, Contiguous, Base, Genuine, Accepts
<1>5. CASE ~MustWait(k)
  <2>1. k.sendSeqNum < MaxTLPs
    BY <1>1, <1>2, <1>3, SizeAssumption, SMT, Z3T(30)
    DEF Offered, LinkInv, Counted, LinkState, ClassOf
  <2> HIDE DEF c
  <2>2. k.sendSeqNum \in 0 .. UInt64Max /\ k.sendSeqNum + 1 \in 0 .. MaxTLPs
    BY <1>1, <2>1, SizeAssumption DEF LinkState
  <2>3. tlp \in TLPs /\ tlp.kind = "TLP" /\ tlp.seqNum = k.sendSeqNum
        /\ tlp.pkt = pkt /\ tlp # NULL
    BY <2>2, NewTLP
  <2> HIDE DEF tlp
  <2> DEFINE t == transmit(k, tlp)
             w == [t EXCEPT !.replayPacket = tlp, !.sendSeqNum = @ + 1,
                            !.held[c] = NoPkt, !.sent = Append(@, pkt)]
  <2>4. n = w
    BY <1>5 DEF linkTransmitInterface, c, tlp
  <2>5. /\ t \in LinkState
        /\ t.packet = IF busy(k) THEN k.packet ELSE tlp
        /\ t.buffer = k.buffer
        /\ t.sendSeqNum = k.sendSeqNum
        /\ t.recvSeqNum = k.recvSeqNum
        /\ t.replayPacket = k.replayPacket
        /\ t.replayDLLP = k.replayDLLP
        /\ t.ackEvent = k.ackEvent
        /\ t.held = k.held
        /\ t.sent = k.sent
        /\ t.rcvd = k.rcvd
        /\ t.retransmit = k.retransmit
    BY <1>1, <2>3, TransmitFrame
  <2> HIDE DEF t
  <2>6. /\ w \in LinkState
        /\ w.packet = IF busy(k) THEN k.packet ELSE tlp
        /\ w.buffer = k.buffer
        /\ w.sendSeqNum = k.sendSeqNum + 1
        /\ w.recvSeqNum = k.recvSeqNum
        /\ w.replayPacket = tlp
        /\ w.replayDLLP = k.replayDLLP
        /\ w.ackEvent = k.ackEvent
        /\ w.sent = Append(k.sent, pkt)
        /\ w.rcvd = k.rcvd
        /\ w.retransmit = k.retransmit
        /\ w.held = [k.held EXCEPT ![c] = NoPkt]
    <3>1. /\ [t.held EXCEPT ![c] = NoPkt] \in [Class -> Pkt \cup {NoPkt}]
          /\ Append(t.sent, pkt) \in Seq(Pkt)
          /\ t.sendSeqNum + 1 \in 0 .. MaxTLPs
          /\ tlp \in TLPs \cup {NULL}
      BY <1>1, <2>2, <2>3, <2>5 DEF LinkState
    <3>2. w \in LinkState
      BY <3>1, <2>5, Zenon DEF LinkState
    <3> QED
      BY <3>2, <2>5, Zenon DEF LinkState
  <2> HIDE DEF w
  <2>7. k.replayPacket = NULL /\ Len(k.buffer) < MaxQueueSize
    BY <1>5, <1>1, SizeAssumption DEF MustWait, LinkState
  <2>8. /\ k.sendSeqNum \in Nat /\ k.sent \in Seq(Pkt)
        /\ Len(k.sent) = k.sendSeqNum /\ Len(k.buffer) \in Nat
        /\ k.buffer \in Seq(TLPs)
    BY <1>1 DEF LinkState, LinkInv, Counted
  <2>9. \A p \in TLPs : Genuine(k, p) => Genuine(w, p)
    BY <2>6, <2>8, Kinds DEF Genuine
  <2>10. Genuine(w, tlp)
    BY <2>3, <2>6, <2>8 DEF Genuine
  <2>11. Base(w) = Base(k)
    <3>1. Base(w) = (k.sendSeqNum + 1) - Len(k.buffer) - 1
      BY <2>3, <2>6 DEF Base
    <3>2. Base(k) = k.sendSeqNum - Len(k.buffer) - 0
      BY <2>7 DEF Base
    <3> QED
      BY <3>1, <3>2, <2>8
  <2>12. Contiguous(w)
    BY <2>3, <2>6, <2>7, <2>8, <2>9, <2>10, <2>11 DEF Contiguous, LinkInv
  <2>13. Offered(w) <= MaxTLPs
    BY <2>6, <1>1, <1>2, <1>3, SizeAssumption, SMTT(30), Z3T(30)
    DEF Offered, LinkInv, Counted, c, LinkState
  <2>14. Counted(w)
    BY <2>6, <2>7, <2>8, <2>13, <1>1 DEF Counted, LinkInv
  <2>15. w.packet.kind = "TLP" => Genuine(w, w.packet)
    BY <2>6, <2>9, <2>10, <1>1, Kinds, Zenon DEF LinkInv, LinkState
  <2>16. Accepts(k, w)
    BY <2>3, <2>6, <2>7 DEF Accepts
  <2> QED
    BY <2>4, <2>6, <2>12, <2>14, <2>15, <2>16 DEF LinkInv
<1> QED
  BY <1>4, <1>5

LEMMA SendRetryInv ==
  ASSUME NEW k, LinkInv(k), NEW c \in Class
  PROVE  LinkInv(sendRetry(k, c)) /\ Accepts(k, sendRetry(k, c))
<1> DEFINE k1 == [k EXCEPT !.retry = @ \ {c}]
<1>1. k \in LinkState
  BY DEF LinkInv
<1>2. /\ k1 \in LinkState
      /\ k1.packet = k.packet
      /\ k1.buffer = k.buffer
      /\ k1.sendSeqNum = k.sendSeqNum
      /\ k1.recvSeqNum = k.recvSeqNum
      /\ k1.replayPacket = k.replayPacket
      /\ k1.replayDLLP = k.replayDLLP
      /\ k1.ackEvent = k.ackEvent
      /\ k1.sent = k.sent
      /\ k1.rcvd = k.rcvd
      /\ k1.retransmit = k.retransmit
      /\ k1.held = k.held
  BY <1>1, Zenon DEF LinkState
<1>3. sendRetry(k, c) = IF c \notin k.retry THEN k
                        ELSE IF k.held[c] = NoPkt THEN k1
                        ELSE linkTransmitInterface(k1, k.held[c])
  BY DEF sendRetry
<1> HIDE DEF k1
<1>4. LinkInv(k1) /\ Accepts(k, k1) /\ Accepts(k, k)
  BY <1>2 DEF LinkInv, Counted, Contiguous, Base, Genuine, Offered, Accepts
<1>5. ASSUME k.held[c] # NoPkt
      PROVE  LET n == linkTransmitInterface(k1, k.held[c])
             IN  LinkInv(n) /\ Accepts(k, n)
  <2>1. k.held[c] \in Pkt /\ ClassOf(k.held[c]) = c /\ k1.held[c] = k.held[c]
    BY <1>1, <1>2, <1>5 DEF LinkState, LinkInv, Counted
  <2>2. LET n == linkTransmitInterface(k1, k.held[c])
        IN  LinkInv(n) /\ Accepts(k1, n)
    BY <1>4, <2>1, LinkTransmitInv
  <2> QED
    BY <1>4, <2>2, AcceptsTrans
<1> QED
  BY <1>3, <1>4, <1>5

LEMMA SendRetriesInv ==
  ASSUME NEW k, LinkInv(k)
  PROVE  LinkInv(sendRetries(k)) /\ Accepts(k, sendRetries(k))
<1> DEFINE m == sendRetry(k, "req")
<1>1. "req" \in Class /\ "resp" \in Class
  BY DEF Class
<1>2. LinkInv(m) /\ Accepts(k, m)
  BY <1>1, SendRetryInv
<1> HIDE DEF m
<1>3. LinkInv(sendRetry(m, "resp")) /\ Accepts(m, sendRetry(m, "resp"))
  BY <1>1, <1>2, SendRetryInv
<1> QED
  BY <1>2, <1>3, AcceptsTrans DEF sendRetries, m

(***************************************************************************)
(* Popping acknowledged TLPs.                                              *)
(***************************************************************************)

\* The Ack loop stops after the last TLP the Ack names, or at the end.
LEMMA AckedPrefixIs ==
  ASSUME NEW k, LinkInv(k), NEW a \in Nat
  PROVE  LET i == AckedPrefix(k.buffer, a)
         IN  /\ i \in 0 .. Len(k.buffer)
             /\ i > 0 => Base(k) + i - 1 <= a
             /\ i < Len(k.buffer) => Base(k) + i > a
<1> DEFINE P(i) == /\ \A j \in 1 .. i : k.buffer[j].seqNum <= a
                   /\ i < Len(k.buffer) => k.buffer[i + 1].seqNum > a
           len == Len(k.buffer)
           w == IF a < Base(k) THEN 0
                ELSE IF a - Base(k) + 1 > len THEN len ELSE a - Base(k) + 1
<1>1. len \in Nat /\ Base(k) \in Nat
  BY DEF LinkInv, LinkState, Contiguous, Base
<1>2. \A j \in 1 .. len : k.buffer[j].seqNum = Base(k) + j - 1
  BY DEF LinkInv, Contiguous
<1> HIDE DEF len
<1>3. w \in 0 .. len
  BY <1>1
<1>4. \A j \in 1 .. w : j \in 1 .. len /\ Base(k) + j - 1 <= a
  BY <1>1, <1>3
<1>5. w < len => w + 1 \in 1 .. len /\ Base(k) + (w + 1) - 1 > a
  BY <1>1, <1>3
<1> HIDE DEF w
<1>6. P(w)
  BY <1>2, <1>4, <1>5 DEF len
<1>7. AckedPrefix(k.buffer, a) = CHOOSE i \in 0 .. len : P(i)
  BY DEF AckedPrefix, len
<1> HIDE DEF P
<1>8. AckedPrefix(k.buffer, a) \in 0 .. len /\ P(AckedPrefix(k.buffer, a))
  BY <1>3, <1>6, <1>7
<1> DEFINE i == AckedPrefix(k.buffer, a)
<1> HIDE DEF i
<1>9. i \in 0 .. len /\ P(i)
  BY <1>8 DEF i
<1>10. i > 0 => Base(k) + i - 1 <= a
  <2>1. i > 0 => i \in 1 .. i /\ i \in 1 .. len
    BY <1>1, <1>9
  <2> QED
    BY <2>1, <1>2, <1>9 DEF P
<1>11. i < len => Base(k) + i > a
  <2>1. i < len => i + 1 \in 1 .. len /\ Base(k) + (i + 1) - 1 = Base(k) + i
    BY <1>1, <1>9
  <2> QED
    BY <2>1, <1>2, <1>9 DEF P, len
<1> QED
  BY <1>9, <1>10, <1>11 DEF i, len

(***************************************************************************)
(* linkReceiveInterface.                                                   *)
(***************************************************************************)

\* What an Ack a may do to the interface that receives it.
Acknowledged(k, n, a) ==
  /\ n.recvSeqNum = k.recvSeqNum
  /\ n.rcvd = k.rcvd
  /\ n.ackEvent = k.ackEvent
  /\ n.replayDLLP = k.replayDLLP
  /\ n.packet = k.packet \/ n.packet \in TLPs
  /\ Base(n) = Base(k) \/ Base(n) <= a + 1
  /\ k.buffer = <<>> => n.buffer = <<>>
  /\ \/ n.sent = k.sent /\ n.sendSeqNum = k.sendSeqNum
     \/ /\ \E pkt \in Pkt : n.sent = Append(k.sent, pkt)
        /\ n.sendSeqNum = k.sendSeqNum + 1
        /\ k.replayPacket = NULL

\* The TLPs that stay in the buffer are numbered as before, and start after
\* the last one the Ack names.
LEMMA PoppedInv ==
  ASSUME NEW k, LinkInv(k), NEW a \in Nat, NEW m \in LinkState,
         m.buffer = popAcked(k.buffer, a), m.sendSeqNum = k.sendSeqNum,
         m.recvSeqNum = k.recvSeqNum, m.replayPacket = k.replayPacket,
         m.held = k.held, m.sent = k.sent, m.rcvd = k.rcvd, m.packet = k.packet
  PROVE  /\ LinkInv(m)
         /\ \E i \in 0 .. Len(k.buffer) :
              /\ Len(m.buffer) = Len(k.buffer) - i
              /\ \A j \in 1 .. Len(m.buffer) : m.buffer[j] = k.buffer[j + i]
              /\ Base(m) = Base(k) + i
              /\ i > 0 => Base(m) <= a + 1
              /\ m.buffer # <<>> => Base(m) > a
<1> DEFINE i == AckedPrefix(k.buffer, a)
           rest == popAcked(k.buffer, a)
<1>1. rest = SubSeq(k.buffer, i + 1, Len(k.buffer))
  BY DEF popAcked
<1>2. /\ i \in 0 .. Len(k.buffer)
      /\ i > 0 => Base(k) + i - 1 <= a
      /\ i < Len(k.buffer) => Base(k) + i > a
  BY AckedPrefixIs
<1> HIDE DEF i
<1>3. k \in LinkState /\ k.buffer \in Seq(TLPs) /\ Len(k.buffer) \in Nat
  BY DEF LinkInv, LinkState
<1>4. m.buffer = rest
  OBVIOUS
<1> HIDE DEF rest
<1>5. /\ rest \in Seq(TLPs)
      /\ Len(rest) = Len(k.buffer) - i
      /\ \A j \in 1 .. Len(rest) :
           j + i \in 1 .. Len(k.buffer) /\ rest[j] = k.buffer[j + i]
  BY ONLY <1>1, <1>2, <1>3
<1>6. k.sendSeqNum \in Nat /\ MaxQueueSize \in Nat
  BY <1>3, SizeAssumption DEF LinkState
<1>7. Base(m) = Base(k) + i /\ Base(k) \in Nat
  <2> DEFINE r == IF k.replayPacket = NULL THEN 0 ELSE 1
  <2>1. Base(m) = k.sendSeqNum - Len(rest) - r
    BY <1>4 DEF Base
  <2>2. Base(k) = k.sendSeqNum - Len(k.buffer) - r
    BY DEF Base
  <2>3. Base(k) >= 0 /\ r \in Nat
    BY DEF LinkInv, Contiguous
  <2> HIDE DEF r
  <2>4. Len(rest) = Len(k.buffer) - i /\ Len(k.buffer) \in Nat /\ i \in Nat
    BY <1>2, <1>3, <1>5
  <2>5. Base(k) \in Nat
    BY <2>2, <2>3, <2>4, <1>6
  <2> QED
    BY ONLY <2>1, <2>2, <2>3, <2>4, <2>5, <1>6, SMT, Z3T(30)
<1>8. \A q : Genuine(m, q) <=> Genuine(k, q)
  BY DEF Genuine
<1>9. Contiguous(m)
  <2>1. \A j \in 1 .. Len(m.buffer) :
          m.buffer[j].seqNum = Base(m) + j - 1 /\ Genuine(m, m.buffer[j])
    <3> TAKE j \in 1 .. Len(m.buffer)
    <3>1. m.buffer[j] = k.buffer[j + i] /\ j + i \in 1 .. Len(k.buffer)
      BY <1>5, <1>4
    <3>2. k.buffer[j + i].seqNum = Base(k) + (j + i) - 1 /\ Genuine(k, k.buffer[j + i])
      BY <3>1 DEF LinkInv, Contiguous
    <3>3. j \in Nat
      BY <1>5, <1>4
    <3> QED
      BY <3>1, <3>2, <3>3, <1>2, <1>7, <1>8
  <2>2. Len(m.buffer) <= Len(k.buffer)
    BY <1>2, <1>3, <1>5, <1>4
  <2> QED
    BY <2>1, <2>2, <1>2, <1>3, <1>5, <1>4, <1>6, <1>7, <1>8
    DEF Contiguous, LinkInv
<1>10. Counted(m)
  BY <1>2, <1>3, <1>5, <1>4, <1>6 DEF Counted, LinkInv, Offered
<1>11. LinkInv(m)
  BY <1>8, <1>9, <1>10 DEF LinkInv
<1>12. i > 0 => Base(m) <= a + 1
  BY <1>2, <1>7
<1>13. m.buffer # <<>> => Base(m) > a
  BY <1>2, <1>3, <1>5, <1>4, <1>7
<1>14. \A j \in 1 .. Len(m.buffer) : m.buffer[j] = k.buffer[j + i]
  BY <1>5, <1>4
<1> QED
  BY <1>2, <1>5, <1>4, <1>7, <1>11, <1>12, <1>13, <1>14, SMT, Z3T(30)

\* An Ack carries a uint64_t, and the sequence number itself while it fits an
\* int.
LEMMA AckIs ==
  ASSUME NEW r \in 0 .. MaxTLPs
  PROVE  /\ Pred(r) \in 0 .. UInt64Max
         /\ DataLinkPacket(Pred(r)) \in DLLPs
         /\ r > 0 /\ MaxTLPs <= IntMax + 1 =>
              DataLinkPacket(Pred(r)).seqNum = r - 1
<1> DEFINE n == Pred(r)
           d == 2 * (IntMax + 1)
           i == n % d
<1>1. n \in 0 .. UInt64Max
  BY SizeAssumption DEF Pred
<1>2. r > 0 => n = r - 1
  BY DEF Pred
<1> HIDE DEF n
<1>3. d \in Nat /\ d > 0 /\ n \in Nat
  BY <1>1, SizeAssumption
<1> HIDE DEF d
<1>4. i \in 0 .. d - 1
  BY <1>3
<1> HIDE DEF i
<1>5. ThroughInt(n) = IF n <= IntMax THEN n
                      ELSE IF i <= IntMax THEN i
                      ELSE UInt64Max - (2 * IntMax + 1 - i)
  BY DEF ThroughInt, i, d
<1>6. ThroughInt(n) \in 0 .. UInt64Max
  BY <1>1, <1>4, <1>5, SizeAssumption DEF d
<1>7. r > 0 /\ MaxTLPs <= IntMax + 1 => ThroughInt(n) = r - 1
  BY <1>2, <1>5, SizeAssumption
<1> QED
  BY <1>1, <1>6, <1>7 DEF DataLinkPacket, DLLP, DLLPs, n

\* The part of an interface that sends: receiving a TLP leaves it alone.
SameSender(k, n) ==
  /\ n.buffer = k.buffer
  /\ n.sendSeqNum = k.sendSeqNum
  /\ n.replayPacket = k.replayPacket
  /\ n.held = k.held
  /\ n.sent = k.sent
  /\ n.retransmit = k.retransmit

\* An Ack for everything k has received is the only packet k may gain.
OnlyAcks(k, n) ==
  /\ n.packet = k.packet \/ n.packet = DataLinkPacket(Pred(n.recvSeqNum))
  /\ n.replayDLLP = k.replayDLLP \/ n.replayDLLP = DataLinkPacket(Pred(n.recvSeqNum))

LEMMA SameSenderInv ==
  ASSUME NEW k, NEW n, LinkInv(k), n \in LinkState, SameSender(k, n),
         Len(n.rcvd) = n.recvSeqNum,
         n.packet = k.packet \/ n.packet \in DLLPs
  PROVE  LinkInv(n) /\ Base(n) = Base(k)
<1>1. n.packet.kind = "TLP" => n.packet = k.packet
  BY Kinds, SMTT(30)
<1> QED
  BY <1>1 DEF SameSender, LinkInv, Counted, Contiguous, Base, Genuine, Offered

\* What a TLP p may do to the interface that receives it.
Received(k, n, p, ok) ==
  /\ Base(n) = Base(k)
  /\ SameSender(k, n)
  /\ OnlyAcks(k, n)
  /\ \/ /\ p.seqNum = k.recvSeqNum
        /\ ok
        /\ n.recvSeqNum = k.recvSeqNum + 1
        /\ n.rcvd = Append(k.rcvd, p.pkt)
     \/ /\ p.seqNum # k.recvSeqNum
        /\ n.recvSeqNum = k.recvSeqNum
        /\ n.rcvd = k.rcvd
     \/ ~ok /\ n = k

(***************************************************************************)
(* txDone.                                                                 *)
(***************************************************************************)

\* What an interface may do when its link becomes free: it sends the waiting
\* Ack or a TLP, stores the TLP that was sent for the first time, and accepts
\* at most one packet, only if no other TLP waits.
Finished(k, n) ==
  /\ n.recvSeqNum = k.recvSeqNum
  /\ n.rcvd = k.rcvd
  /\ n.ackEvent = k.ackEvent
  /\ n.replayDLLP = NULL
  /\ n.packet = k.replayDLLP \/ n.packet \in TLPs \cup {NULL}
  /\ Base(n) = Base(k)
  /\ n.buffer = k.buffer \/ k.packet = k.replayPacket
  /\ \/ n.sent = k.sent /\ n.sendSeqNum = k.sendSeqNum
     \/ /\ \E pkt \in Pkt : n.sent = Append(k.sent, pkt)
        /\ n.sendSeqNum = k.sendSeqNum + 1
        /\ k.replayPacket = NULL \/ k.packet = k.replayPacket

\* The same for a part of txDone that starts with a free link and stores no
\* TLP.
Continues(k, n) ==
  /\ n.recvSeqNum = k.recvSeqNum
  /\ n.rcvd = k.rcvd
  /\ n.ackEvent = k.ackEvent
  /\ n.replayDLLP = k.replayDLLP
  /\ n.packet = k.packet \/ n.packet \in TLPs
  /\ Base(n) = Base(k)
  /\ n.buffer = k.buffer
  /\ \/ /\ n.sent = k.sent
        /\ n.sendSeqNum = k.sendSeqNum
        /\ n.replayPacket = k.replayPacket
     \/ /\ \E pkt \in Pkt : n.sent = Append(k.sent, pkt)
        /\ n.sendSeqNum = k.sendSeqNum + 1
        /\ k.replayPacket = NULL
        /\ n.replayPacket # NULL

LEMMA ContinuesTrans ==
  ASSUME NEW k, NEW m, NEW n, Continues(k, m), Continues(m, n)
  PROVE  Continues(k, n)
BY SMTT(30) DEF Continues

LEMMA AcceptsContinues ==
  ASSUME NEW k, NEW n, LinkInv(k), Accepts(k, n)
  PROVE  Continues(k, n)
BY AcceptsBase DEF Accepts, Continues

\* Transmitting one of its own TLPs changes only the link.
LEMMA TransmitContinues ==
  ASSUME NEW k, LinkInv(k), NEW p \in TLPs, Genuine(k, p)
  PROVE  LinkInv(transmit(k, p)) /\ Continues(k, transmit(k, p))
<1>1. k \in LinkState
  BY DEF LinkInv
<1>2. LinkInv(transmit(k, p))
  BY TransmitInv
<1> QED
  BY <1>1, <1>2, TransmitFrame DEF Continues, Base

LEMMA SendReplayPacketInv ==
  ASSUME NEW k, LinkInv(k)
  PROVE  LinkInv(sendReplayPacket(k)) /\ Continues(k, sendReplayPacket(k))
<1>1. CASE k.replayPacket = NULL
  BY <1>1 DEF sendReplayPacket, Continues
<1>2. CASE k.replayPacket # NULL
  <2>1. k.replayPacket \in TLPs /\ Genuine(k, k.replayPacket)
    BY <1>2 DEF LinkInv, LinkState, Contiguous
  <2> QED
    BY <1>2, <2>1, TransmitContinues DEF sendReplayPacket
<1> QED
  BY <1>1, <1>2

\* The timers and the position of a replay are not part of the invariant.
LEMMA SameLinkInv ==
  ASSUME NEW k, LinkInv(k), NEW n \in LinkState, SameSender(k, n),
         n.packet = k.packet, n.recvSeqNum = k.recvSeqNum, n.rcvd = k.rcvd
  PROVE  LinkInv(n) /\ Base(n) = Base(k)
BY SMTT(30), Z3T(30) DEF SameSender, LinkInv, Counted, Contiguous, Base, Genuine, Offered

LEMMA RetransmitNextInv ==
  ASSUME NEW k, LinkInv(k)
  PROVE  LinkInv(retransmitNext(k)) /\ Continues(k, retransmitNext(k))
<1>1. k \in LinkState /\ k.buffer \in Seq(TLPs)
  BY DEF LinkInv, LinkState
<1>2. CASE k.retransmitIdx >= Len(k.buffer)
  <2> DEFINE m == [k EXCEPT !.retransmitIdx = 0, !.retransmit = FALSE,
                            !.timeoutEvent = TRUE]
  <2>1. retransmitNext(k) = sendReplayPacket(sendRetries(m))
    BY <1>2 DEF retransmitNext
  <2>2. /\ m \in LinkState
        /\ m.buffer = k.buffer
        /\ m.sendSeqNum = k.sendSeqNum
        /\ m.replayPacket = k.replayPacket
        /\ m.replayDLLP = k.replayDLLP
        /\ m.ackEvent = k.ackEvent
        /\ m.held = k.held
        /\ m.sent = k.sent
        /\ m.packet = k.packet
        /\ m.recvSeqNum = k.recvSeqNum
        /\ m.rcvd = k.rcvd
    BY <1>1, Zenon DEF LinkState
  <2> HIDE DEF m
  <2>3. LinkInv(m) /\ Continues(k, m)
    BY <2>2 DEF LinkInv, Counted, Contiguous, Base, Genuine, Offered, Continues
  <2>4. LinkInv(sendRetries(m)) /\ Continues(m, sendRetries(m))
    BY <2>3, SendRetriesInv, AcceptsContinues
  <2> QED
    BY <2>1, <2>3, <2>4, SendReplayPacketInv, ContinuesTrans
<1>3. CASE ~(k.retransmitIdx >= Len(k.buffer))
  <2> DEFINE p == k.buffer[k.retransmitIdx + 1]
             t == transmit(k, p)
             w == [t EXCEPT !.retransmitIdx = @ + 1, !.timeoutEvent = TRUE]
  <2>1. retransmitNext(k) = w
    BY <1>3 DEF retransmitNext
  <2>2. k.retransmitIdx + 1 \in 1 .. Len(k.buffer)
    BY <1>1, <1>3 DEF LinkState
  <2>3. p \in TLPs /\ Genuine(k, p)
    BY <1>1, <2>2 DEF LinkInv, Contiguous
  <2> HIDE DEF p
  <2>4. LinkInv(t) /\ Continues(k, t)
    BY <2>3, TransmitContinues
  <2> HIDE DEF t
  <2>5. t \in LinkState
    BY <2>4 DEF LinkInv
  <2>6. /\ w \in LinkState
        /\ w.buffer = t.buffer
        /\ w.sendSeqNum = t.sendSeqNum
        /\ w.replayPacket = t.replayPacket
        /\ w.replayDLLP = t.replayDLLP
        /\ w.ackEvent = t.ackEvent
        /\ w.held = t.held
        /\ w.sent = t.sent
        /\ w.retransmit = t.retransmit
        /\ w.packet = t.packet
        /\ w.recvSeqNum = t.recvSeqNum
        /\ w.rcvd = t.rcvd
    <3>1. t.retransmitIdx + 1 \in Nat /\ TRUE \in BOOLEAN
      BY <2>5 DEF LinkState
    <3>2. w \in LinkState
      BY <2>5, <3>1, Zenon DEF LinkState
    <3> QED
      BY <2>5, <3>2, Zenon DEF LinkState
  <2> HIDE DEF w
  <2>7. LinkInv(w) /\ Base(w) = Base(t)
    BY <2>4, <2>6, SameLinkInv DEF SameSender
  <2>8. Continues(t, w)
    BY <2>6, <2>7 DEF Continues
  <2> QED
    BY <2>1, <2>4, <2>7, <2>8, ContinuesTrans
<1> QED
  BY <1>2, <1>3

\* Freeing the link and sending the Ack that waits for it.
LEMMA SendReplayDLLPInv ==
  ASSUME NEW k, LinkInv(k)
  PROVE  LET n == sendReplayDLLP([k EXCEPT !.packet = NULL])
         IN  /\ LinkInv(n)
             /\ SameSender(k, n)
             /\ n.recvSeqNum = k.recvSeqNum
             /\ n.rcvd = k.rcvd
             /\ n.ackEvent = k.ackEvent
             /\ n.replayDLLP = NULL
             /\ n.packet = k.replayDLLP
<1> DEFINE f == [k EXCEPT !.packet = NULL]
           t == transmit(f, k.replayDLLP)
           w == [t EXCEPT !.replayDLLP = NULL]
           n == sendReplayDLLP(f)
<1>1. k \in LinkState
  BY DEF LinkInv
<1>2. /\ f \in LinkState
      /\ SameSender(k, f)
      /\ f.recvSeqNum = k.recvSeqNum
      /\ f.rcvd = k.rcvd
      /\ f.ackEvent = k.ackEvent
      /\ f.replayDLLP = k.replayDLLP
      /\ f.packet = NULL
  BY <1>1, ZenonT(40) DEF LinkState, SameSender
<1> HIDE DEF f
<1>3. n = IF k.replayDLLP = NULL THEN f ELSE w
  BY <1>2 DEF sendReplayDLLP
<1>4. LinkInv(f)
  BY <1>2, Kinds
  DEF SameSender, LinkInv, Counted, Contiguous, Base, Genuine, Offered
<1>5. ASSUME k.replayDLLP # NULL
      PROVE  /\ LinkInv(w)
             /\ SameSender(k, w)
             /\ w.recvSeqNum = k.recvSeqNum
             /\ w.rcvd = k.rcvd
             /\ w.ackEvent = k.ackEvent
             /\ w.replayDLLP = NULL
             /\ w.packet = k.replayDLLP
  <2>1. k.replayDLLP \in DLLPs
    BY <1>1, <1>5 DEF LinkState
  <2>2. /\ t \in LinkState
        /\ SameSender(f, t)
        /\ t.recvSeqNum = f.recvSeqNum
        /\ t.rcvd = f.rcvd
        /\ t.ackEvent = f.ackEvent
        /\ t.packet = k.replayDLLP
    BY <1>2, <2>1, TransmitFrame DEF SameSender, busy
  <2> HIDE DEF t
  <2>3. /\ w \in LinkState
        /\ SameSender(t, w)
        /\ w.recvSeqNum = t.recvSeqNum
        /\ w.rcvd = t.rcvd
        /\ w.ackEvent = t.ackEvent
        /\ w.packet = t.packet
        /\ w.replayDLLP = NULL
    BY <2>2, Zenon DEF LinkState, SameSender
  <2> HIDE DEF w
  <2>4. SameSender(f, w) /\ SameSender(k, w)
    BY <1>2, <2>2, <2>3 DEF SameSender
  <2>5. LinkInv(w)
    BY <1>2, <1>4, <2>1, <2>2, <2>3, <2>4, SameSenderInv DEF LinkInv, Counted
  <2> QED
    BY <1>2, <2>2, <2>3, <2>4, <2>5
<1> HIDE DEF w
<1> QED
  BY <1>2, <1>3, <1>4, <1>5, Zenon DEF f

\* A TLP that was sent for the first time finds room in the buffer, and the
\* numbering goes on.
LEMMA StoredInv ==
  ASSUME NEW k, LinkInv(k), k.replayPacket # NULL, NEW m \in LinkState,
         m.buffer = pushBack(k.buffer, k.replayPacket), m.replayPacket = NULL,
         m.sendSeqNum = k.sendSeqNum, m.recvSeqNum = k.recvSeqNum,
         m.held = k.held, m.sent = k.sent, m.rcvd = k.rcvd, m.packet = k.packet
  PROVE  /\ LinkInv(m)
         /\ Base(m) = Base(k)
         /\ m.buffer = Append(k.buffer, k.replayPacket)
<1> DEFINE p == k.replayPacket
           b == pushBack(k.buffer, p)
<1>1. k \in LinkState /\ k.buffer \in Seq(TLPs) /\ k.sendSeqNum \in Nat
  BY SizeAssumption, SMTT(30), Z3T(30) DEF LinkInv, LinkState
<1>2. /\ p \in TLPs
      /\ p.seqNum = k.sendSeqNum - 1
      /\ Genuine(k, p)
      /\ Len(k.buffer) < MaxQueueSize
  BY <1>1 DEF LinkInv, LinkState, Contiguous
<1>3. MaxQueueSize \in Nat /\ Len(k.buffer) \in Nat
  BY <1>1, SizeAssumption
<1>4. b = Append(k.buffer, p)
  BY <1>2, <1>3 DEF pushBack
<1>5. /\ Len(b) = Len(k.buffer) + 1
      /\ \A i \in 1 .. Len(k.buffer) : b[i] = k.buffer[i]
      /\ b[Len(k.buffer) + 1] = p
  BY <1>1, <1>2, <1>4
<1>6. m.buffer = b
  OBVIOUS
<1> HIDE DEF b, p
<1>7. /\ Base(m) = k.sendSeqNum - (Len(k.buffer) + 1) - 0
      /\ Base(k) = k.sendSeqNum - Len(k.buffer) - 1
  BY <1>5, <1>6 DEF Base
<1>8. Base(m) = Base(k)
  BY <1>1, <1>3, <1>7, SMTT(30)
<1>9. \A q : Genuine(m, q) <=> Genuine(k, q)
  BY DEF Genuine
<1>10. \A i \in 1 .. Len(m.buffer) :
         m.buffer[i].seqNum = Base(m) + i - 1 /\ Genuine(m, m.buffer[i])
  <2> TAKE i \in 1 .. Len(m.buffer)
  <2>1. CASE i \in 1 .. Len(k.buffer)
    BY <2>1, <1>5, <1>6, <1>8, <1>9 DEF LinkInv, Contiguous
  <2>2. CASE i = Len(k.buffer) + 1
    <3>1. m.buffer[i] = p
      BY <2>2, <1>5, <1>6
    <3>2. Base(m) + i - 1 = k.sendSeqNum - 1
      BY <2>2, <1>1, <1>3, <1>7
    <3> QED
      BY <3>1, <3>2, <1>2, <1>9
  <2> QED
    BY <2>1, <2>2, <1>3, <1>5, <1>6
<1>11. Contiguous(m)
  BY <1>8, <1>10 DEF Contiguous, LinkInv
<1>12. Counted(m)
  BY <1>2, <1>3, <1>5, <1>6, SMTT(30) DEF Counted, LinkInv, Offered
<1> QED
  BY <1>4, <1>6, <1>8, <1>9, <1>11, <1>12 DEF LinkInv, p

(***************************************************************************)
(* Delivery in order.  k sends to o.                                       *)
(***************************************************************************)
Delivered(k, o) ==
  /\ o.recvSeqNum <= k.sendSeqNum
  /\ \A i \in 1 .. o.recvSeqNum : o.rcvd[i] = k.sent[i]

Inv ==
  /\ link \in [Links -> LinkState]
  /\ \A l \in Links : LinkInv(link[l])
  /\ \A l \in Links : Delivered(link[l], link[Other(l)])

\* At most one packet is accepted.
Grows(k, n) ==
  \/ n.sent = k.sent /\ n.sendSeqNum = k.sendSeqNum
  \/ /\ \E pkt \in Pkt : n.sent = Append(k.sent, pkt)
     /\ n.sendSeqNum = k.sendSeqNum + 1

\* At most one packet is delivered, and it is the packet p.
Takes(o, m, p) ==
  \/ m.recvSeqNum = o.recvSeqNum /\ m.rcvd = o.rcvd
  \/ /\ p.kind = "TLP"
     /\ p.seqNum = o.recvSeqNum
     /\ m.recvSeqNum = o.recvSeqNum + 1
     /\ m.rcvd = Append(o.rcvd, p.pkt)

LEMMA LinksFacts ==
  \A l \in Links : Other(l) \in Links /\ Other(l) # l /\ Other(Other(l)) = l
                   /\ \A i \in Links : i = l \/ i = Other(l)
BY DEF Links, Other

\* Every action, seen by one interface: the invariant of the interface holds
\* after it, and it accepts at most one packet and delivers at most the packet
\* that was on the other link.
Shape(l) ==
  /\ LinkInv(link'[l])
  /\ Grows(link[l], link'[l])
  /\ Takes(link[l], link'[l], link[Other(l)].packet)

\* An interface an action does not touch.
LEMMA IdleShape ==
  ASSUME Inv, NEW l \in Links, link'[l] = link[l]
  PROVE  Shape(l)
BY DEF Inv, Shape, Grows, Takes

LEMMA OfferShape ==
  ASSUME Inv, NEW l \in Links, NEW pkt \in Pkt, Offer(l, pkt)
  PROVE  /\ link' \in [Links -> LinkState]
         /\ \A i \in Links : Shape(i)
         /\ Accepts(link[l], link'[l])
         /\ \A i \in Links : i # l => link'[i] = link[i]
<1> DEFINE n == linkTransmitInterface(link[l], pkt)
<1>1. LinkInv(link[l]) /\ link' = [link EXCEPT ![l] = n]
  BY DEF Inv, Offer
<1>2. LinkInv(n) /\ Accepts(link[l], n)
  BY <1>1, LinkTransmitInv, SMTT(30) DEF Offer
<1> HIDE DEF n
<1>3. /\ link' \in [Links -> LinkState]
      /\ link'[l] = n
      /\ \A i \in Links : i # l => link'[i] = link[i]
  BY <1>1, <1>2, Zenon DEF Inv, LinkInv
<1>4. Shape(l)
  BY <1>2, <1>3 DEF Shape, Grows, Takes, Accepts
<1> QED
  BY <1>2, <1>3, <1>4, IdleShape

LEMMA TimeoutShape ==
  ASSUME Inv, NEW l \in Links, timeoutFunc(l)
  PROVE  /\ link' \in [Links -> LinkState]
         /\ \A i \in Links : Shape(i)
         /\ Continues(link[l], link'[l])
         /\ link'[l].sendSeqNum = link[l].sendSeqNum
         /\ \A i \in Links : i # l => link'[i] = link[i]

\* The replay timer sends the oldest TLP of the buffer again.
<1>ReplayInv.
      ASSUME NEW k, LinkInv(k)
      PROVE  /\ LinkInv(replay(k))
             /\ Continues(k, replay(k))
             /\ replay(k).sent = k.sent
             /\ replay(k).sendSeqNum = k.sendSeqNum
  <2> USE <1>ReplayInv
  <2> DEFINE k1 == [k EXCEPT !.timeoutEvent = FALSE]
             p == Head(k.buffer)
             t == transmit(k1, p)
             w == [t EXCEPT !.retransmit = TRUE,
                            !.retransmitIdx = IF busy(k) THEN 0 ELSE 1]
  <2>1. k \in LinkState /\ k.buffer \in Seq(TLPs)
    BY DEF LinkInv, LinkState
  <2>2. replay(k) = IF k.buffer = <<>> \/ k.retransmit THEN k1 ELSE w
    BY DEF replay
  <2>3. /\ k1 \in LinkState
        /\ SameSender(k, k1)
        /\ k1.packet = k.packet
        /\ k1.recvSeqNum = k.recvSeqNum
        /\ k1.rcvd = k.rcvd
        /\ k1.ackEvent = k.ackEvent
        /\ k1.replayDLLP = k.replayDLLP
    BY <2>1, Zenon DEF LinkState, SameSender
  <2> HIDE DEF k1
  <2>4. LinkInv(k1) /\ Base(k1) = Base(k)
    BY <2>3, SameLinkInv
  <2>5. Continues(k, k1) /\ k1.sent = k.sent /\ k1.sendSeqNum = k.sendSeqNum
    BY <2>3, <2>4 DEF Continues, SameSender
  <2>6. ASSUME k.buffer # <<>>
        PROVE  /\ LinkInv(w)
               /\ Continues(k, w)
               /\ w.sent = k.sent
               /\ w.sendSeqNum = k.sendSeqNum
    <3>1. 1 \in 1 .. Len(k.buffer) /\ p = k.buffer[1]
      BY <2>1, <2>6
    <3>2. p \in TLPs /\ Genuine(k1, p)
      BY <2>1, <2>3, <3>1, SMTT(30), Z3T(30) DEF LinkInv, Contiguous, Genuine, SameSender
    <3> HIDE DEF p
    <3>3. LinkInv(t) /\ Continues(k1, t) /\ SameSender(k1, t)
      BY <2>4, <3>2, TransmitContinues, TransmitFrame, SMTT(30), Z3T(30) DEF SameSender, LinkInv
    <3> HIDE DEF t
    <3>4. t \in LinkState
      BY <3>3 DEF LinkInv
    <3>5. /\ w \in LinkState
          /\ w.buffer = t.buffer
          /\ w.sendSeqNum = t.sendSeqNum
          /\ w.replayPacket = t.replayPacket
          /\ w.held = t.held
          /\ w.sent = t.sent
          /\ w.packet = t.packet
          /\ w.recvSeqNum = t.recvSeqNum
          /\ w.rcvd = t.rcvd
          /\ w.ackEvent = t.ackEvent
          /\ w.replayDLLP = t.replayDLLP
      BY <3>4, ZenonT(40) DEF LinkState
    <3> HIDE DEF w
    <3>6. LinkInv(w) /\ Continues(t, w)
      BY <3>3, <3>5, SMTT(30), Z3T(30)
      DEF LinkInv, Counted, Contiguous, Base, Genuine, Offered, Continues
    <3>7. w.sent = k.sent /\ w.sendSeqNum = k.sendSeqNum
      BY <2>3, <3>3, <3>5, SMTT(30) DEF SameSender
    <3> QED
      BY <2>5, <3>3, <3>6, <3>7, ContinuesTrans
  <2> HIDE DEF w
  <2> QED
    BY <2>2, <2>4, <2>5, <2>6

<1> DEFINE n == replay(link[l])
<1>1. LinkInv(link[l]) /\ link' = [link EXCEPT ![l] = n]
  BY SMT, Z3T(30) DEF Inv, timeoutFunc
<1>2. /\ LinkInv(n)
      /\ Continues(link[l], n)
      /\ n.sent = link[l].sent
      /\ n.sendSeqNum = link[l].sendSeqNum
  BY <1>1, <1>ReplayInv, SMTT(30), Z3T(30)
<1> HIDE DEF n
<1>3. /\ link' \in [Links -> LinkState]
      /\ link'[l] = n
      /\ \A i \in Links : i # l => link'[i] = link[i]
  BY <1>1, <1>2, SMTT(30), Z3T(30) DEF Inv, LinkInv
<1>4. Shape(l)
  BY <1>2, <1>3 DEF Shape, Grows, Takes, Continues
<1> QED
  BY <1>2, <1>3, <1>4, IdleShape

LEMMA SendAckShape ==
  ASSUME Inv, NEW l \in Links, sendAck(l)
  PROVE  /\ link' \in [Links -> LinkState]
         /\ \A i \in Links : Shape(i)
         /\ Base(link'[l]) = Base(link[l])
         /\ SameSender(link[l], link'[l])
         /\ OnlyAcks(link[l], link'[l])
         /\ link'[l].recvSeqNum = link[l].recvSeqNum
         /\ \A i \in Links : i # l => link'[i] = link[i]

\* The Ack timer sends an Ack for everything received, or stops.
<1>AckTimerInv.
      ASSUME NEW k, LinkInv(k)
      PROVE  LET n == ackTimer(k)
             IN  /\ LinkInv(n)
                 /\ Base(n) = Base(k)
                 /\ SameSender(k, n)
                 /\ OnlyAcks(k, n)
                 /\ n.recvSeqNum = k.recvSeqNum
                 /\ n.rcvd = k.rcvd
                 /\ n.ackEvent => k.ackEvent
  <2> USE <1>AckTimerInv
  <2> DEFINE r == Pred(k.recvSeqNum)
             ack == DataLinkPacket(r)
             k1 == [k EXCEPT !.lastAcked = r]
             a == [k EXCEPT !.ackEvent = FALSE]
             b == [k1 EXCEPT !.replayDLLP = ack]
             n == ackTimer(k)
  <2>1. k \in LinkState
    BY DEF LinkInv
  <2>2. ack \in DLLPs /\ r \in 0 .. UInt64Max
    BY <2>1, AckIs DEF LinkState
  <2>3. n = IF k.lastAcked = r THEN a ELSE IF busy(k) THEN b ELSE transmit(k1, ack)
    BY DEF ackTimer
  <2>4. /\ n \in LinkState
        /\ SameSender(k, n)
        /\ n.packet = k.packet \/ n.packet = ack
        /\ n.replayDLLP = k.replayDLLP \/ n.replayDLLP = ack
        /\ n.recvSeqNum = k.recvSeqNum
        /\ n.rcvd = k.rcvd
        /\ n.ackEvent => k.ackEvent
    <3> HIDE DEF r, ack, n
    <3>1. CASE n = a
      BY <3>1, <2>1, Zenon DEF LinkState, SameSender
    <3>2. /\ k1 \in LinkState
          /\ SameSender(k, k1)
          /\ k1.packet = k.packet
          /\ k1.replayDLLP = k.replayDLLP
          /\ k1.recvSeqNum = k.recvSeqNum
          /\ k1.rcvd = k.rcvd
          /\ k1.ackEvent = k.ackEvent
      BY <2>1, <2>2, Zenon DEF LinkState, SameSender
    <3> HIDE DEF k1
    <3>3. CASE n = b
      BY <3>2, <3>3, <2>2, ZenonT(40) DEF LinkState, SameSender
    <3>4. CASE n = transmit(k1, ack)
      BY <3>2, <3>4, <2>2, TransmitFrame, SMT, Z3T(30) DEF SameSender
    <3> QED
      BY <2>3, <3>1, <3>3, <3>4
  <2>5. LinkInv(n) /\ Base(n) = Base(k)
    <3> HIDE DEF n, ack
    <3> QED
      BY <2>2, <2>4, SameSenderInv DEF LinkInv, Counted
  <2> QED
    BY <2>4, <2>5 DEF OnlyAcks

<1> DEFINE n == ackTimer(link[l])
<1>1. LinkInv(link[l]) /\ link' = [link EXCEPT ![l] = n]
  BY DEF Inv, sendAck
<1>2. /\ LinkInv(n)
      /\ Base(n) = Base(link[l])
      /\ SameSender(link[l], n)
      /\ OnlyAcks(link[l], n)
      /\ n.recvSeqNum = link[l].recvSeqNum
      /\ n.rcvd = link[l].rcvd
  BY <1>1, <1>AckTimerInv, SMTT(30), Z3T(30)
<1> HIDE DEF n
<1>3. /\ link' \in [Links -> LinkState]
      /\ link'[l] = n
      /\ \A i \in Links : i # l => link'[i] = link[i]
  BY <1>1, <1>2, SMTT(30), Z3T(30) DEF Inv, LinkInv
<1>4. Shape(l)
  BY <1>2, <1>3 DEF Shape, Grows, Takes, SameSender
<1> QED
  BY <1>2, <1>3, <1>4, IdleShape, SMT, Z3T(30)

LEMMA TxDoneShape ==
  ASSUME Inv, NEW l \in Links, NEW ok \in BOOLEAN, txDone(l, ok)
  PROVE  LET o == Other(l)
             p == link[l].packet
         IN  /\ link' \in [Links -> LinkState]
             /\ \A i \in Links : Shape(i)
             /\ Finished(link[l], link'[l])
             /\ p \in TLPs => Received(link[o], link'[o], p, ok)
             /\ p \in DLLPs => Acknowledged(link[o], link'[o], p.seqNum)
             /\ p \in TLPs \cup DLLPs
             /\ MayAnswer(link[o], ok)

<1>ReceiveDLLPInv.
      ASSUME NEW k, LinkInv(k), NEW p \in DLLPs
      PROVE  /\ LinkInv(receiveDLLP(k, p))
             /\ Acknowledged(k, receiveDLLP(k, p), p.seqNum)
  <2> USE <1>ReceiveDLLPInv
  <2> DEFINE a == p.seqNum
             rest == popAcked(k.buffer, a)
             m == [k EXCEPT !.buffer = rest, !.timeoutEvent = rest # <<>>]
             n == sendRetries(m)
  <2>1. a \in Nat
    BY Kinds, SizeAssumption
  <2>2. receiveDLLP(k, p) = n
    BY DEF receiveDLLP
  <2> HIDE DEF a
  <2>3. k \in LinkState /\ k.buffer \in Seq(TLPs) /\ Len(k.buffer) \in Nat
    BY DEF LinkInv, LinkState
  <2>4. rest \in Seq(TLPs)
    <3>1. AckedPrefix(k.buffer, a) \in 0 .. Len(k.buffer)
      BY <2>1, AckedPrefixIs
    <3> QED
      BY <3>1, <2>3 DEF popAcked
  <2> HIDE DEF rest
  <2>5. /\ m \in LinkState
        /\ m.packet = k.packet
        /\ m.buffer = rest
        /\ m.sendSeqNum = k.sendSeqNum
        /\ m.recvSeqNum = k.recvSeqNum
        /\ m.replayPacket = k.replayPacket
        /\ m.replayDLLP = k.replayDLLP
        /\ m.ackEvent = k.ackEvent
        /\ m.sent = k.sent
        /\ m.rcvd = k.rcvd
        /\ m.held = k.held
    BY <2>3, <2>4, ZenonT(40) DEF LinkState
  <2> HIDE DEF m
  <2>6. /\ LinkInv(m)
        /\ \E i \in 0 .. Len(k.buffer) :
             /\ Len(m.buffer) = Len(k.buffer) - i
             /\ Base(m) = Base(k) + i
             /\ i > 0 => Base(m) <= a + 1
    BY <2>1, <2>5, PoppedInv, Zenon DEF rest
  <2>7. LinkInv(n) /\ Accepts(m, n)
    BY <2>6, SendRetriesInv
  <2> HIDE DEF n
  <2>8. Base(n) = Base(m) /\ Base(k) \in Int
    <3>1. Base(n) = Base(m)
      BY <2>6, <2>7, AcceptsBase, Zenon
    <3>2. Base(k) \in Int
      BY <2>3, SizeAssumption, SMT, Z3T(30) DEF Base, LinkState
    <3> QED
      BY <3>1, <3>2
  <2>9. Base(n) = Base(k) \/ Base(n) <= a + 1
    BY <2>3, <2>6, <2>8
  <2>10. k.buffer = <<>> => n.buffer = <<>>
    <3>1. k.buffer = <<>> => Len(m.buffer) = 0
      BY ONLY <2>3, <2>6, SMT, Z3T(30)
    <3> QED
      BY <3>1, <2>4, <2>5, <2>7 DEF Accepts
  <2> QED
    BY <2>2, <2>5, <2>7, <2>9, <2>10 DEF Acknowledged, Accepts, a

<1>CreateAckFrame.
      ASSUME NEW k \in LinkState
      PROVE  /\ createAck(k) \in LinkState
             /\ SameSender(k, createAck(k))
             /\ OnlyAcks(k, createAck(k))
             /\ createAck(k).packet = k.packet \/ createAck(k).packet \in DLLPs
             /\ createAck(k).recvSeqNum = k.recvSeqNum
             /\ createAck(k).rcvd = k.rcvd
  <2> USE <1>CreateAckFrame
  <2> DEFINE ack == DataLinkPacket(Pred(k.recvSeqNum))
             w == [k EXCEPT !.replayDLLP = ack, !.lastAcked = Pred(k.recvSeqNum),
                            !.ackEvent = TRUE]
  <2>1. ack \in DLLPs /\ Pred(k.recvSeqNum) \in 0 .. UInt64Max
    BY AckIs DEF LinkState
  <2>2. createAck(k) = IF k.ackEvent THEN k
                       ELSE IF busy(k) THEN w ELSE transmit(k, ack)
    BY DEF createAck
  <2>3. /\ w \in LinkState
        /\ SameSender(k, w)
        /\ w.packet = k.packet
        /\ w.replayDLLP = ack
        /\ w.recvSeqNum = k.recvSeqNum
        /\ w.rcvd = k.rcvd
    BY <2>1, Zenon DEF LinkState, SameSender
  <2>4. /\ transmit(k, ack) \in LinkState
        /\ SameSender(k, transmit(k, ack))
        /\ transmit(k, ack).packet = k.packet \/ transmit(k, ack).packet = ack
        /\ transmit(k, ack).replayDLLP = k.replayDLLP
        /\ transmit(k, ack).recvSeqNum = k.recvSeqNum
        /\ transmit(k, ack).rcvd = k.rcvd
    <3> HIDE DEF ack
    <3> QED
      BY <2>1, TransmitFrame DEF SameSender
  <2> HIDE DEF w
  <2> QED
    BY <2>1, <2>2, <2>3, <2>4 DEF SameSender, OnlyAcks

<1>ReceiveTLPInv.
      ASSUME NEW k, LinkInv(k), NEW p \in TLPs, p.seqNum < MaxTLPs,
             NEW took \in BOOLEAN
      PROVE  /\ LinkInv(receiveTLP(k, p, took))
             /\ Received(k, receiveTLP(k, p, took), p, took)
  <2> USE <1>ReceiveTLPInv
  <2> DEFINE m == [k EXCEPT !.recvSeqNum = @ + 1, !.rcvd = Append(@, p.pkt)]
             n == receiveTLP(k, p, took)
  <2>1. k \in LinkState /\ Len(k.rcvd) = k.recvSeqNum /\ p.pkt \in Pkt
    BY Kinds DEF LinkInv, Counted
  <2>2. CASE p.seqNum # k.recvSeqNum
    <3>1. n = createAck(k)
      BY <2>2 DEF receiveTLP
    <3>2. LinkInv(n) /\ Base(n) = Base(k)
      BY <2>1, <3>1, <1>CreateAckFrame, SameSenderInv, ZenonT(40)
    <3> QED
      BY <2>1, <2>2, <3>1, <3>2, <1>CreateAckFrame DEF Received
  <2>3. CASE p.seqNum = k.recvSeqNum /\ ~took
    <3>1. n = k
      BY <2>3 DEF receiveTLP
    <3> QED
      BY <2>3, <3>1 DEF Received, SameSender, OnlyAcks
  <2>4. CASE p.seqNum = k.recvSeqNum /\ took
    <3>1. n = createAck(m)
      BY <2>4, Zenon DEF receiveTLP
    <3>2. k.recvSeqNum + 1 \in 0 .. MaxTLPs /\ Append(k.rcvd, p.pkt) \in Seq(Pkt)
          /\ Len(Append(k.rcvd, p.pkt)) = k.recvSeqNum + 1
      BY <2>1, <2>4, SizeAssumption, SMTT(30) DEF LinkState
    <3>3. /\ m \in LinkState
          /\ SameSender(k, m)
          /\ m.packet = k.packet
          /\ m.replayDLLP = k.replayDLLP
          /\ m.recvSeqNum = k.recvSeqNum + 1
          /\ m.rcvd = Append(k.rcvd, p.pkt)
      BY <2>1, <3>2, Zenon DEF LinkState, SameSender
    <3> HIDE DEF m
    <3>4. /\ n \in LinkState
          /\ SameSender(m, n)
          /\ OnlyAcks(m, n)
          /\ n.packet = m.packet \/ n.packet \in DLLPs
          /\ n.recvSeqNum = m.recvSeqNum
          /\ n.rcvd = m.rcvd
      BY <3>1, <3>3, <1>CreateAckFrame, SMTT(30), Z3T(30)
    <3>5. SameSender(k, n) /\ OnlyAcks(k, n)
      BY <3>3, <3>4 DEF SameSender, OnlyAcks
    <3> HIDE DEF n
    <3>6. LinkInv(n) /\ Base(n) = Base(k)
      BY <3>2, <3>3, <3>4, <3>5, SameSenderInv, ZenonT(40)
    <3> QED
      BY <2>4, <3>3, <3>4, <3>5, <3>6, Zenon DEF Received, n
  <2> QED
    BY <2>2, <2>3, <2>4, Zenon

<1>StoreTLPInv.
      ASSUME NEW k, LinkInv(k), NEW p \in TLPs \cup DLLPs
      PROVE  LET n == storeTLP(k, p)
             IN  /\ LinkInv(n)
                 /\ n.recvSeqNum = k.recvSeqNum
                 /\ n.rcvd = k.rcvd
                 /\ n.ackEvent = k.ackEvent
                 /\ n.replayDLLP = k.replayDLLP
                 /\ n.packet = k.packet \/ n.packet \in TLPs
                 /\ Base(n) = Base(k)
                 /\ \/ n = k
                    \/ /\ p = k.replayPacket
                       /\ \/ n.sent = k.sent /\ n.sendSeqNum = k.sendSeqNum
                          \/ /\ \E pkt \in Pkt : n.sent = Append(k.sent, pkt)
                             /\ n.sendSeqNum = k.sendSeqNum + 1
                             /\ n.replayPacket # NULL
  <2> USE <1>StoreTLPInv
  <2>1. CASE p # k.replayPacket
    BY <2>1, Zenon DEF storeTLP
  <2>2. CASE p = k.replayPacket
    <3> DEFINE b == pushBack(k.buffer, p)
               m == [k EXCEPT !.buffer = b, !.replayPacket = NULL,
                              !.timeoutEvent = TRUE]
               n == sendRetries(m)
    <3>1. storeTLP(k, p) = n
      BY <2>2, ZenonT(40) DEF storeTLP
    <3>2. k \in LinkState /\ k.buffer \in Seq(TLPs) /\ p \in TLPs /\ p # NULL
      BY <2>2, Kinds DEF LinkInv, LinkState
    <3>3. b \in Seq(TLPs)
      BY <3>2 DEF pushBack
    <3> HIDE DEF b
    <3>4. /\ m \in LinkState
          /\ m.buffer = b
          /\ m.sendSeqNum = k.sendSeqNum
          /\ m.replayPacket = NULL
          /\ m.replayDLLP = k.replayDLLP
          /\ m.ackEvent = k.ackEvent
          /\ m.held = k.held
          /\ m.sent = k.sent
          /\ m.packet = k.packet
          /\ m.recvSeqNum = k.recvSeqNum
          /\ m.rcvd = k.rcvd
      BY <3>2, <3>3, Zenon DEF LinkState
    <3> HIDE DEF m
    <3>5. LinkInv(m) /\ Base(m) = Base(k)
      BY <2>2, <3>2, <3>4, StoredInv DEF b
    <3>6. LinkInv(n) /\ Accepts(m, n)
      BY <3>5, SendRetriesInv
    <3>7. Base(n) = Base(m)
      BY <3>5, <3>6, AcceptsBase, ZenonT(40)
    <3> HIDE DEF n
    <3> QED
      BY <2>2, <3>1, <3>4, <3>5, <3>6, <3>7 DEF Accepts
  <2> QED
    BY <2>1, <2>2

<1>FinishTxInv.
      ASSUME NEW k, LinkInv(k), busy(k)
      PROVE  LinkInv(finishTx(k)) /\ Finished(k, finishTx(k))
  <2> USE <1>FinishTxInv
  <2> DEFINE k1 == sendReplayDLLP([k EXCEPT !.packet = NULL])
             k2 == storeTLP(k1, k.packet)
             n == IF k2.retransmit THEN retransmitNext(k2) ELSE sendReplayPacket(k2)
  <2>1. finishTx(k) = n
    BY DEF finishTx
  <2>2. k.packet \in TLPs \cup DLLPs
    BY DEF LinkInv, LinkState, busy
  <2>3. /\ LinkInv(k1)
        /\ SameSender(k, k1)
        /\ k1.recvSeqNum = k.recvSeqNum
        /\ k1.rcvd = k.rcvd
        /\ k1.ackEvent = k.ackEvent
        /\ k1.replayDLLP = NULL
        /\ k1.packet = k.replayDLLP
    BY SendReplayDLLPInv
  <2> HIDE DEF k1
  <2>4. Base(k1) = Base(k)
    BY <2>3, Zenon DEF SameSender, Base
  <2>5. /\ LinkInv(k2)
        /\ k2.recvSeqNum = k1.recvSeqNum
        /\ k2.rcvd = k1.rcvd
        /\ k2.ackEvent = k1.ackEvent
        /\ k2.replayDLLP = k1.replayDLLP
        /\ k2.packet = k1.packet \/ k2.packet \in TLPs
        /\ Base(k2) = Base(k1)
        /\ \/ k2 = k1
           \/ /\ k.packet = k1.replayPacket
              /\ \/ k2.sent = k1.sent /\ k2.sendSeqNum = k1.sendSeqNum
                 \/ /\ \E pkt \in Pkt : k2.sent = Append(k1.sent, pkt)
                    /\ k2.sendSeqNum = k1.sendSeqNum + 1
                    /\ k2.replayPacket # NULL
    BY <2>2, <2>3, <1>StoreTLPInv, Zenon
  <2> HIDE DEF k2
  <2>6. LinkInv(n) /\ Continues(k2, n)
    BY <2>5, RetransmitNextInv, SendReplayPacketInv, Zenon
  <2> HIDE DEF n
  <2>7. n.packet = k.replayDLLP \/ n.packet \in TLPs \cup {NULL}
    BY <2>3, <2>5, <2>6, Zenon DEF Continues
  <2>8. n.buffer = k.buffer \/ k.packet = k.replayPacket
    BY <2>3, <2>5, <2>6, ZenonT(40) DEF Continues, SameSender
  <2>9. \/ n.sent = k.sent /\ n.sendSeqNum = k.sendSeqNum
        \/ /\ \E pkt \in Pkt : n.sent = Append(k.sent, pkt)
           /\ n.sendSeqNum = k.sendSeqNum + 1
           /\ k.replayPacket = NULL \/ k.packet = k.replayPacket
    BY <2>3, <2>5, <2>6 DEF Continues, SameSender
  <2> QED
    BY <2>1, <2>3, <2>4, <2>5, <2>6, <2>7, <2>8, <2>9 DEF Finished, Continues

<1> DEFINE o == Other(l)
           k == link[l]
           p == k.packet
           n == finishTx(k)
           m == linkReceiveInterface(link[o], p, ok)
<1>1. o \in Links /\ o # l /\ Other(o) = l /\ \A i \in Links : i = l \/ i = o
  BY LinksFacts
<1>2. /\ LinkInv(k)
      /\ LinkInv(link[o])
      /\ busy(k)
      /\ MayAnswer(link[o], ok)
  BY <1>1 DEF Inv, txDone
<1>3. link' = [link EXCEPT ![o] = m, ![l] = n]
  BY <1>1 DEF txDone, Inv
<1>4. LinkInv(n) /\ Finished(k, n)
  BY ONLY <1>2, <1>FinishTxInv
<1>5. p \in TLPs \cup DLLPs
  BY <1>2, Zenon DEF LinkInv, LinkState, busy
<1>6. ASSUME p \in TLPs
      PROVE  LinkInv(m) /\ Received(link[o], m, p, ok)
  <2>1. p.kind = "TLP" /\ p.seqNum < MaxTLPs
    <3>1. p.kind = "TLP" /\ p.seqNum \in Nat
      BY <1>6, Kinds, SizeAssumption, SMTT(30)
    <3>2. p.seqNum < k.sendSeqNum
      BY <1>2, <3>1, ZenonT(40) DEF LinkInv, Genuine
    <3>3. k.sendSeqNum \in Nat /\ k.sendSeqNum <= MaxTLPs
      BY <1>2, SizeAssumption, SMTT(30) DEF LinkInv, LinkState
    <3> QED
      BY <3>1, <3>2, <3>3, SizeAssumption
  <2> QED
    BY <1>2, <1>6, <2>1, <1>ReceiveTLPInv, Zenon DEF linkReceiveInterface
<1>7. ASSUME p \in DLLPs
      PROVE  LinkInv(m) /\ Acknowledged(link[o], m, p.seqNum)
  BY <1>2, <1>7, Kinds, <1>ReceiveDLLPInv, Zenon DEF linkReceiveInterface
<1> HIDE DEF n, m, o
<1>8. link' \in [Links -> LinkState] /\ link'[l] = n /\ link'[o] = m
  BY <1>1, <1>3, <1>4, <1>5, <1>6, <1>7, ZenonT(40) DEF Inv, LinkInv
<1>9. Shape(l)
  BY <1>4, <1>8 DEF Shape, Grows, Takes, Finished
<1>10. Shape(o)
  <2>1. CASE p \in TLPs
    BY <1>1, <1>6, <1>8, <2>1, Kinds, ZenonT(40) DEF Shape, Grows, Takes, Received, SameSender
  <2>2. CASE p \in DLLPs
    BY <1>1, <1>7, <1>8, <2>2 DEF Shape, Grows, Takes, Acknowledged
  <2> QED
    BY ONLY <1>5, <2>1, <2>2
<1> QED
  BY <1>1, <1>2, <1>4, <1>5, <1>6, <1>7, <1>8, <1>9, <1>10, ZenonT(40) DEF o

LEMMA InvInit == Init => Inv
<1> SUFFICES ASSUME Init PROVE Inv
  OBVIOUS
<1>1. NewLink \in LinkState
  <2>1. <<>> \in Seq(TLPs) /\ <<>> \in Seq(Pkt)
    OBVIOUS
  <2>2. [c \in Class |-> NoPkt] \in [Class -> Pkt \cup {NoPkt}]
    OBVIOUS
  <2>3. 0 \in 0 .. MaxTLPs /\ 0 \in 0 .. UInt64Max /\ 0 \in Nat
    BY SizeAssumption
  <2> QED
    BY <2>1, <2>2, <2>3 DEF NewLink, LinkState
<1>2. /\ NewLink.packet = NULL /\ NewLink.replayPacket = NULL
      /\ NewLink.buffer = <<>> /\ NewLink.sent = <<>> /\ NewLink.rcvd = <<>>
      /\ NewLink.sendSeqNum = 0 /\ NewLink.recvSeqNum = 0
      /\ NewLink.held = [c \in Class |-> NoPkt]
  BY DEF NewLink
<1>3. Base(NewLink) = 0
  <2>1. Len(NewLink.buffer) = 0
    BY <1>2
  <2>2. Base(NewLink) = 0 - 0 - 0
    BY <2>1, <1>2 DEF Base
  <2> QED
    BY <2>2
<1>4. Offered(NewLink) = 0
  <2>1. NewLink.held["req"] = NoPkt /\ NewLink.held["resp"] = NoPkt
    BY <1>2 DEF Class
  <2>2. Offered(NewLink) = 0 + 0 + 0
    BY <2>1, <1>2 DEF Offered
  <2> QED
    BY <2>2
<1>5. LinkInv(NewLink)
  BY <1>1, <1>2, <1>3, <1>4, Kinds, SizeAssumption
  DEF LinkInv, Counted, Contiguous
<1>6. Delivered(NewLink, NewLink)
  BY <1>2 DEF Delivered
<1> QED
  BY <1>1, <1>5, <1>6, LinksFacts DEF Init, Inv

LEMMA NextShape ==
  ASSUME Inv, [Next]_vars
  PROVE  /\ link' \in [Links -> LinkState]
         /\ \A i \in Links : Shape(i)
<1>1. CASE UNCHANGED vars
  BY <1>1, IdleShape DEF vars, Inv
<1>2. ASSUME NEW l \in Links, NEW pkt \in Pkt, Offer(l, pkt)
      PROVE  link' \in [Links -> LinkState] /\ \A i \in Links : Shape(i)
  BY <1>2, OfferShape
<1>3. ASSUME NEW l \in Links, NEW ok \in BOOLEAN, txDone(l, ok)
      PROVE  link' \in [Links -> LinkState] /\ \A i \in Links : Shape(i)
  BY <1>3, TxDoneShape
<1>4. ASSUME NEW l \in Links, timeoutFunc(l)
      PROVE  link' \in [Links -> LinkState] /\ \A i \in Links : Shape(i)
  BY <1>4, TimeoutShape
<1>5. ASSUME NEW l \in Links, sendAck(l)
      PROVE  link' \in [Links -> LinkState] /\ \A i \in Links : Shape(i)
  BY <1>5, SendAckShape
<1> QED
  BY <1>1, <1>2, <1>3, <1>4, <1>5 DEF Next

LEMMA InvNext == Inv /\ [Next]_vars => Inv'
<1>DeliveredStep.
      ASSUME NEW k, NEW n, NEW o, NEW m, LinkInv(k), LinkInv(o), Delivered(k, o),
             Grows(k, n), Takes(o, m, k.packet)
      PROVE  Delivered(n, m)
  <2> USE <1>DeliveredStep
  <2>1. /\ k.sendSeqNum \in Nat /\ o.recvSeqNum \in Nat
        /\ k.sent \in Seq(Pkt) /\ Len(k.sent) = k.sendSeqNum
        /\ o.rcvd \in Seq(Pkt) /\ Len(o.rcvd) = o.recvSeqNum
    BY SizeAssumption, SMTT(30) DEF LinkInv, LinkState, Counted
  <2>2. k.packet.kind = "TLP" => /\ k.packet \in TLPs
                                 /\ k.packet.seqNum < k.sendSeqNum
                                 /\ k.packet.pkt = k.sent[k.packet.seqNum + 1]
                                 /\ k.packet.pkt \in Pkt
    BY Kinds, Zenon DEF LinkInv, LinkState, Genuine
  <2>3. Delivered(k, m)
    <3>1. CASE m.recvSeqNum = o.recvSeqNum /\ m.rcvd = o.rcvd
      BY <3>1, Zenon DEF Delivered
    <3>2. CASE /\ k.packet.kind = "TLP"
               /\ k.packet.seqNum = o.recvSeqNum
               /\ m.recvSeqNum = o.recvSeqNum + 1
               /\ m.rcvd = Append(o.rcvd, k.packet.pkt)
      <4>1. m.recvSeqNum <= k.sendSeqNum
        BY ONLY <2>1, <2>2, <3>2
      <4>2. ASSUME NEW i \in 1 .. m.recvSeqNum
            PROVE  m.rcvd[i] = k.sent[i]
        <5>1. CASE i \in 1 .. o.recvSeqNum
          BY <5>1, <2>1, <2>2, <3>2, SMT, Z3T(30) DEF Delivered
        <5>2. CASE i = o.recvSeqNum + 1
          BY <5>2, <2>1, <2>2, <3>2
        <5> QED
          BY ONLY <5>1, <5>2, <2>1, <3>2, SMT, Z3T(30)
      <4> QED
        BY <4>1, <4>2 DEF Delivered
    <3> QED
      BY <3>1, <3>2, Zenon DEF Takes
  <2>4. m.recvSeqNum \in Nat
    BY <2>1 DEF Takes
  <2>5. CASE n.sent = k.sent /\ n.sendSeqNum = k.sendSeqNum
    BY <2>3, <2>5 DEF Delivered
  <2>6. ASSUME NEW pkt \in Pkt, n.sent = Append(k.sent, pkt),
               n.sendSeqNum = k.sendSeqNum + 1
        PROVE  Delivered(n, m)
    BY <2>1, <2>3, <2>4, <2>6 DEF Delivered
  <2> QED
    BY <2>5, <2>6, ZenonT(40) DEF Grows

<1> SUFFICES ASSUME Inv, [Next]_vars PROVE Inv'
  OBVIOUS
<1>1. link' \in [Links -> LinkState] /\ \A i \in Links : Shape(i)
  BY NextShape
<1>2. ASSUME NEW l \in Links
      PROVE  Delivered(link'[l], link'[Other(l)])
  <2>1. Other(l) \in Links /\ Other(Other(l)) = l
    BY LinksFacts
  <2>2. Grows(link[l], link'[l]) /\ Takes(link[Other(l)], link'[Other(l)], link[l].packet)
    BY <1>1, <2>1 DEF Shape
  <2> QED
    BY <2>1, <2>2, <1>DeliveredStep DEF Inv
<1> QED
  BY <1>1, <1>2 DEF Inv, Shape

LEMMA InvImplies == Inv => TypeOK /\ InOrder
<1> SUFFICES ASSUME Inv PROVE TypeOK /\ InOrder
  OBVIOUS
<1>1. TypeOK
  BY DEF Inv, TypeOK, LinkInv, Counted
<1>2. ASSUME NEW l \in Links
      PROVE  LET sent == link[l].sent
                 rcvd == link[Other(l)].rcvd
             IN  Len(rcvd) <= Len(sent) /\ rcvd = SubSeq(sent, 1, Len(rcvd))
  <2> DEFINE sent == link[l].sent
             rcvd == link[Other(l)].rcvd
  <2>1. /\ sent \in Seq(Pkt) /\ rcvd \in Seq(Pkt)
        /\ Len(rcvd) <= Len(sent)
        /\ \A i \in 1 .. Len(rcvd) : rcvd[i] = sent[i]
    BY LinksFacts DEF Inv, LinkInv, LinkState, Counted, Delivered
  <2> HIDE DEF sent, rcvd
  <2>2. rcvd = SubSeq(sent, 1, Len(rcvd))
    <3> DEFINE s == SubSeq(sent, 1, Len(rcvd))
    <3>1. Len(s) = Len(rcvd) /\ s \in Seq(Pkt)
      BY <2>1
    <3>2. \A i \in 1 .. Len(rcvd) : s[i] = rcvd[i]
      BY <2>1
    <3> HIDE DEF s
    <3> QED
      BY <2>1, <3>1, <3>2 DEF s
  <2> QED
    BY <2>1, <2>2, ZenonT(40) DEF sent, rcvd
<1> QED
  BY <1>1, <1>2 DEF InOrder

\* Every interface of a PCIELink keeps its types, and its replay buffer stays
\* within maxQueueSize, whatever the devices refuse and however many packets
\* they offer.
THEOREM TypeCorrect == Spec => []TypeOK
BY InvInit, InvNext, InvImplies, PTL DEF Spec

\* A device receives exactly a prefix of the packets the other interface
\* accepted, whatever is refused, replayed or acknowledged.
THEOREM DeliveryInOrder == Spec => []InOrder
BY InvInit, InvNext, InvImplies, PTL DEF Spec

(***************************************************************************)
(* No packet is lost, if the first TLP is not refused and sequence numbers *)
(* fit an int.  The oldest TLP the sender k keeps is not newer than the    *)
(* next one the receiver r expects, and an Ack only names TLPs that were   *)
(* received.  Both rest on the first TLP: until it is received the sender  *)
(* has sent no other, so no Ack is made from recvSeqNum - 1 with           *)
(* recvSeqNum = 0.                                                         *)
(***************************************************************************)
Retains(k, r) ==
  /\ Base(k) <= r
  /\ r = 0 => k.buffer = <<>> /\ k.sendSeqNum <= 1

AckSound(o) ==
  /\ o.packet.kind = "DLLP" => o.packet.seqNum < o.recvSeqNum
  /\ o.replayDLLP # NULL => o.replayDLLP.seqNum < o.recvSeqNum
  /\ o.ackEvent => o.recvSeqNum > 0

NoLossInv ==
  \A l \in Links :
    Retains(link[l], link[Other(l)].recvSeqNum) /\ AckSound(link[l])

LEMMA SeqNumsAreNat ==
  \A k : LinkInv(k) => k.sendSeqNum \in Nat /\ k.recvSeqNum \in Nat
BY SizeAssumption DEF LinkInv, LinkState

LEMMA BaseIsInt ==
  ASSUME NEW k, LinkInv(k)
  PROVE  Base(k) \in Int
<1>1. k.sendSeqNum \in Nat /\ k.buffer \in Seq(TLPs)
  BY SizeAssumption DEF LinkInv, LinkState
<1>2. Len(k.buffer) \in Nat
  BY ONLY <1>1
<1> QED
  BY <1>1, <1>2 DEF Base

\* While nothing was received, a sender that has no TLP waiting has sent none.
LEMMA FirstTLP ==
  ASSUME NEW k, LinkInv(k), Retains(k, 0), k.replayPacket = NULL
  PROVE  k.sendSeqNum = 0
<1>1. k.sendSeqNum \in Nat /\ k.buffer = <<>> /\ Base(k) <= 0
  BY SizeAssumption DEF LinkInv, LinkState, Retains
<1>2. Base(k) = k.sendSeqNum - 0 - 0
  BY <1>1, SMTT(30) DEF Base
<1> QED
  BY ONLY <1>1, <1>2

LEMMA NoLossInit ==
  Init => NoLossInv
<1> SUFFICES ASSUME Init PROVE NoLossInv
  OBVIOUS
<1>1. /\ NewLink.packet = NULL /\ NewLink.replayPacket = NULL
      /\ NewLink.replayDLLP = NULL /\ NewLink.ackEvent = FALSE
      /\ NewLink.buffer = <<>> /\ NewLink.sendSeqNum = 0 /\ NewLink.recvSeqNum = 0
  BY DEF NewLink
<1>2. Base(NewLink) = 0
  <2>1. Len(NewLink.buffer) = 0
    BY <1>1
  <2>2. Base(NewLink) = 0 - 0 - 0
    BY <2>1, <1>1 DEF Base
  <2> QED
    BY <2>2
<1>3. Retains(NewLink, 0) /\ AckSound(NewLink)
  BY <1>1, <1>2, Kinds, SMTT(30) DEF Retains, AckSound
<1> QED
  BY <1>1, <1>3, LinksFacts, Zenon DEF Init, NoLossInv

LEMMA NoLossNext ==
  ASSUME ~MayRefuseFirst, MaxTLPs <= IntMax + 1
  PROVE  Inv /\ NoLossInv /\ [Next]_vars => NoLossInv'
<1>AcksAreSound.
      ASSUME NEW k, NEW n, LinkInv(n), AckSound(k), OnlyAcks(k, n),
             k.recvSeqNum \in Nat, n.recvSeqNum >= k.recvSeqNum, n.recvSeqNum > 0,
             MaxTLPs <= IntMax + 1
      PROVE  AckSound(n)
  <2> USE <1>AcksAreSound
  <2>1. n.recvSeqNum \in 0 .. MaxTLPs /\ n.recvSeqNum \in Nat /\ n \in LinkState
    BY SizeAssumption DEF LinkInv, LinkState
  <2>2. DataLinkPacket(Pred(n.recvSeqNum)).seqNum < n.recvSeqNum
    BY <2>1, AckIs
  <2>3. n.packet.kind = "DLLP" => n.packet.seqNum < n.recvSeqNum
    <3>1. CASE n.packet = DataLinkPacket(Pred(n.recvSeqNum))
      BY <3>1, <2>2
    <3>2. CASE n.packet = k.packet /\ n.packet.kind = "DLLP"
      <4>1. k.packet.seqNum < k.recvSeqNum /\ k.packet.seqNum \in Nat
        BY <3>2, <2>1, Kinds, SizeAssumption, SMTT(30) DEF AckSound, LinkState
      <4> QED
        BY <3>2, <4>1, <2>1, SMTT(30)
    <3> QED
      BY <3>1, <3>2 DEF OnlyAcks
  <2>4. n.replayDLLP # NULL => n.replayDLLP.seqNum < n.recvSeqNum
    <3>1. CASE n.replayDLLP = DataLinkPacket(Pred(n.recvSeqNum))
      BY <3>1, <2>2
    <3>2. CASE n.replayDLLP = k.replayDLLP /\ n.replayDLLP # NULL
      <4>1. k.replayDLLP.seqNum < k.recvSeqNum /\ k.replayDLLP.seqNum \in Nat
        BY <3>2, <2>1, Kinds, SizeAssumption, SMTT(30), Z3T(30) DEF AckSound, LinkState
      <4> QED
        BY <3>2, <4>1, <2>1, SMTT(30), Z3T(30)
    <3> QED
      BY <3>1, <3>2, Zenon DEF OnlyAcks
  <2> QED
    BY <2>3, <2>4, Zenon DEF AckSound

<1>ContinuesRetains.
      ASSUME NEW k, NEW n, LinkInv(k), NEW r \in Nat, Retains(k, r), Continues(k, n)
      PROVE  Retains(n, r)
  <2> USE <1>ContinuesRetains
  <2>1. k.sendSeqNum \in Nat
    BY SizeAssumption DEF LinkInv, LinkState
  <2>2. r = 0 => n.sendSeqNum <= 1
    BY <2>1, FirstTLP, SMT, Z3T(30) DEF Continues, Retains
  <2> QED
    BY <2>2 DEF Continues, Retains

\* A sender that changes as Continues allows, beside an unchanged peer.
<1>NoLossOneSide.
      ASSUME Inv, NoLossInv, NEW l \in Links, Continues(link[l], link'[l]),
             LinkInv(link'[l]), \A i \in Links : i # l => link'[i] = link[i]
      PROVE  NoLossInv'
  <2> USE <1>NoLossOneSide
  <2> DEFINE o == Other(l)
  <2>1. o \in Links /\ o # l /\ Other(o) = l /\ \A i \in Links : i = l \/ i = o
    BY LinksFacts, Zenon
  <2>2. /\ LinkInv(link[l]) /\ LinkInv(link[o])
        /\ Retains(link[l], link[o].recvSeqNum) /\ Retains(link[o], link[l].recvSeqNum)
        /\ AckSound(link[l]) /\ AckSound(link[o])
        /\ link[l].recvSeqNum \in Nat /\ link[o].recvSeqNum \in Nat
    <3>1. LinkInv(link[l]) /\ LinkInv(link[o])
      BY <2>1, SMTT(30) DEF Inv
    <3>2. /\ Retains(link[l], link[o].recvSeqNum) /\ AckSound(link[l])
          /\ Retains(link[o], link[l].recvSeqNum) /\ AckSound(link[o])
      BY <2>1, SMTT(30) DEF NoLossInv
    <3> QED
      BY <3>1, <3>2, SeqNumsAreNat
  <2> HIDE DEF o
  <2>3. Retains(link'[l], link[o].recvSeqNum)
    BY <2>2, <1>ContinuesRetains, Zenon
  <2>4. AckSound(link'[l])
    <3>1. link'[l].packet.kind = "DLLP" => link'[l].packet = link[l].packet
      BY Kinds, Zenon DEF Continues
    <3> QED
      BY <2>2, <3>1, Zenon DEF AckSound, Continues
  <2>5. link'[o] = link[o] /\ link'[l].recvSeqNum = link[l].recvSeqNum
    BY <2>1, Zenon DEF Continues
  <2>6. /\ Retains(link'[l], link'[o].recvSeqNum) /\ AckSound(link'[l])
        /\ Retains(link'[o], link'[l].recvSeqNum) /\ AckSound(link'[o])
    BY <2>2, <2>3, <2>4, <2>5
  <2> QED
    BY <2>1, <2>6 DEF NoLossInv, o

<1>NoLossTxDone.
      ASSUME Inv, NoLossInv, NEW l \in Links, NEW ok \in BOOLEAN, txDone(l, ok),
             ~MayRefuseFirst, MaxTLPs <= IntMax + 1
      PROVE  NoLossInv'
  <2> USE <1>NoLossTxDone
  <2> DEFINE o == Other(l)
             k == link[l]
             n == link'[l]
             m == link'[o]
             p == k.packet
  <2>1. o \in Links /\ o # l /\ Other(o) = l /\ \A i \in Links : i = l \/ i = o
    BY LinksFacts, SMTT(30)
  <2>2. /\ LinkInv(k) /\ LinkInv(link[o])
        /\ Retains(k, link[o].recvSeqNum) /\ Retains(link[o], k.recvSeqNum)
        /\ AckSound(k) /\ AckSound(link[o])
        /\ k.recvSeqNum \in Nat /\ link[o].recvSeqNum \in Nat /\ k.sendSeqNum \in Nat
    <3>1. LinkInv(k) /\ LinkInv(link[o])
      BY <2>1 DEF Inv
    <3>2. /\ Retains(k, link[o].recvSeqNum) /\ AckSound(k)
          /\ Retains(link[o], k.recvSeqNum) /\ AckSound(link[o])
      BY <2>1, SMTT(30) DEF NoLossInv
    <3> QED
      BY <3>1, <3>2, SeqNumsAreNat
  <2>3. /\ LinkInv(n) /\ LinkInv(m)
        /\ Finished(k, n)
        /\ p \in TLPs => Received(link[o], m, p, ok)
        /\ p \in DLLPs => Acknowledged(link[o], m, p.seqNum)
        /\ p \in TLPs \cup DLLPs
        /\ MayAnswer(link[o], ok)
    BY <2>1, TxDoneShape, Zenon DEF Shape
  <2> HIDE DEF o, n, m
  <2>4. AckSound(n)
    <3>1. n.packet.kind = "DLLP" => n.packet = k.replayDLLP /\ k.replayDLLP # NULL
      BY <2>3, Kinds, Zenon DEF Finished
    <3> QED
      BY <2>2, <2>3, <3>1, Zenon DEF AckSound, Finished
  <2>5. CASE p \in TLPs
    <3>1. Received(link[o], m, p, ok)
      BY ONLY <2>3, <2>5
    <3>2. p.kind = "TLP" /\ p.seqNum \in Nat /\ p.seqNum < k.sendSeqNum
      <4>1. p.kind = "TLP" /\ p.seqNum \in Nat
        BY <2>5, Kinds, SizeAssumption
      <4> QED
        BY <2>2, <4>1, Zenon DEF LinkInv, Genuine
    <3>3. link[o].recvSeqNum = 0 => p.seqNum = 0
      BY <2>2, <3>2, SMTT(30) DEF Retains
    <3>4. ~ok => link[o].recvSeqNum > 0
      BY <2>3, Zenon DEF MayAnswer
    <3>5. m.recvSeqNum >= link[o].recvSeqNum /\ m.recvSeqNum > 0 /\ m.recvSeqNum \in Nat
      BY <2>2, <3>1, <3>3, <3>4 DEF Received
    <3>6. AckSound(m)
      BY <2>2, <2>3, <3>1, <3>5, <1>AcksAreSound, Zenon DEF Received
    <3>7. Base(n) \in Int /\ Base(n) <= link[o].recvSeqNum
      <4>1. Base(n) = Base(k) /\ Base(k) <= link[o].recvSeqNum
        BY <2>2, <2>3, Zenon DEF Finished, Retains
      <4>2. Base(n) \in Int
        BY <2>3, BaseIsInt, ZenonT(40)
      <4> QED
        BY ONLY <4>1, <4>2
    <3>8. Retains(n, m.recvSeqNum)
      BY <2>2, <3>5, <3>7 DEF Retains
    <3>9. Retains(m, n.recvSeqNum)
      BY <2>2, <2>3, <3>1, ZenonT(40) DEF Retains, Received, SameSender, Finished
    <3> QED
      BY <2>1, <2>4, <3>6, <3>8, <3>9 DEF NoLossInv, n, m, o
  <2>6. CASE p \in DLLPs
    <3>1. Acknowledged(link[o], m, p.seqNum)
      BY ONLY <2>3, <2>6, SMT, Z3T(30)
    <3>2. p.kind = "DLLP" /\ p.seqNum \in Nat /\ p.seqNum < k.recvSeqNum
      BY <2>2, <2>6, Kinds, SizeAssumption, SMTT(30) DEF AckSound
    <3>3. AckSound(m)
      <4>1. m.packet.kind = "DLLP" => m.packet = link[o].packet
        BY <3>1, Kinds DEF Acknowledged
      <4> QED
        BY <2>2, <3>1, <4>1, Zenon DEF AckSound, Acknowledged
    <3>4. Retains(m, n.recvSeqNum)
      <4>1. n.recvSeqNum = k.recvSeqNum /\ k.recvSeqNum > 0
        BY <2>2, <2>3, <3>2, SMTT(30) DEF Finished
      <4>2. Base(m) \in Int
        BY <2>3, BaseIsInt, Zenon
      <4>3. Base(m) = Base(link[o]) \/ Base(m) <= p.seqNum + 1
        BY <3>1, Zenon DEF Acknowledged
      <4>4. Base(m) <= k.recvSeqNum
        <5>1. Base(link[o]) <= k.recvSeqNum
          BY <2>2, Zenon DEF Retains
        <5> QED
          BY <2>2, <3>2, <4>2, <4>3, <5>1
      <4> QED
        BY <4>1, <4>4, SMTT(30), Z3T(30) DEF Retains
    <3>5. Retains(n, m.recvSeqNum)
      <4>1. k.replayPacket # p
        BY <2>2, <2>6, Kinds, ZenonT(40) DEF LinkInv, LinkState
      <4>2. m.recvSeqNum = link[o].recvSeqNum
        BY <3>1, Zenon DEF Acknowledged
      <4>3. Base(n) = Base(k) /\ n.buffer = k.buffer
        BY <2>3, <4>1, Zenon DEF Finished
      <4>4. link[o].recvSeqNum = 0 => n.sendSeqNum <= 1
        <5>1. CASE n.sendSeqNum = k.sendSeqNum
          BY <5>1, <2>2, SMTT(30) DEF Retains
        <5>2. CASE n.sendSeqNum = k.sendSeqNum + 1 /\ k.replayPacket = NULL
          BY <5>2, <2>2, FirstTLP
        <5> QED
          BY <5>1, <5>2, <2>3, <4>1, Zenon DEF Finished
      <4> QED
        BY <2>2, <4>2, <4>3, <4>4 DEF Retains
    <3> QED
      BY <2>1, <2>4, <3>3, <3>4, <3>5 DEF NoLossInv, n, m, o
  <2> QED
    BY <2>3, <2>5, <2>6

<1> SUFFICES ASSUME Inv, NoLossInv, [Next]_vars PROVE NoLossInv'
  OBVIOUS
<1>1. CASE UNCHANGED vars
  BY <1>1 DEF vars, NoLossInv
<1>2. ASSUME NEW l \in Links, NEW pkt \in Pkt, Offer(l, pkt)
      PROVE  NoLossInv'
  <2>1. /\ Accepts(link[l], link'[l])
        /\ LinkInv(link'[l])
        /\ \A i \in Links : i # l => link'[i] = link[i]
    BY <1>2, OfferShape DEF Shape
  <2>2. Continues(link[l], link'[l])
    BY <2>1, AcceptsContinues DEF Inv
  <2> QED
    BY <2>1, <2>2, <1>NoLossOneSide
<1>3. ASSUME NEW l \in Links, NEW ok \in BOOLEAN, txDone(l, ok)
      PROVE  NoLossInv'
  BY <1>3, <1>NoLossTxDone
<1>4. ASSUME NEW l \in Links, timeoutFunc(l)
      PROVE  NoLossInv'
  BY <1>4, TimeoutShape, <1>NoLossOneSide, SMTT(30) DEF Shape
<1>5. ASSUME NEW l \in Links, sendAck(l)
      PROVE  NoLossInv'
  <2> DEFINE o == Other(l)
  <2>1. o \in Links /\ o # l /\ Other(o) = l /\ \A i \in Links : i = l \/ i = o
    BY LinksFacts
  <2>2. /\ LinkInv(link'[l])
        /\ Base(link'[l]) = Base(link[l])
        /\ SameSender(link[l], link'[l])
        /\ OnlyAcks(link[l], link'[l])
        /\ link'[l].recvSeqNum = link[l].recvSeqNum
        /\ link'[o] = link[o]
    BY <1>5, <2>1, SendAckShape DEF Shape
  <2>3. /\ Retains(link[l], link[o].recvSeqNum) /\ AckSound(link[l])
        /\ Retains(link[o], link[l].recvSeqNum) /\ AckSound(link[o])
    BY <2>1, SMTT(30) DEF NoLossInv
  <2> HIDE DEF o
  <2>4. link[l].recvSeqNum > 0 /\ link[l].recvSeqNum \in Nat
    BY <1>5, <2>3, SeqNumsAreNat, Zenon DEF sendAck, AckSound, Inv
  <2>5. AckSound(link'[l])
    BY <2>2, <2>3, <2>4, <1>AcksAreSound, SMTT(30)
  <2>6. Retains(link'[l], link'[o].recvSeqNum)
    BY <2>2, <2>3, Zenon DEF Retains, SameSender
  <2>7. Retains(link'[o], link'[l].recvSeqNum) /\ AckSound(link'[o])
    BY <2>2, <2>3
  <2> QED
    BY <2>1, <2>5, <2>6, <2>7 DEF NoLossInv, o
<1> QED
  BY <1>1, <1>2, <1>3, <1>4, <1>5 DEF Next

\* A TLP leaves the replay buffer only after the other device took it, if no
\* device refuses the first TLP it is sent and sequence numbers fit an int.
THEOREM NoLoss ==
  ASSUME ~MayRefuseFirst, MaxTLPs <= IntMax + 1
  PROVE  Spec => []NothingLost
<1>NoLossImplies.
      Inv /\ NoLossInv => NothingLost
  <2> SUFFICES ASSUME Inv, NoLossInv, NEW l \in Links,
                      NEW i \in link[Other(l)].recvSeqNum .. link[l].sendSeqNum - 1
               PROVE  i \in Retained(link[l])
    BY SMTT(30) DEF NothingLost
  <2> DEFINE k == link[l]
             r == link[Other(l)].recvSeqNum
             len == Len(k.buffer)
  <2>1. LinkInv(k) /\ Base(k) <= r /\ r \in Nat /\ k.sendSeqNum \in Nat
    BY LinksFacts, SeqNumsAreNat, Zenon DEF Inv, NoLossInv, Retains
  <2>2. len \in Nat
    BY <2>1 DEF LinkInv, LinkState
  <2>3. i \in Int /\ i >= r /\ i <= k.sendSeqNum - 1
    BY <2>1
  <2> HIDE DEF k, r, len
  <2>4. \A j \in 1 .. len : k.buffer[j].seqNum = Base(k) + j - 1
    BY <2>1 DEF LinkInv, Contiguous, len
  <2>5. CASE k.replayPacket = NULL
    <3>1. Base(k) = k.sendSeqNum - len - 0
      BY <2>5 DEF Base, len
    <3>2. /\ i - Base(k) + 1 \in 1 .. len
          /\ Base(k) + (i - Base(k) + 1) - 1 = i
      BY <2>1, <2>2, <2>3, <3>1
    <3> QED
      BY <2>4, <3>2, Zenon DEF Retained, k, len
  <2>6. CASE k.replayPacket # NULL
    <3>1. Base(k) = k.sendSeqNum - len - 1
      BY <2>6, SMTT(30) DEF Base, len
    <3>2. k.replayPacket.seqNum = k.sendSeqNum - 1
      BY <2>1, <2>6 DEF LinkInv, Contiguous
    <3>3. CASE i = k.sendSeqNum - 1
      BY <2>6, <3>2, <3>3 DEF Retained, k
    <3>4. CASE i # k.sendSeqNum - 1
      <4>1. /\ i - Base(k) + 1 \in 1 .. len
            /\ Base(k) + (i - Base(k) + 1) - 1 = i
        BY <2>1, <2>2, <2>3, <3>1, <3>4
      <4> QED
        BY <2>4, <4>1 DEF Retained, k, len
    <3> QED
      BY <3>3, <3>4
  <2> QED
    BY <2>5, <2>6

<1>1. Init => Inv /\ NoLossInv
  BY InvInit, NoLossInit
<1>2. (Inv /\ NoLossInv) /\ [Next]_vars => (Inv /\ NoLossInv)'
  BY InvNext, NoLossNext
<1>3. Inv /\ NoLossInv => NothingLost
  BY <1>NoLossImplies
<1> QED
  BY <1>1, <1>2, <1>3, PTL DEF Spec

(***************************************************************************)
(* A PCIELink implements a bounded FIFO channel each way.                  *)
(***************************************************************************)

\* No more packets are undelivered than the replay buffer holds.
Bounded ==
  \A l \in Links : Len(link[l].sent) - Len(link[Other(l)].rcvd) <= MaxQueueSize

\* The devices cannot tell a PCIELink from a bounded FIFO channel in each
\* direction: txDone, the Acks, the timers and the retries only accept packets
\* at the end and deliver them from the front, if no device refuses the first
\* TLP it is sent and sequence numbers fit an int.
THEOREM Refinement ==
  ASSUME ~MayRefuseFirst, MaxTLPs <= IntMax + 1
  PROVE  Spec => ImplementsChannel
<1>WithinCapacity.
      Inv /\ NoLossInv => Bounded
  <2> SUFFICES ASSUME Inv, NoLossInv, NEW l \in Links
               PROVE  Len(link[l].sent) - Len(link[Other(l)].rcvd) <= MaxQueueSize
    BY ZenonT(40) DEF Bounded
  <2> DEFINE k == link[l]
             r == link[Other(l)].recvSeqNum
             len == Len(k.buffer)
  <2>1. LinkInv(k) /\ Base(k) <= r /\ r \in Nat /\ k.sendSeqNum \in Nat
    BY LinksFacts, SeqNumsAreNat, Zenon DEF Inv, NoLossInv, Retains
  <2>2. Len(k.sent) = k.sendSeqNum /\ Len(link[Other(l)].rcvd) = r
    BY LinksFacts, Zenon DEF Inv, LinkInv, Counted
  <2>3. len \in Nat /\ MaxQueueSize \in Nat
    BY <2>1, SizeAssumption DEF LinkInv, LinkState
  <2> HIDE DEF k, r, len
  <2>4. CASE k.replayPacket = NULL
    <3>1. Base(k) = k.sendSeqNum - len - 0 /\ len <= MaxQueueSize
      BY <2>1, <2>4 DEF Base, len, LinkInv, Counted
    <3> QED
      BY <2>1, <2>2, <2>3, <3>1, SMTT(30) DEF k
  <2>5. CASE k.replayPacket # NULL
    <3>1. Base(k) = k.sendSeqNum - len - 1 /\ len < MaxQueueSize
      BY <2>1, <2>5, SMTT(30) DEF Base, len, LinkInv, Contiguous
    <3> QED
      BY <2>1, <2>2, <2>3, <3>1, SMTT(30), Z3T(30) DEF k
  <2> QED
    BY <2>4, <2>5, Zenon

<1>ChannelInit.
      Init => Channel!FifoInit
  BY DEF Init, NewLink, Channel!FifoInit, Channel!Sides, Links

<1>ChannelNext.
      ASSUME Inv, Bounded', [Next]_vars
      PROVE  Channel!FifoNext
  <2> USE <1>ChannelNext
  <2> DEFINE sent == [l \in Links |-> link[l].sent]
             rcvd == [l \in Links |-> link[l].rcvd]
  <2>1. ASSUME NEW l \in Links
        PROVE  /\ Channel!Accept(l)
               /\ Channel!Deliver(l)
               /\ Len(sent'[l]) - Len(rcvd'[Channel!Peer(l)]) <= MaxQueueSize
    <3>1. Other(l) \in Links /\ Channel!Peer(l) = Other(l)
      BY LinksFacts DEF Channel!Peer, Other
    <3>2. /\ Grows(link[l], link'[l])
          /\ Takes(link[l], link'[l], link[Other(l)].packet)
      BY NextShape, Zenon DEF Shape
    <3>3. Channel!Accept(l)
      BY <3>2, ZenonT(40) DEF Grows, Channel!Accept
    <3>4. Channel!Deliver(l)
      <4> DEFINE o == Other(l)
                 p == link[o].packet
      <4>1. CASE link'[l].rcvd = link[l].rcvd
        BY <4>1, SMTT(30) DEF Channel!Deliver
      <4>2. CASE /\ p.kind = "TLP"
                 /\ p.seqNum = link[l].recvSeqNum
                 /\ link'[l].rcvd = Append(link[l].rcvd, p.pkt)
        <5>1. LinkInv(link[o]) /\ LinkInv(link[l])
          BY <3>1, ZenonT(40) DEF Inv
        <5>2. /\ p.seqNum < link[o].sendSeqNum
              /\ p.pkt = link[o].sent[p.seqNum + 1]
              /\ Len(link[o].sent) = link[o].sendSeqNum
              /\ Len(link[l].rcvd) = link[l].recvSeqNum
          BY <4>2, <5>1, SMTT(30) DEF LinkInv, Genuine, Counted
        <5> HIDE DEF p
        <5>3. /\ Len(link[l].rcvd) < Len(link[o].sent)
              /\ link'[l].rcvd =
                   Append(link[l].rcvd, link[o].sent[Len(link[l].rcvd) + 1])
          BY <4>2, <5>2
        <5> QED
          BY <5>3, <3>1 DEF Channel!Deliver
      <4> QED
        BY <3>2, <4>1, <4>2 DEF Takes
    <3>5. Len(link'[l].sent) - Len(link'[Other(l)].rcvd) <= MaxQueueSize
      BY Zenon DEF Bounded
    <3> QED
      BY <3>1, <3>3, <3>4, <3>5, Zenon
  <2> QED
    BY <2>1, Zenon DEF Channel!FifoNext, Channel!Sides, Links

<1>1. Init => Inv /\ NoLossInv /\ Channel!FifoInit
  BY InvInit, NoLossInit, <1>ChannelInit
<1>2. (Inv /\ NoLossInv) /\ [Next]_vars => (Inv /\ NoLossInv)'
  BY InvNext, NoLossNext
<1>3. Inv /\ NoLossInv => Bounded
  BY <1>WithinCapacity
<1>4. Inv /\ Bounded' /\ [Next]_vars => [Channel!FifoNext]_(Channel!chanVars)
  BY <1>ChannelNext
<1> QED
  BY <1>1, <1>2, <1>3, <1>4, PTL DEF Spec, ImplementsChannel, Channel!FifoSpec
=============================================================================
