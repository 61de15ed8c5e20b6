----------------------- MODULE PCIELinkScheduleProofs -----------------------
(***************************************************************************)
(* Proofs about what PCIELink schedules: the retries, the events and the   *)
(* Acks that keep a link going, and which TLPs are replayed.  They need    *)
(* more of each function than PCIELinkProofs does, so each function is     *)
(* first described field by field.                                         *)
(***************************************************************************)
EXTENDS PCIELinkProofs

(***************************************************************************)
(* The device offers a packet, at first or on a retry.  n is k after it.   *)
(***************************************************************************)
Retried(k, n) ==
  /\ n.recvSeqNum = k.recvSeqNum
  /\ n.lastAcked = k.lastAcked
  /\ n.ackEvent = k.ackEvent
  /\ n.replayDLLP = k.replayDLLP
  /\ n.buffer = k.buffer
  /\ n.retransmit = k.retransmit
  /\ n.retransmitIdx = k.retransmitIdx
  /\ n.timeoutEvent = k.timeoutEvent
  /\ \/ /\ n.packet = k.packet
        /\ n.sendSeqNum = k.sendSeqNum
        /\ n.replayPacket = k.replayPacket
     \/ /\ ~MustWait(k)
        /\ n.replayPacket \in TLPs
        /\ n.replayPacket.seqNum = k.sendSeqNum
        /\ n.sendSeqNum = k.sendSeqNum + 1
        /\ n.packet = IF busy(k) THEN k.packet ELSE n.replayPacket

\* A retry was promised for every packet that was refused.
Promised(k) == \A c \in Class : k.held[c] # NoPkt => c \in k.retry

Waits(k) == \A c \in Class : k.held[c] # NoPkt => c \in k.retry /\ MustWait(k)

\* linkTransmitInterface, field by field.
LEMMA LinkTransmitIs ==
  ASSUME NEW k, LinkInv(k), NEW pkt \in Pkt, LinkInv(linkTransmitInterface(k, pkt))
  PROVE  LET n == linkTransmitInterface(k, pkt)
             c == ClassOf(pkt)
         IN  /\ Retried(k, n)
             /\ MustWait(n)
             /\ n.held = [k.held EXCEPT ![c] = IF MustWait(k) THEN pkt ELSE NoPkt]
             /\ n.retry = IF MustWait(k) THEN k.retry \cup {c} ELSE k.retry
<1> DEFINE c == ClassOf(pkt)
           tlp == TLP(k.sendSeqNum, pkt)
           n == linkTransmitInterface(k, pkt)
<1>1. k \in LinkState
  BY DEF LinkInv
<1>2. CASE MustWait(k)
  <2> DEFINE w == [k EXCEPT !.retry = @ \cup {c}, !.held[c] = pkt]
  <2>1. n = w
    BY <1>2 DEF linkTransmitInterface
  <2> HIDE DEF c
  <2>2. /\ w.packet = k.packet
        /\ w.buffer = k.buffer
        /\ w.sendSeqNum = k.sendSeqNum
        /\ w.recvSeqNum = k.recvSeqNum
        /\ w.lastAcked = k.lastAcked
        /\ w.retry = k.retry \cup {c}
        /\ w.replayPacket = k.replayPacket
        /\ w.replayDLLP = k.replayDLLP
        /\ w.retransmit = k.retransmit
        /\ w.retransmitIdx = k.retransmitIdx
        /\ w.timeoutEvent = k.timeoutEvent
        /\ w.ackEvent = k.ackEvent
        /\ w.held = [k.held EXCEPT ![c] = pkt]
    BY <1>1, Zenon DEF LinkState
  <2> HIDE DEF w
  <2>3. Retried(k, w) /\ MustWait(w)
    BY <1>2, <2>2 DEF Retried, MustWait
  <2> QED
    BY <1>2, <2>1, <2>2, <2>3 DEF c
<1>3. CASE ~MustWait(k)
  <2> DEFINE t == transmit(k, tlp)
             w == [t EXCEPT !.replayPacket = tlp, !.sendSeqNum = @ + 1,
                            !.held[c] = NoPkt, !.sent = Append(@, pkt)]
  <2>1. n = w
    BY <1>3 DEF linkTransmitInterface
  <2>2. k.sendSeqNum \in 0 .. UInt64Max
    BY <1>1, SizeAssumption DEF LinkState
  <2>3. tlp \in TLPs /\ tlp.seqNum = k.sendSeqNum /\ tlp # NULL
    BY <2>2, NewTLP
  <2> HIDE DEF tlp, c
  <2>4. /\ t \in LinkState
        /\ t.packet = IF busy(k) THEN k.packet ELSE tlp
        /\ t.buffer = k.buffer
        /\ t.sendSeqNum = k.sendSeqNum
        /\ t.recvSeqNum = k.recvSeqNum
        /\ t.lastAcked = k.lastAcked
        /\ t.retry = k.retry
        /\ t.replayDLLP = k.replayDLLP
        /\ t.retransmit = k.retransmit
        /\ t.retransmitIdx = k.retransmitIdx
        /\ t.timeoutEvent = k.timeoutEvent
        /\ t.ackEvent = k.ackEvent
        /\ t.held = k.held
    BY <1>1, <2>3, ZenonT(40) DEF transmit, LinkState, busy
  <2> HIDE DEF t
  <2>5. /\ w.packet = t.packet
        /\ w.buffer = t.buffer
        /\ w.sendSeqNum = t.sendSeqNum + 1
        /\ w.recvSeqNum = t.recvSeqNum
        /\ w.lastAcked = t.lastAcked
        /\ w.retry = t.retry
        /\ w.replayPacket = tlp
        /\ w.replayDLLP = t.replayDLLP
        /\ w.retransmit = t.retransmit
        /\ w.retransmitIdx = t.retransmitIdx
        /\ w.timeoutEvent = t.timeoutEvent
        /\ w.ackEvent = t.ackEvent
        /\ w.held = [t.held EXCEPT ![c] = NoPkt]
    BY <2>4, Zenon DEF LinkState
  <2> HIDE DEF w
  <2>6. Retried(k, w) /\ MustWait(w)
    BY <1>3, <2>3, <2>4, <2>5 DEF Retried, MustWait
  <2> QED
    BY <1>3, <2>1, <2>4, <2>5, <2>6 DEF c
<1> QED
  BY <1>2, <1>3

\* One retry is fulfilled, or promised again.
LEMMA SendRetryIs ==
  ASSUME NEW k, LinkInv(k), NEW c \in Class
  PROVE  LET n == sendRetry(k, c)
         IN  /\ LinkInv(n)
             /\ Retried(k, n)
             /\ MustWait(k) => MustWait(n)
             /\ Promised(k) =>
                  /\ Promised(n)
                  /\ n.held[c] # NoPkt => MustWait(n)
                  /\ \A d \in Class : d # c => n.held[d] = k.held[d]
<1> DEFINE k1 == [k EXCEPT !.retry = @ \ {c}]
           n == sendRetry(k, c)
<1>1. k \in LinkState /\ k.held \in [Class -> Pkt \cup {NoPkt}]
  BY DEF LinkInv, LinkState
<1>2. LinkInv(n)
  BY SendRetryInv
<1>3. n = IF c \notin k.retry THEN k
          ELSE IF k.held[c] = NoPkt THEN k1
          ELSE linkTransmitInterface(k1, k.held[c])
  BY DEF sendRetry
<1>4. /\ k1 \in LinkState
      /\ k1.packet = k.packet
      /\ k1.buffer = k.buffer
      /\ k1.sendSeqNum = k.sendSeqNum
      /\ k1.recvSeqNum = k.recvSeqNum
      /\ k1.lastAcked = k.lastAcked
      /\ k1.retry = k.retry \ {c}
      /\ k1.replayPacket = k.replayPacket
      /\ k1.replayDLLP = k.replayDLLP
      /\ k1.retransmit = k.retransmit
      /\ k1.retransmitIdx = k.retransmitIdx
      /\ k1.timeoutEvent = k.timeoutEvent
      /\ k1.ackEvent = k.ackEvent
      /\ k1.held = k.held
      /\ k1.sent = k.sent
      /\ k1.rcvd = k.rcvd
  BY <1>1, Zenon DEF LinkState
<1> HIDE DEF k1, n
<1>5. LinkInv(k1) /\ Retried(k, k1) /\ (MustWait(k1) <=> MustWait(k))
  <2>1. LinkInv(k1)
    BY <1>4, SameLinkInv DEF SameSender
  <2> QED
    BY <2>1, <1>4 DEF Retried, MustWait
<1> DEFINE Goal == /\ LinkInv(n)
                   /\ Retried(k, n)
                   /\ MustWait(k) => MustWait(n)
                   /\ Promised(k) =>
                        /\ Promised(n)
                        /\ n.held[c] # NoPkt => MustWait(n)
                        /\ \A d \in Class : d # c => n.held[d] = k.held[d]
<1>6. ASSUME c \notin k.retry PROVE Goal
  BY <1>2, <1>3, <1>6 DEF Retried, Promised
<1>7. ASSUME c \in k.retry, k.held[c] = NoPkt PROVE Goal
  BY <1>2, <1>3, <1>4, <1>5, <1>7 DEF Promised
<1>8. ASSUME c \in k.retry, k.held[c] # NoPkt PROVE Goal
  <2> DEFINE pkt == k.held[c]
  <2>1. pkt \in Pkt /\ ClassOf(pkt) = c
    BY <1>1, <1>8 DEF LinkInv, Counted
  <2>2. n = linkTransmitInterface(k1, pkt)
    BY <1>3, <1>8
  <2> HIDE DEF pkt
  <2>3. /\ Retried(k1, n)
        /\ MustWait(n)
        /\ n.held = [k1.held EXCEPT ![c] = IF MustWait(k1) THEN pkt ELSE NoPkt]
        /\ n.retry = IF MustWait(k1) THEN k1.retry \cup {c} ELSE k1.retry
    BY <1>2, <1>5, <2>1, <2>2, LinkTransmitIs
  <2>4. Retried(k, n)
    BY <1>4, <1>5, <2>3 DEF Retried, busy
  <2>5. \A d \in Class : d # c => n.held[d] = k.held[d]
    BY <1>1, <1>4, <2>3
  <2>6. Promised(k) => Promised(n)
    BY <1>1, <1>4, <2>3, <2>5 DEF Promised
  <2> QED
    BY <1>2, <2>3, <2>4, <2>5, <2>6, Zenon
<1> QED
  BY <1>6, <1>7, <1>8, Zenon DEF n

LEMMA RetriedTrans ==
  ASSUME NEW k, NEW m, NEW n, Retried(k, m), Retried(m, n)
  PROVE  Retried(k, n)
<1>1. m.sendSeqNum = k.sendSeqNum + 1 /\ m.replayPacket \in TLPs => MustWait(m)
  BY Kinds DEF MustWait
<1> QED
  BY <1>1 DEF Retried, MustWait, busy

\* The retries: at most one packet is accepted, and a device that still waits
\* was refused again.
LEMMA SendRetriesIs ==
  ASSUME NEW k, LinkInv(k)
  PROVE  LET n == sendRetries(k)
         IN  /\ LinkInv(n)
             /\ Retried(k, n)
             /\ Promised(k) => Waits(n)
<1> DEFINE m == sendRetry(k, "req")
           n == sendRetry(m, "resp")
<1>1. "req" \in Class /\ "resp" \in Class /\ \A c \in Class : c = "req" \/ c = "resp"
  BY DEF Class
<1>2. /\ LinkInv(m)
      /\ Retried(k, m)
      /\ Promised(k) =>
           /\ Promised(m)
           /\ m.held["req"] # NoPkt => MustWait(m)
  BY <1>1, SendRetryIs
<1> HIDE DEF m
<1>3. /\ LinkInv(n)
      /\ Retried(m, n)
      /\ MustWait(m) => MustWait(n)
      /\ Promised(m) =>
           /\ Promised(n)
           /\ n.held["resp"] # NoPkt => MustWait(n)
           /\ n.held["req"] = m.held["req"]
  BY <1>1, <1>2, SendRetryIs
<1> HIDE DEF n
<1>4. Retried(k, n)
  BY <1>2, <1>3, RetriedTrans
<1>5. Promised(k) => Waits(n)
  BY <1>1, <1>2, <1>3 DEF Promised, Waits
<1> QED
  BY <1>3, <1>4, <1>5 DEF sendRetries, m, n

(***************************************************************************)
(* txDone.  What the sender k has become when it is over.                  *)
(***************************************************************************)

\* n differs from k in the packet on the link only.
SameButPacket(k, n) ==
  /\ n.buffer = k.buffer
  /\ n.sendSeqNum = k.sendSeqNum
  /\ n.recvSeqNum = k.recvSeqNum
  /\ n.lastAcked = k.lastAcked
  /\ n.retry = k.retry
  /\ n.replayPacket = k.replayPacket
  /\ n.replayDLLP = k.replayDLLP
  /\ n.retransmit = k.retransmit
  /\ n.retransmitIdx = k.retransmitIdx
  /\ n.timeoutEvent = k.timeoutEvent
  /\ n.ackEvent = k.ackEvent
  /\ n.held = k.held

LEMMA TransmitIs ==
  ASSUME NEW k \in LinkState, NEW p \in TLPs \cup DLLPs
  PROVE  /\ transmit(k, p) \in LinkState
         /\ SameButPacket(k, transmit(k, p))
         /\ transmit(k, p).packet = IF busy(k) THEN k.packet ELSE p
BY Zenon DEF transmit, LinkState, busy, SameButPacket

LEMMA SendReplayPacketIs ==
  ASSUME NEW k, LinkInv(k)
  PROVE  LET n == sendReplayPacket(k)
         IN  /\ LinkInv(n)
             /\ SameButPacket(k, n)
             /\ n.packet = IF busy(k) THEN k.packet ELSE k.replayPacket
<1>1. k \in LinkState /\ LinkInv(sendReplayPacket(k))
  BY SendReplayPacketInv DEF LinkInv
<1>2. CASE k.replayPacket = NULL
  BY <1>1, <1>2 DEF sendReplayPacket, SameButPacket, busy
<1>3. CASE k.replayPacket # NULL
  <2>1. k.replayPacket \in TLPs
    BY <1>1, <1>3 DEF LinkState
  <2> QED
    BY <1>1, <1>3, <2>1, TransmitIs DEF sendReplayPacket
<1> QED
  BY <1>2, <1>3

\* The TLP p that was sent for the first time enters the replay buffer, and
\* its place is taken by a packet that was refused, if there is room.
TLPStored(k, n, p) ==
  /\ n.recvSeqNum = k.recvSeqNum
  /\ n.lastAcked = k.lastAcked
  /\ n.ackEvent = k.ackEvent
  /\ n.replayDLLP = k.replayDLLP
  /\ n.buffer = Append(k.buffer, p)
  /\ n.retransmit = k.retransmit
  /\ n.retransmitIdx = k.retransmitIdx
  /\ n.timeoutEvent = TRUE
  /\ \/ /\ n.packet = k.packet
        /\ n.sendSeqNum = k.sendSeqNum
        /\ n.replayPacket = NULL
     \/ /\ k.retransmit = FALSE
        /\ n.replayPacket \in TLPs
        /\ n.replayPacket.seqNum = k.sendSeqNum
        /\ n.sendSeqNum = k.sendSeqNum + 1
        /\ n.packet = IF busy(k) THEN k.packet ELSE n.replayPacket

\* The replay buffer after txDone.
Stored(k) ==
  IF k.packet = k.replayPacket THEN Append(k.buffer, k.packet) ELSE k.buffer

\* What finishTx makes of k.  A packet is accepted only when no replay is on,
\* and a replay goes on with the TLP at retransmitIdx unless an Ack has
\* taken the link.
TxFinished(k, n) ==
  /\ n.recvSeqNum = k.recvSeqNum
  /\ n.lastAcked = k.lastAcked
  /\ n.ackEvent = k.ackEvent
  /\ n.replayDLLP = NULL
  /\ n.buffer = Stored(k)
  /\ n.timeoutEvent <=> k.timeoutEvent \/ k.retransmit \/ k.packet = k.replayPacket
  /\ \/ /\ n.sendSeqNum = k.sendSeqNum
        /\ n.replayPacket = IF k.packet = k.replayPacket THEN NULL
                            ELSE k.replayPacket
     \/ /\ n.retransmit = FALSE
        /\ k.replayPacket = NULL \/ k.packet = k.replayPacket
        /\ n.replayPacket \in TLPs
        /\ n.replayPacket.seqNum = k.sendSeqNum
        /\ n.sendSeqNum = k.sendSeqNum + 1
  /\ \/ /\ n.retransmit = FALSE
        /\ n.packet = IF k.replayDLLP # NULL THEN k.replayDLLP ELSE n.replayPacket
     \/ /\ k.retransmit = TRUE
        /\ n.retransmit = TRUE
        /\ k.retransmitIdx < Len(Stored(k))
        /\ n.retransmitIdx = k.retransmitIdx + 1
        /\ n.packet = IF k.replayDLLP # NULL THEN k.replayDLLP
                      ELSE Stored(k)[k.retransmitIdx + 1]

(***************************************************************************)
(* linkReceiveInterface.  What the receiver k has become when it is over.  *)
(***************************************************************************)

\* The Ack a: TLPs leave the front of the replay buffer, the replay timer
\* guards the rest, and a packet that was refused is accepted if there is
\* room.
AckReceived(k, n, a) ==
  /\ n.recvSeqNum = k.recvSeqNum
  /\ n.lastAcked = k.lastAcked
  /\ n.ackEvent = k.ackEvent
  /\ n.replayDLLP = k.replayDLLP
  /\ n.retransmit = k.retransmit
  /\ n.retransmitIdx = k.retransmitIdx
  /\ n.timeoutEvent <=> n.buffer # <<>>
  /\ n.buffer # <<>> => Base(n) > a
  /\ \E i \in 0 .. Len(k.buffer) :
       /\ Len(n.buffer) = Len(k.buffer) - i
       /\ \A j \in 1 .. Len(n.buffer) : n.buffer[j] = k.buffer[j + i]
       /\ Base(n) = Base(k) + i
       /\ i > 0 => Base(n) <= a + 1
  /\ \/ /\ n.packet = k.packet
        /\ n.sendSeqNum = k.sendSeqNum
        /\ n.replayPacket = k.replayPacket
     \/ /\ k.retransmit = FALSE
        /\ k.replayPacket = NULL
        /\ n.replayPacket \in TLPs
        /\ n.replayPacket.seqNum = k.sendSeqNum
        /\ n.sendSeqNum = k.sendSeqNum + 1
        /\ n.packet = IF busy(k) THEN k.packet ELSE n.replayPacket

\* What receiving a TLP and the Ack timer leave alone.
SameSending(k, n) ==
  /\ n.buffer = k.buffer
  /\ n.sendSeqNum = k.sendSeqNum
  /\ n.retry = k.retry
  /\ n.replayPacket = k.replayPacket
  /\ n.retransmit = k.retransmit
  /\ n.retransmitIdx = k.retransmitIdx
  /\ n.timeoutEvent = k.timeoutEvent
  /\ n.held = k.held

\* createAck: an Ack of what n has received is skipped while the Ack timer
\* runs, kept for the link, or sent.
AckMade(k, n) ==
  LET ack == DataLinkPacket(Pred(n.recvSeqNum))
  IN  \/ /\ k.ackEvent = TRUE
         /\ n.ackEvent = TRUE
         /\ n.packet = k.packet
         /\ n.replayDLLP = k.replayDLLP
         /\ n.lastAcked = k.lastAcked
      \/ /\ k.ackEvent = FALSE
         /\ busy(k)
         /\ n.ackEvent = TRUE
         /\ n.packet = k.packet
         /\ n.replayDLLP = ack
         /\ n.lastAcked = Pred(n.recvSeqNum)
      \/ /\ k.ackEvent = FALSE
         /\ ~busy(k)
         /\ n.ackEvent = FALSE
         /\ n.packet = ack
         /\ n.replayDLLP = k.replayDLLP
         /\ n.lastAcked = k.lastAcked

\* The TLP p: accepted and acknowledged, out of order and acknowledged, or
\* refused.
TLPReceived(k, n, p, ok) ==
  /\ SameSending(k, n)
  /\ \/ /\ p.seqNum = k.recvSeqNum
        /\ ok
        /\ n.recvSeqNum = k.recvSeqNum + 1
        /\ AckMade(k, n)
     \/ /\ p.seqNum # k.recvSeqNum
        /\ n.recvSeqNum = k.recvSeqNum
        /\ AckMade(k, n)
     \/ ~ok /\ n = k

\* The receiver of a TLP may only put an Ack on the link.
LEMMA ReceiverSendsAck ==
  ASSUME NEW k, NEW n, NEW p, NEW ok, TLPReceived(k, n, p, ok)
  PROVE  n.packet = k.packet \/ n.packet.kind = "DLLP"
<1>1. \A x : DataLinkPacket(x).kind = "DLLP"
  BY DEF DataLinkPacket, DLLP
<1>2. AckMade(k, n) \/ n = k
  BY Zenon DEF TLPReceived
<1>3. AckMade(k, n) =>
        n.packet = k.packet \/ n.packet = DataLinkPacket(Pred(n.recvSeqNum))
  BY Zenon DEF AckMade
<1> QED
  BY <1>1, <1>2, <1>3, Zenon

(***************************************************************************)
(* The timers.                                                             *)
(***************************************************************************)

\* replay: a replay starts with the oldest TLP, at once if the link is free.
Replayed(k, n) ==
  /\ n.recvSeqNum = k.recvSeqNum
  /\ n.lastAcked = k.lastAcked
  /\ n.ackEvent = k.ackEvent
  /\ n.replayDLLP = k.replayDLLP
  /\ n.buffer = k.buffer
  /\ n.sendSeqNum = k.sendSeqNum
  /\ n.replayPacket = k.replayPacket
  /\ n.retry = k.retry
  /\ n.held = k.held
  /\ n.timeoutEvent = FALSE
  /\ \/ /\ k.buffer = <<>> \/ k.retransmit = TRUE
        /\ n.packet = k.packet
        /\ n.retransmit = k.retransmit
        /\ n.retransmitIdx = k.retransmitIdx
     \/ /\ k.buffer # <<>>
        /\ k.retransmit = FALSE
        /\ n.packet = IF busy(k) THEN k.packet ELSE k.buffer[1]
        /\ n.retransmit = TRUE
        /\ n.retransmitIdx = IF busy(k) THEN 0 ELSE 1

\* ackTimer: the timer stops when nothing came since the last Ack, and else
\* an Ack is kept for the link or sent.
AckTimed(k, n) ==
  LET ack == DataLinkPacket(Pred(k.recvSeqNum))
  IN  /\ SameSending(k, n)
      /\ n.recvSeqNum = k.recvSeqNum
      /\ \/ /\ k.lastAcked = Pred(k.recvSeqNum)
            /\ n.ackEvent = FALSE
            /\ n.packet = k.packet
            /\ n.replayDLLP = k.replayDLLP
            /\ n.lastAcked = k.lastAcked
         \/ /\ k.lastAcked # Pred(k.recvSeqNum)
            /\ n.ackEvent = k.ackEvent
            /\ n.lastAcked = Pred(k.recvSeqNum)
            /\ n.packet = IF busy(k) THEN k.packet ELSE ack
            /\ n.replayDLLP = IF busy(k) THEN ack ELSE k.replayDLLP

(***************************************************************************)
(* Every step, as it changes the interface l that acts and the other one.  *)
(***************************************************************************)
Offers(l) ==
  /\ Retried(link[l], link'[l])
  /\ Base(link'[l]) = Base(link[l])
  /\ link'[Other(l)] = link[Other(l)]

SendsTLP(l) ==
  LET o == Other(l)
      p == link[l].packet
  IN  /\ p \in TLPs
      /\ TxFinished(link[l], link'[l])
      /\ Base(link'[l]) = Base(link[l])
      /\ Base(link'[o]) = Base(link[o])
      /\ \E ok \in BOOLEAN : TLPReceived(link[o], link'[o], p, ok)

SendsDLLP(l) ==
  LET o == Other(l)
      p == link[l].packet
  IN  /\ p \in DLLPs
      /\ TxFinished(link[l], link'[l])
      /\ Base(link'[l]) = Base(link[l])
      /\ AckReceived(link[o], link'[o], p.seqNum)

TimesOut(l) ==
  /\ Replayed(link[l], link'[l])
  /\ Base(link'[l]) = Base(link[l])
  /\ link'[Other(l)] = link[Other(l)]

TimesAck(l) ==
  /\ link[l].ackEvent = TRUE
  /\ AckTimed(link[l], link'[l])
  /\ Base(link'[l]) = Base(link[l])
  /\ link'[Other(l)] = link[Other(l)]

Step(l) ==
  \/ Offers(l)
  \/ SendsTLP(l)
  \/ SendsDLLP(l)
  \/ TimerIsLate(l) /\ TimesOut(l)
  \/ TimesAck(l)

WaitsInv == \A l \in Links : Waits(link[l])

LEMMA OfferIs ==
  ASSUME Inv, WaitsInv, NEW l \in Links, NEW pkt \in Pkt, Offer(l, pkt)
  PROVE  Offers(l) /\ WaitsInv'
<1> DEFINE k == link[l]
           n == linkTransmitInterface(k, pkt)
           c == ClassOf(pkt)
<1>1. LinkInv(k) /\ k.held[c] = NoPkt /\ Waits(k) /\ k.held \in [Class -> Pkt \cup {NoPkt}]
  BY DEF Inv, Offer, WaitsInv, LinkInv, LinkState
<1>2. /\ LinkInv(link'[l])
      /\ Accepts(k, link'[l])
      /\ \A i \in Links : i # l => link'[i] = link[i]
  BY OfferShape DEF Shape
<1>3. link'[l] = n
  BY Zenon DEF Inv, Offer
<1>4. /\ Retried(k, n)
      /\ MustWait(n)
      /\ n.held = [k.held EXCEPT ![c] = IF MustWait(k) THEN pkt ELSE NoPkt]
      /\ n.retry = IF MustWait(k) THEN k.retry \cup {c} ELSE k.retry
  BY <1>1, <1>2, <1>3, LinkTransmitIs, SMTT(30), Z3T(30)
<1>5. Base(n) = Base(k)
  BY <1>1, <1>2, <1>3, AcceptsBase, Zenon
<1> HIDE DEF n, c
<1>6. Waits(n)
  BY <1>1, <1>4 DEF Waits
<1>7. \A i \in Links : Waits(link'[i])
  BY <1>2, <1>3, <1>6 DEF WaitsInv
<1> QED
  BY <1>2, <1>3, <1>4, <1>5, <1>7, LinksFacts, Zenon DEF Offers, WaitsInv

LEMMA TxDoneIs ==
  ASSUME Inv, WaitsInv, NEW l \in Links, NEW ok \in BOOLEAN, txDone(l, ok)
  PROVE  (SendsTLP(l) \/ SendsDLLP(l)) /\ WaitsInv'
\* The link is freed and taken by the Ack that waits for it.
<1>SendReplayDLLPIs.
      ASSUME NEW k, LinkInv(k)
      PROVE  LET n == sendReplayDLLP([k EXCEPT !.packet = NULL])
             IN  /\ LinkInv(n)
                 /\ n.packet = k.replayDLLP
                 /\ n.replayDLLP = NULL
                 /\ n.buffer = k.buffer
                 /\ n.sendSeqNum = k.sendSeqNum
                 /\ n.recvSeqNum = k.recvSeqNum
                 /\ n.lastAcked = k.lastAcked
                 /\ n.retry = k.retry
                 /\ n.replayPacket = k.replayPacket
                 /\ n.retransmit = k.retransmit
                 /\ n.retransmitIdx = k.retransmitIdx
                 /\ n.timeoutEvent = k.timeoutEvent
                 /\ n.ackEvent = k.ackEvent
                 /\ n.held = k.held
  <2> USE <1>SendReplayDLLPIs
  <2> DEFINE f == [k EXCEPT !.packet = NULL]
             t == transmit(f, k.replayDLLP)
             w == [t EXCEPT !.replayDLLP = NULL]
             n == sendReplayDLLP(f)
  <2>1. k \in LinkState /\ LinkInv(n)
    BY SendReplayDLLPInv DEF LinkInv
  <2>2. f \in LinkState /\ SameButPacket(k, f) /\ f.packet = NULL
    BY <2>1, Zenon DEF LinkState, SameButPacket
  <2> HIDE DEF f
  <2>3. n = IF k.replayDLLP = NULL THEN f ELSE w
    BY <2>2 DEF sendReplayDLLP, SameButPacket
  <2>4. CASE k.replayDLLP = NULL
    BY <2>1, <2>2, <2>3, <2>4, Zenon DEF SameButPacket, f
  <2>5. CASE k.replayDLLP # NULL
    <3>1. k.replayDLLP \in DLLPs
      BY <2>1, <2>5 DEF LinkState
    <3>2. t \in LinkState /\ SameButPacket(f, t) /\ t.packet = k.replayDLLP
      BY <2>2, <3>1, TransmitIs DEF busy
    <3> HIDE DEF t
    <3>3. /\ w.packet = t.packet
          /\ w.replayDLLP = NULL
          /\ w.buffer = t.buffer
          /\ w.sendSeqNum = t.sendSeqNum
          /\ w.recvSeqNum = t.recvSeqNum
          /\ w.lastAcked = t.lastAcked
          /\ w.retry = t.retry
          /\ w.replayPacket = t.replayPacket
          /\ w.retransmit = t.retransmit
          /\ w.retransmitIdx = t.retransmitIdx
          /\ w.timeoutEvent = t.timeoutEvent
          /\ w.ackEvent = t.ackEvent
          /\ w.held = t.held
      BY <3>2, Zenon DEF LinkState
    <3> HIDE DEF w
    <3> QED
      BY <2>1, <2>2, <2>3, <2>5, <3>2, <3>3 DEF SameButPacket, f
  <2> QED
    BY <2>4, <2>5

<1>StoreTLPIs.
      ASSUME NEW k, LinkInv(k), NEW p \in TLPs, p = k.replayPacket
      PROVE  /\ LinkInv(storeTLP(k, p))
             /\ TLPStored(k, storeTLP(k, p), p)
             /\ Promised(k) => Waits(storeTLP(k, p))
  <2> USE <1>StoreTLPIs
  <2> DEFINE b == pushBack(k.buffer, p)
             m == [k EXCEPT !.buffer = b, !.replayPacket = NULL, !.timeoutEvent = TRUE]
             n == sendRetries(m)
  <2>1. k \in LinkState /\ k.buffer \in Seq(TLPs) /\ k.retransmit \in BOOLEAN
    BY DEF LinkInv, LinkState
  <2>2. storeTLP(k, p) = n
    BY DEF storeTLP
  <2>3. p # NULL
    BY Kinds
  <2>4. b \in Seq(TLPs)
    BY <2>1 DEF pushBack
  <2> HIDE DEF b
  <2>5. /\ m \in LinkState
        /\ m.packet = k.packet
        /\ m.buffer = b
        /\ m.sendSeqNum = k.sendSeqNum
        /\ m.recvSeqNum = k.recvSeqNum
        /\ m.lastAcked = k.lastAcked
        /\ m.retry = k.retry
        /\ m.replayPacket = NULL
        /\ m.replayDLLP = k.replayDLLP
        /\ m.retransmit = k.retransmit
        /\ m.retransmitIdx = k.retransmitIdx
        /\ m.timeoutEvent = TRUE
        /\ m.ackEvent = k.ackEvent
        /\ m.held = k.held
        /\ m.sent = k.sent
        /\ m.rcvd = k.rcvd
    BY <2>1, <2>4, Zenon DEF LinkState
  <2> HIDE DEF m
  <2>6. LinkInv(m) /\ m.buffer = Append(k.buffer, p)
    BY <2>3, <2>5, StoredInv DEF b
  <2>7. /\ LinkInv(n)
        /\ Retried(m, n)
        /\ Promised(m) => Waits(n)
    BY <2>6, SendRetriesIs
  <2> HIDE DEF n
  <2>8. Promised(k) => Waits(n)
    BY <2>5, <2>7 DEF Promised
  <2>9. \/ /\ n.packet = k.packet
           /\ n.sendSeqNum = k.sendSeqNum
           /\ n.replayPacket = NULL
        \/ /\ k.retransmit = FALSE
           /\ n.replayPacket \in TLPs
           /\ n.replayPacket.seqNum = k.sendSeqNum
           /\ n.sendSeqNum = k.sendSeqNum + 1
           /\ n.packet = IF busy(k) THEN k.packet ELSE n.replayPacket
    BY <2>1, <2>5, <2>7 DEF Retried, MustWait, busy
  <2> QED
    BY <2>2, <2>5, <2>6, <2>7, <2>8, <2>9, ZenonT(40) DEF Retried, TLPStored

\* A replay goes on with the TLP at retransmitIdx, or is over.
<1>RetransmitNextIs.
      ASSUME NEW k, LinkInv(k), Waits(k), k.retransmit = TRUE
      PROVE  LET n == retransmitNext(k)
             IN  /\ LinkInv(n)
                 /\ Waits(n)
                 /\ n.recvSeqNum = k.recvSeqNum
                 /\ n.lastAcked = k.lastAcked
                 /\ n.ackEvent = k.ackEvent
                 /\ n.replayDLLP = k.replayDLLP
                 /\ n.buffer = k.buffer
                 /\ n.timeoutEvent = TRUE
                 /\ \/ /\ n.retransmit = FALSE
                       /\ n.packet = IF busy(k) THEN k.packet ELSE n.replayPacket
                       /\ \/ /\ n.sendSeqNum = k.sendSeqNum
                             /\ n.replayPacket = k.replayPacket
                          \/ /\ k.replayPacket = NULL
                             /\ n.replayPacket \in TLPs
                             /\ n.replayPacket.seqNum = k.sendSeqNum
                             /\ n.sendSeqNum = k.sendSeqNum + 1
                    \/ /\ k.retransmitIdx < Len(k.buffer)
                       /\ n.retransmit = TRUE
                       /\ n.retransmitIdx = k.retransmitIdx + 1
                       /\ n.packet = IF busy(k) THEN k.packet
                                     ELSE k.buffer[k.retransmitIdx + 1]
                       /\ n.sendSeqNum = k.sendSeqNum
                       /\ n.replayPacket = k.replayPacket
  <2> USE <1>RetransmitNextIs
  <2>1. /\ k \in LinkState /\ k.buffer \in Seq(TLPs)
        /\ k.retransmitIdx \in Nat /\ Len(k.buffer) \in Nat
    BY DEF LinkInv, LinkState
  <2>2. LinkInv(retransmitNext(k))
    BY RetransmitNextInv
  <2>3. CASE k.retransmitIdx >= Len(k.buffer)
    <3> DEFINE m == [k EXCEPT !.retransmitIdx = 0, !.retransmit = FALSE,
                              !.timeoutEvent = TRUE]
               j == sendRetries(m)
               n == sendReplayPacket(j)
    <3>1. retransmitNext(k) = n
      BY <2>3 DEF retransmitNext
    <3>2. /\ m \in LinkState
          /\ m.packet = k.packet
          /\ m.buffer = k.buffer
          /\ m.sendSeqNum = k.sendSeqNum
          /\ m.recvSeqNum = k.recvSeqNum
          /\ m.lastAcked = k.lastAcked
          /\ m.retry = k.retry
          /\ m.replayPacket = k.replayPacket
          /\ m.replayDLLP = k.replayDLLP
          /\ m.retransmit = FALSE
          /\ m.timeoutEvent = TRUE
          /\ m.ackEvent = k.ackEvent
          /\ m.held = k.held
          /\ m.sent = k.sent
          /\ m.rcvd = k.rcvd
      BY <2>1, ZenonT(40) DEF LinkState
    <3> HIDE DEF m
    <3>3. LinkInv(m)
      BY <3>2 DEF LinkInv, Counted, Contiguous, Base, Genuine, Offered
    <3>4. Promised(m)
      BY <3>2 DEF Waits, Promised
    <3>5. LinkInv(j) /\ Retried(m, j) /\ Waits(j)
      BY <3>3, <3>4, SendRetriesIs
    <3> HIDE DEF j
    <3>6. /\ SameButPacket(j, n)
          /\ n.packet = IF busy(j) THEN j.packet ELSE j.replayPacket
      BY <3>5, SendReplayPacketIs
    <3> HIDE DEF n
    <3>7. Waits(n)
      BY <3>5, <3>6 DEF Waits, MustWait, SameButPacket
    <3>8. /\ n.recvSeqNum = k.recvSeqNum
          /\ n.lastAcked = k.lastAcked
          /\ n.ackEvent = k.ackEvent
          /\ n.replayDLLP = k.replayDLLP
          /\ n.buffer = k.buffer
          /\ n.timeoutEvent = TRUE
          /\ n.retransmit = FALSE
      BY <3>2, <3>5, <3>6, ZenonT(40) DEF Retried, SameButPacket
    <3>9. n.packet = IF busy(k) THEN k.packet ELSE n.replayPacket
      BY <3>2, <3>5, <3>6, Kinds, SMT, Z3T(30) DEF Retried, SameButPacket, busy
    <3>10. \/ /\ n.sendSeqNum = k.sendSeqNum
              /\ n.replayPacket = k.replayPacket
           \/ /\ k.replayPacket = NULL
              /\ n.replayPacket \in TLPs
              /\ n.replayPacket.seqNum = k.sendSeqNum
              /\ n.sendSeqNum = k.sendSeqNum + 1
      BY <3>2, <3>5, <3>6, SMT, Z3T(30) DEF Retried, SameButPacket, MustWait
    <3> QED
      BY <2>2, <3>1, <3>7, <3>8, <3>9, <3>10, SMT, Z3T(30)
  <2>4. CASE ~(k.retransmitIdx >= Len(k.buffer))
    <3> DEFINE p == k.buffer[k.retransmitIdx + 1]
               t == transmit(k, p)
               n == [t EXCEPT !.retransmitIdx = @ + 1, !.timeoutEvent = TRUE]
    <3>1. retransmitNext(k) = n
      BY <2>4 DEF retransmitNext
    <3>2. k.retransmitIdx < Len(k.buffer) /\ k.retransmitIdx + 1 \in 1 .. Len(k.buffer)
      BY <2>1, <2>4
    <3>3. p \in TLPs
      BY <2>1, <3>2
    <3> HIDE DEF p
    <3>4. /\ t \in LinkState
          /\ SameButPacket(k, t)
          /\ t.packet = IF busy(k) THEN k.packet ELSE p
      BY <2>1, <3>3, TransmitIs
    <3> HIDE DEF t
    <3>5. /\ n.packet = t.packet
          /\ n.buffer = t.buffer
          /\ n.sendSeqNum = t.sendSeqNum
          /\ n.recvSeqNum = t.recvSeqNum
          /\ n.lastAcked = t.lastAcked
          /\ n.retry = t.retry
          /\ n.replayPacket = t.replayPacket
          /\ n.replayDLLP = t.replayDLLP
          /\ n.retransmit = t.retransmit
          /\ n.retransmitIdx = t.retransmitIdx + 1
          /\ n.timeoutEvent = TRUE
          /\ n.ackEvent = t.ackEvent
          /\ n.held = t.held
      BY <3>4, Zenon DEF LinkState
    <3> HIDE DEF n
    <3>6. Waits(n)
      BY <3>4, <3>5 DEF Waits, MustWait, SameButPacket
    <3> QED
      BY <2>2, <3>1, <3>2, <3>4, <3>5, <3>6, SMT, Z3T(30) DEF SameButPacket, p
  <2> QED
    BY <2>3, <2>4, Zenon

<1>FinishTxIs.
      ASSUME NEW k, LinkInv(k), busy(k), Waits(k)
      PROVE  /\ LinkInv(finishTx(k))
             /\ TxFinished(k, finishTx(k))
             /\ Waits(finishTx(k))
  <2> USE <1>FinishTxIs
  <2> DEFINE k1 == sendReplayDLLP([k EXCEPT !.packet = NULL])
             k2 == storeTLP(k1, k.packet)
             n == IF k2.retransmit THEN retransmitNext(k2) ELSE sendReplayPacket(k2)
  <2>1. finishTx(k) = n
    BY DEF finishTx
  <2>2. k.packet # NULL /\ k \in LinkState
    BY DEF LinkInv, busy
  <2>3. /\ LinkInv(k1)
        /\ k1.packet = k.replayDLLP
        /\ k1.replayDLLP = NULL
        /\ k1.buffer = k.buffer
        /\ k1.sendSeqNum = k.sendSeqNum
        /\ k1.recvSeqNum = k.recvSeqNum
        /\ k1.lastAcked = k.lastAcked
        /\ k1.retry = k.retry
        /\ k1.replayPacket = k.replayPacket
        /\ k1.retransmit = k.retransmit
        /\ k1.retransmitIdx = k.retransmitIdx
        /\ k1.timeoutEvent = k.timeoutEvent
        /\ k1.ackEvent = k.ackEvent
        /\ k1.held = k.held
    BY <1>SendReplayDLLPIs
  <2> HIDE DEF k1
  <2>4. Waits(k1) /\ Promised(k1)
    BY <2>3 DEF Waits, Promised, MustWait
  <2>5. /\ LinkInv(k2)
        /\ Waits(k2)
        /\ k2.recvSeqNum = k.recvSeqNum
        /\ k2.lastAcked = k.lastAcked
        /\ k2.ackEvent = k.ackEvent
        /\ k2.replayDLLP = NULL
        /\ k2.buffer = Stored(k)
        /\ k2.retransmit = k.retransmit
        /\ k2.retransmitIdx = k.retransmitIdx
        /\ k2.timeoutEvent = IF k.packet = k.replayPacket THEN TRUE ELSE k.timeoutEvent
        /\ \/ /\ k2.packet = k.replayDLLP
              /\ k2.sendSeqNum = k.sendSeqNum
              /\ k2.replayPacket = IF k.packet = k.replayPacket THEN NULL
                                   ELSE k.replayPacket
           \/ /\ k.retransmit = FALSE
              /\ k.packet = k.replayPacket
              /\ k2.replayPacket \in TLPs
              /\ k2.replayPacket.seqNum = k.sendSeqNum
              /\ k2.sendSeqNum = k.sendSeqNum + 1
              /\ k2.packet = IF k.replayDLLP # NULL THEN k.replayDLLP
                             ELSE k2.replayPacket
    <3>1. CASE k.packet # k.replayPacket
      <4>1. k2 = k1
        BY <2>3, <3>1 DEF storeTLP
      <4> HIDE DEF k2
      <4> QED
        BY <2>3, <2>4, <3>1, <4>1 DEF Stored
    <3>2. CASE k.packet = k.replayPacket
      <4>1. k.packet \in TLPs /\ k.packet = k1.replayPacket
        BY <2>2, <2>3, <3>2, Kinds DEF LinkState
      <4>2. LinkInv(k2) /\ TLPStored(k1, k2, k.packet) /\ Waits(k2)
        BY <2>3, <2>4, <4>1, <1>StoreTLPIs, ZenonT(40)
      <4> HIDE DEF k2
      <4> QED
        BY <2>3, <3>2, <4>2, ZenonT(40) DEF TLPStored, Stored, busy
    <3> QED
      BY <3>1, <3>2, Zenon
  <2> HIDE DEF k2
  <2>6. k2.replayPacket \in TLPs \cup {NULL} /\ k2 \in LinkState
    BY <2>5 DEF LinkInv, LinkState
  <2>7. CASE k.retransmit = TRUE
    <3>1. n = retransmitNext(k2)
      BY <2>5, <2>7
    <3> HIDE DEF n
    <3>2. /\ k2.packet = k.replayDLLP
          /\ k2.sendSeqNum = k.sendSeqNum
          /\ k2.replayPacket = IF k.packet = k.replayPacket THEN NULL
                               ELSE k.replayPacket
      BY <2>5, <2>7, SMTT(30)
    <3>3. /\ LinkInv(n)
          /\ Waits(n)
          /\ n.recvSeqNum = k2.recvSeqNum
          /\ n.lastAcked = k2.lastAcked
          /\ n.ackEvent = k2.ackEvent
          /\ n.replayDLLP = k2.replayDLLP
          /\ n.buffer = k2.buffer
          /\ n.timeoutEvent = TRUE
          /\ \/ /\ n.retransmit = FALSE
                /\ n.packet = IF busy(k2) THEN k2.packet ELSE n.replayPacket
                /\ \/ /\ n.sendSeqNum = k2.sendSeqNum
                      /\ n.replayPacket = k2.replayPacket
                   \/ /\ k2.replayPacket = NULL
                      /\ n.replayPacket \in TLPs
                      /\ n.replayPacket.seqNum = k2.sendSeqNum
                      /\ n.sendSeqNum = k2.sendSeqNum + 1
             \/ /\ k2.retransmitIdx < Len(k2.buffer)
                /\ n.retransmit = TRUE
                /\ n.retransmitIdx = k2.retransmitIdx + 1
                /\ n.packet = IF busy(k2) THEN k2.packet
                              ELSE k2.buffer[k2.retransmitIdx + 1]
                /\ n.sendSeqNum = k2.sendSeqNum
                /\ n.replayPacket = k2.replayPacket
      BY <2>5, <2>7, <3>1, <1>RetransmitNextIs, ZenonT(40)
    <3>4. TxFinished(k, n)
      BY <2>5, <2>7, <3>2, <3>3, ZenonT(40) DEF TxFinished, busy
    <3> QED
      BY <2>1, <3>3, <3>4
  <2>8. CASE k.retransmit = FALSE
    <3>1. n = sendReplayPacket(k2)
      BY <2>5, <2>8, Zenon
    <3> HIDE DEF n
    <3>2. /\ LinkInv(n)
          /\ SameButPacket(k2, n)
          /\ n.packet = IF busy(k2) THEN k2.packet ELSE k2.replayPacket
      BY <2>5, <3>1, SendReplayPacketIs, Zenon
    <3>3. Waits(n)
      BY <2>5, <3>2, Zenon DEF Waits, MustWait, SameButPacket
    <3>4. TxFinished(k, n)
      BY <2>2, <2>5, <2>6, <2>8, <3>2, Kinds DEF TxFinished, SameButPacket, busy
    <3> QED
      BY <2>1, <3>2, <3>3, <3>4, Zenon
  <2> QED
    BY <2>2, <2>7, <2>8, Zenon DEF LinkState

<1>ReceiveDLLPIs.
      ASSUME NEW k, LinkInv(k), NEW p \in DLLPs, Waits(k)
      PROVE  /\ LinkInv(receiveDLLP(k, p))
             /\ AckReceived(k, receiveDLLP(k, p), p.seqNum)
             /\ Waits(receiveDLLP(k, p))
  <2> USE <1>ReceiveDLLPIs
  <2> DEFINE a == p.seqNum
             rest == popAcked(k.buffer, a)
             e == rest # <<>>
             m == [k EXCEPT !.buffer = rest, !.timeoutEvent = e]
             n == sendRetries(m)
  <2>1. a \in Nat
    BY Kinds, SizeAssumption
  <2>2. receiveDLLP(k, p) = n
    BY DEF receiveDLLP
  <2> HIDE DEF a
  <2>3. /\ k \in LinkState /\ k.buffer \in Seq(TLPs) /\ Len(k.buffer) \in Nat
        /\ k.retransmit \in BOOLEAN
    BY DEF LinkInv, LinkState
  <2>4. rest \in Seq(TLPs) /\ e \in BOOLEAN
    <3>1. AckedPrefix(k.buffer, a) \in 0 .. Len(k.buffer)
      BY <2>1, AckedPrefixIs
    <3> QED
      BY <3>1, <2>3 DEF popAcked
  <2>5. e <=> rest # <<>>
    OBVIOUS
  <2> HIDE DEF rest, e
  <2>6. /\ m \in LinkState
        /\ m.packet = k.packet
        /\ m.buffer = rest
        /\ m.sendSeqNum = k.sendSeqNum
        /\ m.recvSeqNum = k.recvSeqNum
        /\ m.lastAcked = k.lastAcked
        /\ m.retry = k.retry
        /\ m.replayPacket = k.replayPacket
        /\ m.replayDLLP = k.replayDLLP
        /\ m.retransmit = k.retransmit
        /\ m.retransmitIdx = k.retransmitIdx
        /\ m.timeoutEvent = e
        /\ m.ackEvent = k.ackEvent
        /\ m.sent = k.sent
        /\ m.rcvd = k.rcvd
        /\ m.held = k.held
    BY <2>3, <2>4, Zenon DEF LinkState
  <2> HIDE DEF m
  <2>7. /\ LinkInv(m)
        /\ \E i \in 0 .. Len(k.buffer) :
             /\ Len(m.buffer) = Len(k.buffer) - i
             /\ \A j \in 1 .. Len(m.buffer) : m.buffer[j] = k.buffer[j + i]
             /\ Base(m) = Base(k) + i
             /\ i > 0 => Base(m) <= a + 1
             /\ m.buffer # <<>> => Base(m) > a
    BY <2>1, <2>6, PoppedInv, Zenon DEF rest
  <2>8. Promised(m)
    BY <2>6 DEF Waits, Promised
  <2>9. LinkInv(n) /\ Retried(m, n) /\ Waits(n) /\ Accepts(m, n)
    BY <2>7, <2>8, SendRetriesIs, SendRetriesInv
  <2> HIDE DEF n
  <2>10. Base(n) = Base(m)
    BY <2>7, <2>9, AcceptsBase, Zenon
  <2>11. n.buffer = m.buffer
    BY <2>9 DEF Retried
  <2>12. \E i \in 0 .. Len(k.buffer) :
           /\ Len(n.buffer) = Len(k.buffer) - i
           /\ \A j \in 1 .. Len(n.buffer) : n.buffer[j] = k.buffer[j + i]
           /\ Base(n) = Base(k) + i
           /\ i > 0 => Base(n) <= a + 1
    BY <2>7, <2>10, <2>11, Zenon
  <2>13. n.buffer # <<>> => Base(n) > a
    BY <2>7, <2>10, <2>11, Zenon
  <2>14. /\ n.recvSeqNum = k.recvSeqNum
         /\ n.lastAcked = k.lastAcked
         /\ n.ackEvent = k.ackEvent
         /\ n.replayDLLP = k.replayDLLP
         /\ n.retransmit = k.retransmit
         /\ n.retransmitIdx = k.retransmitIdx
         /\ n.timeoutEvent = e
    BY <2>6, <2>9, Zenon DEF Retried
  <2>15. \/ /\ n.packet = k.packet
            /\ n.sendSeqNum = k.sendSeqNum
            /\ n.replayPacket = k.replayPacket
         \/ /\ k.retransmit = FALSE
            /\ k.replayPacket = NULL
            /\ n.replayPacket \in TLPs
            /\ n.replayPacket.seqNum = k.sendSeqNum
            /\ n.sendSeqNum = k.sendSeqNum + 1
            /\ n.packet = IF busy(k) THEN k.packet ELSE n.replayPacket
    BY <2>3, <2>6, <2>9, Zenon DEF Retried, MustWait, busy
  <2>16. n.timeoutEvent <=> n.buffer # <<>>
    BY <2>5, <2>6, <2>11, <2>14
  <2>17. AckReceived(k, n, a)
    BY <2>12, <2>13, <2>14, <2>15, <2>16, Zenon DEF AckReceived
  <2> QED
    BY <2>2, <2>9, <2>17 DEF a

<1>CreateAckIs.
      ASSUME NEW k \in LinkState
      PROVE  LET n == createAck(k)
             IN  /\ SameSending(k, n)
                 /\ n.recvSeqNum = k.recvSeqNum
                 /\ AckMade(k, n)
  <2> USE <1>CreateAckIs
  <2> DEFINE ack == DataLinkPacket(Pred(k.recvSeqNum))
             w == [k EXCEPT !.replayDLLP = ack, !.lastAcked = Pred(k.recvSeqNum),
                            !.ackEvent = TRUE]
             t == transmit(k, ack)
  <2>1. ack \in DLLPs /\ k.ackEvent \in BOOLEAN
    BY AckIs DEF LinkState
  <2>2. createAck(k) = IF k.ackEvent THEN k ELSE IF busy(k) THEN w ELSE t
    BY DEF createAck
  <2>3. /\ SameSending(k, w)
        /\ w.packet = k.packet
        /\ w.replayDLLP = ack
        /\ w.recvSeqNum = k.recvSeqNum
        /\ w.lastAcked = Pred(k.recvSeqNum)
        /\ w.ackEvent = TRUE
    BY Zenon DEF LinkState, SameSending
  <2> HIDE DEF w
  <2>4. SameButPacket(k, t) /\ t.packet = IF busy(k) THEN k.packet ELSE ack
    <3> HIDE DEF ack
    <3> QED
      BY <2>1, TransmitIs, Zenon
  <2> HIDE DEF t
  <2>5. CASE k.ackEvent = TRUE
    BY <2>2, <2>5, Zenon DEF SameSending, AckMade
  <2>6. CASE k.ackEvent = FALSE /\ busy(k)
    BY <2>2, <2>3, <2>6, Zenon DEF AckMade
  <2>7. CASE k.ackEvent = FALSE /\ ~busy(k)
    BY <2>2, <2>4, <2>7 DEF AckMade, SameSending, SameButPacket
  <2> QED
    BY <2>1, <2>5, <2>6, <2>7, Zenon

<1>ReceiveTLPIs.
      ASSUME NEW k, LinkInv(k), NEW p \in TLPs, p.seqNum < MaxTLPs,
             NEW took \in BOOLEAN
      PROVE  TLPReceived(k, receiveTLP(k, p, took), p, took)
  <2> USE <1>ReceiveTLPIs
  <2> DEFINE m == [k EXCEPT !.recvSeqNum = @ + 1, !.rcvd = Append(@, p.pkt)]
             n == receiveTLP(k, p, took)
  <2>1. k \in LinkState /\ p.pkt \in Pkt
    BY Kinds DEF LinkInv
  <2>2. CASE p.seqNum # k.recvSeqNum
    <3>1. n = createAck(k)
      BY <2>2 DEF receiveTLP
    <3> QED
      BY <2>1, <2>2, <3>1, <1>CreateAckIs DEF TLPReceived
  <2>3. CASE p.seqNum = k.recvSeqNum /\ ~took
    <3>1. n = k
      BY <2>3 DEF receiveTLP
    <3> QED
      BY <2>3, <3>1 DEF TLPReceived, SameSending
  <2>4. CASE p.seqNum = k.recvSeqNum /\ took
    <3>1. n = createAck(m)
      BY <2>4 DEF receiveTLP
    <3>2. k.recvSeqNum + 1 \in 0 .. MaxTLPs /\ Append(k.rcvd, p.pkt) \in Seq(Pkt)
      BY <2>1, <2>4, SizeAssumption, SMT, Z3T(30) DEF LinkState
    <3>3. /\ m \in LinkState
          /\ SameSending(k, m)
          /\ m.packet = k.packet
          /\ m.replayDLLP = k.replayDLLP
          /\ m.lastAcked = k.lastAcked
          /\ m.ackEvent = k.ackEvent
          /\ m.recvSeqNum = k.recvSeqNum + 1
      BY <2>1, <3>2, Zenon DEF LinkState, SameSending
    <3> HIDE DEF m
    <3>4. SameSending(m, n) /\ n.recvSeqNum = m.recvSeqNum /\ AckMade(m, n)
      BY <3>1, <3>3, <1>CreateAckIs
    <3> HIDE DEF n
    <3>5. SameSending(k, n)
      BY <3>3, <3>4, Zenon DEF SameSending
    <3>6. AckMade(k, n)
      BY <3>3, <3>4 DEF AckMade, busy
    <3> QED
      BY <2>4, <3>3, <3>4, <3>5, <3>6, Zenon DEF TLPReceived, n
  <2> QED
    BY <2>2, <2>3, <2>4

<1> DEFINE o == Other(l)
           k == link[l]
           p == k.packet
           n == finishTx(k)
           m == linkReceiveInterface(link[o], p, ok)
<1>1. o \in Links /\ o # l /\ \A i \in Links : i = l \/ i = o
  BY LinksFacts
<1>2. /\ LinkInv(k) /\ LinkInv(link[o])
      /\ Waits(k) /\ Waits(link[o])
      /\ busy(k)
      /\ MayAnswer(link[o], ok)
  BY <1>1 DEF Inv, txDone, WaitsInv
<1>3. link'[l] = n /\ link'[o] = m
  BY <1>1 DEF txDone, Inv
<1>4. TxFinished(k, n) /\ Waits(n)
  BY ONLY <1>2, <1>FinishTxIs, SMT, Z3T(30)
<1>5. /\ Base(n) = Base(k)
      /\ p \in TLPs => Base(m) = Base(link[o])
      /\ p \in TLPs \cup DLLPs
  BY <1>3, TxDoneShape DEF Finished, Received
<1>6. ASSUME p \in TLPs
      PROVE  TLPReceived(link[o], m, p, ok) /\ Waits(m)
  <2>1. p.kind = "TLP" /\ p.seqNum < MaxTLPs
    <3>1. p.kind = "TLP" /\ p.seqNum \in Nat
      BY <1>6, Kinds, SizeAssumption, SMTT(30), Z3T(30)
    <3>2. p.seqNum < k.sendSeqNum /\ k.sendSeqNum \in Nat /\ k.sendSeqNum <= MaxTLPs
      BY <1>2, <3>1, SizeAssumption, SMTT(30) DEF LinkInv, Genuine, LinkState
    <3> QED
      BY <3>1, <3>2, SizeAssumption
  <2>2. m = receiveTLP(link[o], p, ok)
    BY <2>1, SMTT(30) DEF linkReceiveInterface
  <2>3. TLPReceived(link[o], m, p, ok)
    BY <1>2, <1>6, <2>1, <2>2, <1>ReceiveTLPIs, Zenon
  <2> HIDE DEF m
  <2>4. Waits(m)
    BY <1>2, <2>3, Zenon DEF Waits, MustWait, TLPReceived, SameSending
  <2> QED
    BY <2>3, <2>4
<1>7. ASSUME p \in DLLPs
      PROVE  AckReceived(link[o], m, p.seqNum) /\ Waits(m)
  <2>1. m = receiveDLLP(link[o], p)
    BY <1>7, Kinds, Zenon DEF linkReceiveInterface
  <2> QED
    BY <1>2, <1>7, <2>1, <1>ReceiveDLLPIs, Zenon
<1> HIDE DEF n, m
<1>8. Waits(link'[l]) /\ Waits(link'[o])
  BY <1>3, <1>4, <1>5, <1>6, <1>7, Zenon
<1>9. WaitsInv'
  BY <1>1, <1>8, SMTT(30) DEF WaitsInv
<1>10. SendsTLP(l) \/ SendsDLLP(l)
  BY <1>3, <1>4, <1>5, <1>6, <1>7, ZenonT(40) DEF SendsTLP, SendsDLLP
<1> QED
  BY <1>9, <1>10

LEMMA TimeoutIs ==
  ASSUME Inv, WaitsInv, NEW l \in Links, timeoutFunc(l)
  PROVE  TimesOut(l) /\ WaitsInv'
<1>ReplayIs.
      ASSUME NEW k, LinkInv(k)
      PROVE  Replayed(k, replay(k))
  <2> USE <1>ReplayIs
  <2> DEFINE k1 == [k EXCEPT !.timeoutEvent = FALSE]
             p == Head(k.buffer)
             t == transmit(k1, p)
             idx == IF busy(k) THEN 0 ELSE 1
             w == [t EXCEPT !.retransmit = TRUE, !.retransmitIdx = idx]
  <2>1. k \in LinkState /\ k.buffer \in Seq(TLPs) /\ k.retransmit \in BOOLEAN
    BY DEF LinkInv, LinkState
  <2>2. replay(k) = IF k.buffer = <<>> \/ k.retransmit THEN k1 ELSE w
    BY DEF replay
  <2>3. /\ k1 \in LinkState
        /\ k1.packet = k.packet
        /\ k1.buffer = k.buffer
        /\ k1.sendSeqNum = k.sendSeqNum
        /\ k1.recvSeqNum = k.recvSeqNum
        /\ k1.lastAcked = k.lastAcked
        /\ k1.retry = k.retry
        /\ k1.replayPacket = k.replayPacket
        /\ k1.replayDLLP = k.replayDLLP
        /\ k1.retransmit = k.retransmit
        /\ k1.retransmitIdx = k.retransmitIdx
        /\ k1.timeoutEvent = FALSE
        /\ k1.ackEvent = k.ackEvent
        /\ k1.held = k.held
    BY <2>1, Zenon DEF LinkState
  <2> HIDE DEF k1
  <2>4. CASE k.buffer = <<>> \/ k.retransmit
    BY <2>1, <2>2, <2>3, <2>4, Zenon DEF Replayed
  <2>5. CASE k.buffer # <<>> /\ ~k.retransmit
    <3>1. p \in TLPs /\ p = k.buffer[1]
      BY <2>1, <2>5
    <3> HIDE DEF p
    <3>2. /\ t \in LinkState
          /\ SameButPacket(k1, t)
          /\ t.packet = IF busy(k1) THEN k1.packet ELSE p
      BY <2>3, <3>1, TransmitIs
    <3> HIDE DEF t, idx
    <3>3. /\ w.packet = t.packet
          /\ w.buffer = t.buffer
          /\ w.sendSeqNum = t.sendSeqNum
          /\ w.recvSeqNum = t.recvSeqNum
          /\ w.lastAcked = t.lastAcked
          /\ w.retry = t.retry
          /\ w.replayPacket = t.replayPacket
          /\ w.replayDLLP = t.replayDLLP
          /\ w.retransmit = TRUE
          /\ w.retransmitIdx = idx
          /\ w.timeoutEvent = t.timeoutEvent
          /\ w.ackEvent = t.ackEvent
          /\ w.held = t.held
      BY <3>2, Zenon DEF LinkState
    <3> HIDE DEF w
    <3>4. w.packet = IF busy(k) THEN k.packet ELSE k.buffer[1]
      BY <2>3, <3>1, <3>2, <3>3, Zenon DEF busy
    <3>5. Replayed(k, w)
      BY <2>1, <2>3, <2>5, <3>2, <3>3, <3>4 DEF Replayed, SameButPacket, idx
    <3> QED
      BY <2>2, <2>5, <3>5, Zenon
  <2> QED
    BY <2>4, <2>5, ZenonT(40)

<1> DEFINE k == link[l]
           n == replay(k)
<1>1. LinkInv(k) /\ Waits(k)
  BY DEF Inv, WaitsInv
<1>2. Continues(k, link'[l]) /\ \A i \in Links : i # l => link'[i] = link[i]
  BY TimeoutShape
<1>3. link'[l] = n
  BY DEF Inv, timeoutFunc
<1>4. Replayed(k, n)
  BY <1>1, <1>ReplayIs, Zenon
<1> HIDE DEF n
<1>5. Waits(n)
  BY <1>1, <1>4 DEF Waits, MustWait, Replayed
<1>6. WaitsInv'
  BY <1>2, <1>3, <1>5, Zenon DEF WaitsInv
<1> QED
  BY <1>2, <1>3, <1>4, <1>6, LinksFacts DEF TimesOut, Continues

LEMMA SendAckIs ==
  ASSUME Inv, WaitsInv, NEW l \in Links, sendAck(l)
  PROVE  TimesAck(l) /\ WaitsInv'
<1>AckTimerIs.
      ASSUME NEW k \in LinkState
      PROVE  AckTimed(k, ackTimer(k))
  <2> USE <1>AckTimerIs
  <2> DEFINE ack == DataLinkPacket(Pred(k.recvSeqNum))
             off == [k EXCEPT !.ackEvent = FALSE]
             k1 == [k EXCEPT !.lastAcked = Pred(k.recvSeqNum)]
             w == [k1 EXCEPT !.replayDLLP = ack]
             t == transmit(k1, ack)
  <2>1. ack \in DLLPs /\ Pred(k.recvSeqNum) \in 0 .. UInt64Max
    BY AckIs DEF LinkState
  <2>2. ackTimer(k) = IF k.lastAcked = Pred(k.recvSeqNum) THEN off
                      ELSE IF busy(k) THEN w ELSE t
    BY DEF ackTimer
  <2>3. /\ SameSending(k, off)
        /\ off.recvSeqNum = k.recvSeqNum
        /\ off.ackEvent = FALSE
        /\ off.packet = k.packet
        /\ off.replayDLLP = k.replayDLLP
        /\ off.lastAcked = k.lastAcked
    BY Zenon DEF LinkState, SameSending
  <2>4. /\ k1 \in LinkState
        /\ SameSending(k, k1)
        /\ k1.recvSeqNum = k.recvSeqNum
        /\ k1.ackEvent = k.ackEvent
        /\ k1.packet = k.packet
        /\ k1.replayDLLP = k.replayDLLP
        /\ k1.lastAcked = Pred(k.recvSeqNum)
    BY <2>1, Zenon DEF LinkState, SameSending
  <2> HIDE DEF off, k1, ack
  <2>5. /\ SameSending(k1, w)
        /\ w.recvSeqNum = k1.recvSeqNum
        /\ w.ackEvent = k1.ackEvent
        /\ w.packet = k1.packet
        /\ w.replayDLLP = ack
        /\ w.lastAcked = k1.lastAcked
    BY <2>4, Zenon DEF LinkState, SameSending
  <2>6. SameButPacket(k1, t) /\ t.packet = IF busy(k1) THEN k1.packet ELSE ack
    BY <2>1, <2>4, TransmitIs, Zenon
  <2> HIDE DEF w, t
  <2>7. CASE k.lastAcked = Pred(k.recvSeqNum)
    BY <2>2, <2>3, <2>7, Zenon DEF AckTimed
  <2>8. CASE k.lastAcked # Pred(k.recvSeqNum) /\ busy(k)
    BY <2>2, <2>4, <2>5, <2>8, ZenonT(40) DEF AckTimed, SameSending, ack
  <2>9. CASE k.lastAcked # Pred(k.recvSeqNum) /\ ~busy(k)
    BY <2>2, <2>4, <2>6, <2>9, SMTT(30) DEF AckTimed, SameSending, SameButPacket, busy, ack
  <2> QED
    BY <2>7, <2>8, <2>9

<1> DEFINE k == link[l]
           n == ackTimer(k)
<1>1. k \in LinkState /\ Waits(k) /\ k.ackEvent = TRUE
  <2>1. k.ackEvent \in BOOLEAN
    BY DEF Inv, LinkState
  <2> QED
    BY <2>1 DEF Inv, sendAck, WaitsInv
<1>2. Base(link'[l]) = Base(k) /\ \A i \in Links : i # l => link'[i] = link[i]
  BY SendAckShape
<1>3. link'[l] = n
  BY DEF Inv, sendAck
<1>4. AckTimed(k, n)
  BY <1>1, <1>AckTimerIs, Zenon
<1> HIDE DEF n
<1>5. Waits(n)
  BY <1>1, <1>4 DEF Waits, MustWait, AckTimed, SameSending
<1>6. WaitsInv'
  BY <1>2, <1>3, <1>5 DEF WaitsInv
<1> QED
  BY <1>1, <1>2, <1>3, <1>4, <1>6, LinksFacts, Zenon DEF TimesAck

LEMMA NextIs ==
  ASSUME Inv, WaitsInv, Next
  PROVE  (\E l \in Links : Step(l)) /\ WaitsInv'
BY OfferIs, TxDoneIs, TimeoutIs, SendAckIs, Zenon DEF Next, Step

(***************************************************************************)
(* An interface with work to do has an event scheduled that does it.       *)
(***************************************************************************)
Scheduled(k) ==
  /\ k.replayPacket # NULL \/ k.replayDLLP # NULL \/ k.retransmit => busy(k)
  /\ k.buffer # <<>> /\ ~k.retransmit => k.timeoutEvent

ScheduledInv == \A l \in Links : Scheduled(link[l])

LEMMA ScheduledNext ==
  Inv /\ WaitsInv /\ ScheduledInv /\ [Next]_vars => (WaitsInv /\ ScheduledInv)'

<1>ScheduledOneSide.
      ASSUME NEW k, NEW n, Scheduled(k), LinkInv(k), LinkInv(n)
      PROVE  /\ Retried(k, n) => Scheduled(n)
             /\ \A a : AckReceived(k, n, a) => Scheduled(n)
             /\ \A p, ok : TLPReceived(k, n, p, ok) => Scheduled(n)
             /\ Replayed(k, n) => Scheduled(n)
             /\ AckTimed(k, n) => Scheduled(n)
  <2> USE <1>ScheduledOneSide
  <2>1. /\ k.buffer \in Seq(TLPs) /\ n.buffer \in Seq(TLPs)
        /\ k.retransmit \in BOOLEAN
    BY Zenon DEF LinkInv, LinkState
  <2>2. NULL \notin TLPs /\ \A s : DataLinkPacket(s) # NULL
    BY Kinds, Zenon DEF DataLinkPacket, DLLP, NULL
  <2>3. Retried(k, n) => Scheduled(n)
    BY <2>2, SMTT(30) DEF Retried, Scheduled, busy
  <2>4. ASSUME NEW a, AckReceived(k, n, a)
        PROVE  Scheduled(n)
    BY <2>2, <2>4, Zenon DEF AckReceived, Scheduled, busy
  <2>5. ASSUME NEW p, NEW ok, TLPReceived(k, n, p, ok)
        PROVE  Scheduled(n)
    BY <2>2, <2>5, Zenon DEF TLPReceived, AckMade, SameSending, Scheduled, busy
  <2>6. Replayed(k, n) => Scheduled(n)
    <3>1. k.buffer # <<>> => k.buffer[1] # NULL
      BY ONLY <2>1, <2>2
    <3> QED
      BY <2>1, <3>1 DEF Replayed, Scheduled, busy
  <2>7. AckTimed(k, n) => Scheduled(n)
    BY <2>2 DEF AckTimed, SameSending, Scheduled, busy
  <2> QED
    BY ONLY <2>3, <2>4, <2>5, <2>6, <2>7, SMT, Z3T(30)

<1>ScheduledFinished.
      ASSUME NEW k, NEW n, Scheduled(k), LinkInv(k), LinkInv(n), TxFinished(k, n)
      PROVE  Scheduled(n)
  <2> USE <1>ScheduledFinished
  <2>1. n.buffer = Stored(k) /\ n.buffer \in Seq(TLPs) /\ k.retransmit \in BOOLEAN
    BY Zenon DEF LinkInv, LinkState, TxFinished
  <2>2. k.retransmitIdx \in Nat
    BY SizeAssumption, Zenon DEF LinkInv, LinkState
  <2>3. ASSUME n.retransmit = TRUE
        PROVE  n.packet # NULL
    <3>1. k.retransmitIdx < Len(n.buffer)
      BY <2>1, <2>3 DEF TxFinished
    <3>2. n.buffer[k.retransmitIdx + 1] \in TLPs
      BY ONLY <2>1, <2>2, <3>1
    <3> QED
      BY <2>1, <2>3, <3>2, Kinds, Zenon DEF TxFinished
  <2>4. n.buffer # <<>> /\ ~n.retransmit => n.timeoutEvent
    BY <2>1, SMTT(30) DEF TxFinished, Scheduled, Stored
  <2>5. n.replayPacket # NULL \/ n.replayDLLP # NULL \/ n.retransmit => busy(n)
    <3>1. n.retransmit \in BOOLEAN
      BY DEF LinkInv, LinkState
    <3> QED
      BY <2>3, <3>1, Zenon DEF TxFinished, busy
  <2> QED
    BY <2>4, <2>5, Zenon DEF Scheduled

<1> SUFFICES ASSUME Inv, WaitsInv, ScheduledInv, [Next]_vars
             PROVE  (WaitsInv /\ ScheduledInv)'
  OBVIOUS
<1>1. CASE UNCHANGED vars
  BY <1>1 DEF vars, WaitsInv, ScheduledInv
<1>2. CASE Next
  <2>1. Inv' /\ WaitsInv'
    BY <1>2, InvNext, NextIs
  <2>2. PICK l \in Links : Step(l)
    BY <1>2, NextIs
  <2> DEFINE o == Other(l)
  <2>3. o \in Links /\ o # l /\ \A i \in Links : i = l \/ i = o
    BY LinksFacts
  <2>4. /\ LinkInv(link[l]) /\ LinkInv(link[o])
        /\ LinkInv(link'[l]) /\ LinkInv(link'[o])
        /\ Scheduled(link[l]) /\ Scheduled(link[o])
    BY <2>1, <2>3, Zenon DEF Inv, ScheduledInv
  <2>5. Scheduled(link'[l]) /\ Scheduled(link'[o])
    BY <2>2, <2>4, <1>ScheduledOneSide, <1>ScheduledFinished, Zenon
       DEF Step, Offers, SendsTLP, SendsDLLP, TimesOut, TimesAck
  <2> QED
    BY <2>1, <2>3, <2>5 DEF ScheduledInv
<1> QED
  BY <1>1, <1>2

LEMMA ScheduledInit == Init => WaitsInv /\ ScheduledInv
BY DEF Init, NewLink, WaitsInv, ScheduledInv, Waits, Scheduled, busy, NULL

\* A device that waits for a retry was promised one, and would be refused if
\* it offered its packet now: whatever frees the interface sends the retry.
THEOREM NoDeviceIsStranded == Spec => []NoStrandedDevice
<1>1. Init => Inv /\ WaitsInv /\ ScheduledInv
  BY InvInit, ScheduledInit
<1>2. (Inv /\ WaitsInv /\ ScheduledInv) /\ [Next]_vars
        => (Inv /\ WaitsInv /\ ScheduledInv)'
  BY InvNext, ScheduledNext
<1>3. WaitsInv => NoStrandedDevice
  BY DEF WaitsInv, Waits, NoStrandedDevice
<1> QED
  BY <1>1, <1>2, <1>3, PTL DEF Spec

\* A TLP, a DLLP or a replay that waits for the link has txDone scheduled,
\* and TLPs that nobody replays have the replay timer.
THEOREM EventsAreScheduled == Spec => []WorkIsScheduled
<1>1. Init => Inv /\ WaitsInv /\ ScheduledInv
  BY InvInit, ScheduledInit
<1>2. (Inv /\ WaitsInv /\ ScheduledInv) /\ [Next]_vars
        => (Inv /\ WaitsInv /\ ScheduledInv)'
  BY InvNext, ScheduledNext
<1>3. ScheduledInv => WorkIsScheduled
  BY Zenon DEF ScheduledInv, Scheduled, WorkIsScheduled
<1> QED
  BY <1>1, <1>2, <1>3, PTL DEF Spec

(***************************************************************************)
(* Which TLPs are sent.  r is the sequence number the receiver expects.    *)
(* A replay starts while the whole buffer is unreceived, and its next TLP  *)
(* stays unreceived when the one on the link is received.                  *)
(***************************************************************************)
Fresh(k, r) ==
  /\ k.replayPacket # NULL => r <= k.replayPacket.seqNum
  /\ k.packet.kind = "TLP" =>
       /\ r <= k.packet.seqNum
       /\ k.retransmit = FALSE => k.packet = k.replayPacket
       /\ k.retransmit = TRUE /\ k.packet = k.replayPacket => r < k.packet.seqNum
  /\ k.retransmit = TRUE =>
       \A i \in k.retransmitIdx + 1 .. Len(k.buffer) :
         /\ r <= k.buffer[i].seqNum
         /\ k.packet.kind = "TLP" /\ k.packet.seqNum = r => r < k.buffer[i].seqNum

FreshInv == \A l \in Links : Fresh(link[l], link[Other(l)].recvSeqNum)

\* The types the proofs about sequence numbers keep needing.
LEMMA LinkTypes ==
  ASSUME NEW k, LinkInv(k)
  PROVE  /\ k.sendSeqNum \in Nat
         /\ k.recvSeqNum \in Nat
         /\ k.lastAcked \in Nat
         /\ k.retransmitIdx \in Nat
         /\ k.buffer \in Seq(TLPs)
         /\ Len(k.buffer) \in Nat
         /\ k.packet \in TLPs \cup DLLPs \cup {NULL}
         /\ k.replayPacket \in TLPs \cup {NULL}
         /\ k.replayDLLP \in DLLPs \cup {NULL}
         /\ k.retransmit \in BOOLEAN
         /\ k.ackEvent \in BOOLEAN
         /\ k.timeoutEvent \in BOOLEAN
         /\ Base(k) \in Nat
<1>1. k \in LinkState /\ Base(k) >= 0
  BY DEF LinkInv, Contiguous
<1>2. /\ k.sendSeqNum \in Nat
      /\ k.recvSeqNum \in Nat
      /\ k.lastAcked \in Nat
      /\ k.retransmitIdx \in Nat
      /\ k.buffer \in Seq(TLPs)
  BY <1>1, SizeAssumption DEF LinkState
<1>3. /\ k.packet \in TLPs \cup DLLPs \cup {NULL}
      /\ k.replayPacket \in TLPs \cup {NULL}
      /\ k.replayDLLP \in DLLPs \cup {NULL}
      /\ k.retransmit \in BOOLEAN
      /\ k.ackEvent \in BOOLEAN
      /\ k.timeoutEvent \in BOOLEAN
  BY <1>1, Zenon DEF LinkState
<1>4. Len(k.buffer) \in Nat
  BY <1>2
<1>5. Base(k) \in Int
  BY <1>2, <1>4, SMTT(30) DEF Base
<1> QED
  BY ONLY <1>1, <1>2, <1>3, <1>4, <1>5

\* The TLPs of k are numbered from Base(k).
LEMMA Numbering ==
  ASSUME NEW k, LinkInv(k)
  PROVE  /\ \A i \in 1 .. Len(k.buffer) :
              k.buffer[i] \in TLPs /\ k.buffer[i].seqNum = Base(k) + i - 1
         /\ k.replayPacket # NULL =>
              /\ k.replayPacket.kind = "TLP"
              /\ k.replayPacket.seqNum = Base(k) + Len(k.buffer)
              /\ k.sendSeqNum = Base(k) + Len(k.buffer) + 1
         /\ k.replayPacket = NULL => k.sendSeqNum = Base(k) + Len(k.buffer)
<1>1. /\ k.sendSeqNum \in Nat
      /\ k.buffer \in Seq(TLPs)
      /\ Len(k.buffer) \in Nat
      /\ k.replayPacket \in TLPs \cup {NULL}
  BY LinkTypes, Zenon
<1>2. \A i \in 1 .. Len(k.buffer) :
        k.buffer[i] \in TLPs /\ k.buffer[i].seqNum = Base(k) + i - 1
  BY <1>1 DEF LinkInv, Contiguous
<1>3. k.replayPacket # NULL => k.replayPacket.seqNum = k.sendSeqNum - 1
  BY DEF LinkInv, Contiguous
<1>4. Base(k) = k.sendSeqNum - Len(k.buffer) - (IF k.replayPacket = NULL THEN 0 ELSE 1)
  BY DEF Base
<1>5. k.replayPacket # NULL => k.replayPacket.kind = "TLP"
  BY <1>1, Kinds, SMTT(30)
<1> QED
  BY <1>1, <1>2, <1>3, <1>4, <1>5, SMTT(30)

LEMMA FreshNext ==
  Inv /\ WaitsInv /\ FreshInv /\ [Next]_vars => FreshInv'

<1>FreshRetried.
      ASSUME NEW k, NEW n, LinkInv(k), NEW r \in Nat, r <= k.sendSeqNum,
             Fresh(k, r), Retried(k, n)
      PROVE  Fresh(n, r)
  <2> USE <1>FreshRetried
  <2>1. n.packet = k.packet /\ n.replayPacket = k.replayPacket => Fresh(n, r)
    BY Zenon DEF Retried, Fresh
  <2>2. ASSUME /\ k.replayPacket = NULL
               /\ k.retransmit = FALSE
               /\ n.replayPacket \in TLPs
               /\ n.replayPacket.seqNum = k.sendSeqNum
               /\ n.packet = IF busy(k) THEN k.packet ELSE n.replayPacket
        PROVE  Fresh(n, r)
    <3>1. k.packet.kind # "TLP"
      BY <2>2, Kinds, Zenon DEF Fresh
    <3>2. n.retransmit = FALSE
      BY <2>2, SMTT(30) DEF Retried
    <3> QED
      BY <2>2, <3>1, <3>2 DEF Fresh
  <2> QED
    BY <2>1, <2>2, LinkTypes, ZenonT(40) DEF Retried, MustWait

<1>FreshAckReceived.
      ASSUME NEW k, NEW n, NEW a, LinkInv(k), NEW r \in Nat, r <= k.sendSeqNum,
             Fresh(k, r), AckReceived(k, n, a)
      PROVE  Fresh(n, r)
  <2> USE <1>FreshAckReceived
  <2>1. ASSUME n.packet = k.packet, n.replayPacket = k.replayPacket
        PROVE  Fresh(n, r)
    <3>1. PICK i \in 0 .. Len(k.buffer) :
                 /\ Len(n.buffer) = Len(k.buffer) - i
                 /\ \A j \in 1 .. Len(n.buffer) : n.buffer[j] = k.buffer[j + i]
      BY DEF AckReceived
    <3>2. Len(k.buffer) \in Nat /\ k.retransmitIdx \in Nat
      BY LinkTypes, Zenon
    <3>3. n.retransmit = k.retransmit /\ n.retransmitIdx = k.retransmitIdx
      BY SMTT(30) DEF AckReceived
    <3>4. \A j \in n.retransmitIdx + 1 .. Len(n.buffer) :
            /\ j + i \in k.retransmitIdx + 1 .. Len(k.buffer)
            /\ n.buffer[j] = k.buffer[j + i]
      BY ONLY <3>1, <3>2, <3>3, SMT, Z3T(30)
    <3> QED
      BY <2>1, <3>3, <3>4, SMTT(30), Z3T(30) DEF Fresh
  <2>2. ASSUME /\ k.replayPacket = NULL
               /\ k.retransmit = FALSE
               /\ n.replayPacket \in TLPs
               /\ n.replayPacket.seqNum = k.sendSeqNum
               /\ n.packet = IF busy(k) THEN k.packet ELSE n.replayPacket
        PROVE  Fresh(n, r)
    <3>1. k.packet.kind # "TLP"
      BY <2>2, Kinds, Zenon DEF Fresh
    <3>2. n.retransmit = FALSE
      BY <2>2, Zenon DEF AckReceived
    <3> QED
      BY <2>2, <3>1, <3>2, SMTT(30) DEF Fresh
  <2> QED
    BY <2>1, <2>2, Zenon DEF AckReceived

\* An interface that sends no TLP, or the same.
<1>FreshSameSending.
      ASSUME NEW k, NEW n, NEW r, Fresh(k, r), SameSending(k, n),
             n.packet = k.packet \/ n.packet.kind = "DLLP"
      PROVE  Fresh(n, r)
  BY <1>FreshSameSending, SMTT(30) DEF SameSending, Fresh

<1>FreshReplayed.
      ASSUME NEW k, NEW n, LinkInv(k), NEW r \in Nat, Fresh(k, r), Replayed(k, n),
             k.buffer # <<>> /\ k.retransmit = FALSE => r <= k.buffer[1].seqNum
      PROVE  Fresh(n, r)
  <2> USE <1>FreshReplayed
  <2>1. CASE n.packet = k.packet /\ n.retransmit = k.retransmit
                                 /\ n.retransmitIdx = k.retransmitIdx
    BY <2>1 DEF Replayed, Fresh
  <2>2. CASE /\ k.buffer # <<>>
             /\ k.retransmit = FALSE
             /\ n.packet = IF busy(k) THEN k.packet ELSE k.buffer[1]
             /\ n.retransmit = TRUE
             /\ n.retransmitIdx = IF busy(k) THEN 0 ELSE 1
    <3>1. Len(k.buffer) \in Nat /\ Len(k.buffer) > 0 /\ Base(k) \in Nat
      BY <2>2, LinkTypes, SMT, Z3T(30)
    <3>2. r <= Base(k) /\ k.buffer[1].seqNum = Base(k) /\ k.buffer[1] \in TLPs
      BY <2>2, <3>1, Numbering, SMTT(30)
    <3>3. /\ n.buffer = k.buffer
          /\ n.replayPacket = k.replayPacket
      BY Zenon DEF Replayed
    <3>4. k.replayPacket # NULL => r < k.replayPacket.seqNum
      BY <3>1, <3>2, Numbering, SMTT(30)
    <3>5. \A i \in 1 .. Len(k.buffer) : k.buffer[i].seqNum = Base(k) + i - 1
      BY Numbering, Zenon
    <3>6. CASE busy(k)
      <4>1. n.packet.kind = "TLP" => n.packet = k.replayPacket /\ k.replayPacket # NULL
        BY <2>2, <3>6, Kinds, SMTT(30), Z3T(30) DEF Fresh
      <4>2. n.retransmitIdx = 0
        BY ONLY <2>2, <3>6, SMT, Z3T(30)
      <4>3. \A i \in 1 .. Len(k.buffer) : r <= k.buffer[i].seqNum
        BY ONLY <3>1, <3>2, <3>5
      <4>4. n.packet.kind = "TLP" => r < n.packet.seqNum
        BY ONLY <3>4, <4>1
      <4>5. \A i \in n.retransmitIdx + 1 .. Len(n.buffer) :
              /\ r <= n.buffer[i].seqNum
              /\ ~(n.packet.kind = "TLP" /\ n.packet.seqNum = r)
        BY ONLY <3>3, <4>2, <4>3, <4>4, SMT, Z3T(30)
      <4>6. n.packet.kind = "TLP" => r <= n.packet.seqNum
        BY <4>1, SMTT(30) DEF Fresh
      <4>7. n.replayPacket # NULL => r <= n.replayPacket.seqNum
        BY <3>3, ZenonT(40) DEF Fresh
      <4> QED
        BY <2>2, <3>3, <4>4, <4>5, <4>6, <4>7, ZenonT(40) DEF Fresh
    <3>7. CASE ~busy(k)
      <4>1. n.packet = k.buffer[1] /\ n.retransmitIdx = 1
        BY ONLY <2>2, <3>7, SMT, Z3T(30)
      <4>2. k.replayPacket # NULL => k.replayPacket.seqNum # n.packet.seqNum
        BY <3>1, <3>2, <4>1, Numbering, SMTT(30)
      <4>3. n.packet.kind = "TLP"
        BY <3>2, <4>1, Kinds, Zenon
      <4>4. n.packet # k.replayPacket
        BY <4>2, <4>3, Kinds, Zenon
      <4>5. \A i \in 2 .. Len(k.buffer) : r < k.buffer[i].seqNum
        BY ONLY <3>1, <3>2, <3>5
      <4>6. \A i \in n.retransmitIdx + 1 .. Len(n.buffer) :
              r <= n.buffer[i].seqNum /\ r < n.buffer[i].seqNum
        <5>1. \A i \in 2 .. Len(k.buffer) : k.buffer[i].seqNum \in Nat
          BY ONLY <3>1, <3>5, SMT, Z3T(30)
        <5> QED
          BY ONLY <3>3, <4>1, <4>5, <5>1
      <4>7. r <= n.packet.seqNum
        BY <3>2, <4>1
      <4>8. n.replayPacket # NULL => r <= n.replayPacket.seqNum
        BY <3>3 DEF Fresh
      <4> QED
        BY <2>2, <3>3, <4>4, <4>6, <4>7, <4>8, SMTT(30), Z3T(30) DEF Fresh
    <3> QED
      BY ONLY <3>6, <3>7
  <2> QED
    BY <2>1, <2>2, ZenonT(40) DEF Replayed

\* A TLP of k is told by its number.
<1>SameTLP.
      ASSUME NEW k, NEW p \in TLPs, NEW q \in TLPs, Genuine(k, p), Genuine(k, q),
             p.seqNum = q.seqNum
      PROVE  p = q
  <2> USE <1>SameTLP
  <2>1. p.pkt = q.pkt
    BY DEF Genuine
  <2> QED
    BY <2>1 DEF TLPs

\* The packet on the link is through.  q is what the receiver expects then.
<1>FreshFinished.
      ASSUME NEW k, NEW n, LinkInv(k), LinkInv(n), busy(k), TxFinished(k, n),
             Base(n) = Base(k), NEW r \in Nat, r <= k.sendSeqNum, Fresh(k, r),
             NEW q \in Nat,
             \/ q = r
             \/ k.packet \in TLPs /\ k.packet.seqNum = r /\ q = r + 1
      PROVE  Fresh(n, q)
  <2> USE <1>FreshFinished
  <2> DEFINE p == k.packet
  <2>1. /\ k.sendSeqNum \in Nat
        /\ k.retransmitIdx \in Nat
        /\ k.buffer \in Seq(TLPs)
        /\ Len(k.buffer) \in Nat
        /\ p \in TLPs \cup DLLPs
        /\ k.replayPacket \in TLPs \cup {NULL}
        /\ k.replayDLLP \in DLLPs \cup {NULL}
        /\ k.retransmit \in BOOLEAN
        /\ Base(k) \in Nat
    BY LinkTypes, Zenon DEF busy
  <2>2. q <= k.sendSeqNum
    <3>1. p.kind = "TLP" => p.seqNum < k.sendSeqNum
      BY DEF LinkInv, Genuine
    <3> QED
      BY <2>1, <3>1, Kinds, SMT, Z3T(30)
  <2>3. ASSUME k.replayPacket # NULL, p # k.replayPacket
        PROVE  q <= k.replayPacket.seqNum
    <3>1. r <= k.replayPacket.seqNum /\ k.replayPacket.seqNum \in Nat
      BY <2>1, <2>3, Kinds, SMTT(30) DEF Fresh
    <3>2. CASE q = r
      BY ONLY <3>1, <3>2
    <3>3. CASE p \in TLPs /\ p.seqNum = r /\ q = r + 1
      <4>1. Genuine(k, p) /\ Genuine(k, k.replayPacket) /\ k.replayPacket \in TLPs
        BY <2>1, <2>3, <3>3, Kinds, Zenon DEF LinkInv, Contiguous
      <4>2. p.seqNum # k.replayPacket.seqNum
        BY ONLY <2>3, <3>3, <4>1, <1>SameTLP, SMT, Z3T(30)
      <4> QED
        BY ONLY <3>1, <3>3, <4>2
    <3> QED
      BY <3>2, <3>3, ZenonT(40)
  <2>4. n.replayPacket # NULL => q <= n.replayPacket.seqNum
    BY <2>2, <2>3, SMTT(30) DEF TxFinished
  <2>5. CASE n.retransmit = FALSE
    <3>1. n.packet.kind = "TLP" => n.packet = n.replayPacket /\ n.replayPacket # NULL
      BY <2>1, <2>5, Kinds, Zenon DEF TxFinished
    <3> QED
      BY <2>4, <2>5, <3>1, Zenon DEF Fresh
  <2>6. CASE n.retransmit = TRUE
    <3> DEFINE idx == k.retransmitIdx
    <3>1. /\ n.buffer = Stored(k)
          /\ k.retransmit = TRUE
          /\ idx < Len(n.buffer)
          /\ n.retransmitIdx = idx + 1
          /\ n.packet = IF k.replayDLLP # NULL THEN k.replayDLLP
                        ELSE n.buffer[idx + 1]
      BY <2>6, Zenon DEF TxFinished
    <3>2. \A i \in 1 .. Len(n.buffer) :
            n.buffer[i] \in TLPs /\ n.buffer[i].seqNum = Base(k) + i - 1
      BY Numbering, Zenon
    <3>3. Len(n.buffer) \in Nat
      BY LinkTypes, SMTT(30)
    <3>4. \A i \in idx + 1 .. Len(n.buffer) : q <= n.buffer[i].seqNum
      <4> SUFFICES ASSUME NEW i \in idx + 1 .. Len(n.buffer)
                   PROVE  q <= n.buffer[i].seqNum
        BY Zenon
      <4>1. CASE i <= Len(k.buffer)
        <5>1. n.buffer[i] = k.buffer[i] /\ i \in 1 .. Len(k.buffer)
          <6>1. i \in 1 .. Len(k.buffer)
            BY ONLY <2>1, <3>3, <4>1, SMT, Z3T(30)
          <6>2. Append(k.buffer, p)[i] = k.buffer[i]
            BY ONLY <2>1, <6>1, SMT, Z3T(30)
          <6> QED
            BY <3>1, <6>1, <6>2, Zenon DEF Stored
        <5>2. /\ r <= k.buffer[i].seqNum
              /\ p.kind = "TLP" /\ p.seqNum = r => r < k.buffer[i].seqNum
          BY <2>1, <3>1, <3>3, <4>1, SMTT(30), Z3T(30) DEF Fresh
        <5>3. k.buffer[i].seqNum \in Nat
          BY <2>1, <5>1, Kinds, SizeAssumption, SMTT(30), Z3T(30)
        <5>4. q = r \/ (p.kind = "TLP" /\ p.seqNum = r /\ q = r + 1)
          BY Kinds, Zenon
        <5> QED
          BY ONLY <5>1, <5>2, <5>3, <5>4
      <4>2. CASE i > Len(k.buffer)
        <5>1. p = k.replayPacket /\ n.buffer[i] = p
          <6>1. p = k.replayPacket
            BY <2>1, <3>1, <3>3, <4>2, SMTT(30), Z3T(30) DEF Stored
          <6>2. Len(n.buffer) = Len(k.buffer) + 1 /\ n.buffer = Append(k.buffer, p)
            BY <2>1, <3>1, <6>1, SMTT(30), Z3T(30) DEF Stored
          <6>3. i = Len(k.buffer) + 1
            BY <2>1, <4>2, <6>2, SMTT(30)
          <6> HIDE DEF p
          <6> QED
            BY ONLY <2>1, <6>1, <6>2, <6>3, SMT, Z3T(30)
        <5>2. p.kind = "TLP"
          BY <2>1, <5>1, Kinds, Zenon
        <5>3. r < p.seqNum
          BY <3>1, <5>1, <5>2, Zenon DEF Fresh
        <5>4. p.seqNum \in Nat
          BY <2>1, Kinds, SizeAssumption, SMTT(30)
        <5>5. q = r
          BY <5>3, SMTT(30)
        <5> HIDE DEF p
        <5> QED
          BY ONLY <5>1, <5>3, <5>4, <5>5
      <4> QED
        BY ONLY <2>1, <3>3, <4>1, <4>2
    <3>5. ASSUME n.packet.kind = "TLP"
          PROVE  n.packet = n.buffer[idx + 1]
      BY <2>1, <3>1, <3>5, Kinds, Zenon
    <3>6. n.buffer[idx + 1].seqNum = Base(k) + idx
      <4> DEFINE i == idx + 1
      <4>1. i \in 1 .. Len(n.buffer)
        BY <2>1, <3>1, <3>3
      <4>2. n.buffer[i].seqNum = Base(k) + i - 1
        BY ONLY <3>2, <4>1, SMT, Z3T(30)
      <4>3. Base(k) + i - 1 = Base(k) + idx
        BY <2>1, SMT, Z3T(30)
      <4> QED
        BY ONLY <4>2, <4>3
    <3>7. n.packet.kind = "TLP" => q <= n.packet.seqNum
      BY <2>1, <3>1, <3>3, <3>4, <3>5, SMTT(30), Z3T(30)
    <3>8. n.packet.kind = "TLP" => n.packet # n.replayPacket
      <4>1. n.replayPacket # NULL => n.replayPacket.seqNum = Base(k) + Len(n.buffer)
        BY Numbering, Zenon
      <4>2. SUFFICES ASSUME n.packet.kind = "TLP", n.packet = n.replayPacket
                     PROVE  FALSE
        OBVIOUS
      <4>3. n.replayPacket # NULL
        BY <4>2, Kinds, Zenon
      <4> QED
        BY <2>1, <3>1, <3>3, <3>5, <3>6, <4>1, <4>2, <4>3, SMTT(30), Z3T(30)
    <3>9. \A i \in n.retransmitIdx + 1 .. Len(n.buffer) :
            /\ q <= n.buffer[i].seqNum
            /\ n.packet.kind = "TLP" => n.packet.seqNum < n.buffer[i].seqNum
      <4> SUFFICES ASSUME NEW i \in n.retransmitIdx + 1 .. Len(n.buffer)
                   PROVE  /\ q <= n.buffer[i].seqNum
                          /\ n.packet.kind = "TLP" => n.packet.seqNum < n.buffer[i].seqNum
        BY Zenon
      <4>1. i \in idx + 1 .. Len(n.buffer) /\ i \in 1 .. Len(n.buffer) /\ i > idx + 1
        BY ONLY <2>1, <3>1, <3>3
      <4>2. n.buffer[i].seqNum = Base(k) + i - 1
        BY ONLY <3>2, <4>1
      <4>3. n.packet.kind = "TLP" => n.packet.seqNum = Base(k) + idx
        BY ONLY <3>5, <3>6
      <4>4. i \in Int
        BY <4>1
      <4> QED
        BY ONLY <2>1, <3>4, <4>1, <4>2, <4>3, <4>4, SMT, Z3T(30)
    <3> QED
      BY <2>4, <2>6, <3>7, <3>8, <3>9, Zenon DEF Fresh
  <2> QED
    BY <2>5, <2>6, LinkTypes, ZenonT(40)

<1> SUFFICES ASSUME Inv, WaitsInv, FreshInv, [Next]_vars
             PROVE  FreshInv'
  OBVIOUS
<1>1. CASE UNCHANGED vars
  BY <1>1, SMTT(30) DEF vars, FreshInv
<1>2. CASE Next
  <2>1. Inv'
    BY <1>2, InvNext, Zenon
  <2>2. PICK l \in Links : Step(l)
    BY <1>2, NextIs
  <2> DEFINE o == Other(l)
             k == link[l]
             n == link'[l]
             r == link[o].recvSeqNum
             q == link'[o].recvSeqNum
  <2>3. o \in Links /\ o # l /\ Other(o) = l /\ \A i \in Links : i = l \/ i = o
    BY LinksFacts
  <2>4. /\ LinkInv(k) /\ LinkInv(link[o])
        /\ LinkInv(n) /\ LinkInv(link'[o])
        /\ Fresh(k, r) /\ Fresh(link[o], k.recvSeqNum)
        /\ r <= k.sendSeqNum /\ k.recvSeqNum <= link[o].sendSeqNum
    BY <2>1, <2>3, ZenonT(40) DEF Inv, FreshInv, Delivered
  <2>5. /\ r \in Nat /\ q \in Nat /\ k.recvSeqNum \in Nat
        /\ k.buffer \in Seq(TLPs) /\ k.retransmit \in BOOLEAN
    BY <2>4, LinkTypes, Zenon
  <2>6. SUFFICES Fresh(n, q) /\ Fresh(link'[o], n.recvSeqNum)
    BY <2>3, SMTT(30) DEF FreshInv
  <2>7. CASE Retried(k, n) /\ link'[o] = link[o]
    BY <2>4, <2>5, <2>7, <1>FreshRetried, ZenonT(40) DEF Retried
  <2>8. CASE busy(k) /\ TxFinished(k, n) /\ Base(n) = Base(k)
             /\ k.packet \in TLPs
             /\ \E ok \in BOOLEAN : TLPReceived(link[o], link'[o], k.packet, ok)
    <3>1. PICK ok \in BOOLEAN : TLPReceived(link[o], link'[o], k.packet, ok)
      BY ONLY <2>8
    <3>2. q = r \/ (k.packet.seqNum = r /\ q = r + 1)
      BY <3>1, Zenon DEF TLPReceived
    <3>3. Fresh(n, q)
      BY <2>4, <2>5, <2>8, <3>2, <1>FreshFinished, Zenon
    <3>4. link'[o].packet = link[o].packet \/ link'[o].packet.kind = "DLLP"
      BY <3>1, ReceiverSendsAck, Zenon
    <3>5. SameSending(link[o], link'[o]) /\ n.recvSeqNum = k.recvSeqNum
      BY <2>8, <3>1, ZenonT(40) DEF TLPReceived, TxFinished
    <3> QED
      BY ONLY <2>4, <3>3, <3>4, <3>5, <1>FreshSameSending
  <2>9. CASE busy(k) /\ TxFinished(k, n) /\ Base(n) = Base(k)
             /\ AckReceived(link[o], link'[o], k.packet.seqNum)
    <3>1. q = r /\ n.recvSeqNum = k.recvSeqNum
      BY <2>9, ZenonT(40) DEF AckReceived, TxFinished
    <3>2. Fresh(n, q)
      BY ONLY <2>4, <2>5, <2>9, <3>1, <1>FreshFinished, SMT, Z3T(30)
    <3> QED
      BY ONLY <2>4, <2>5, <2>9, <3>1, <3>2, <1>FreshAckReceived
  <2>10. CASE TimerIsLate(l) /\ Replayed(k, n) /\ link'[o] = link[o]
    <3>1. k.buffer # <<>> /\ k.retransmit = FALSE => r <= k.buffer[1].seqNum
      BY <2>5, <2>10 DEF TimerIsLate
    <3> QED
      BY <2>4, <2>5, <2>10, <3>1, <1>FreshReplayed, ZenonT(40) DEF Replayed
  <2>11. CASE AckTimed(k, n) /\ link'[o] = link[o]
    <3>1. n.packet = k.packet \/ n.packet.kind = "DLLP"
      BY <2>11 DEF AckTimed, DataLinkPacket, DLLP
    <3>2. SameSending(k, n) /\ n.recvSeqNum = k.recvSeqNum
      BY <2>11, ZenonT(40) DEF AckTimed
    <3>3. Fresh(n, r)
      BY ONLY <2>4, <3>1, <3>2, <1>FreshSameSending
    <3> QED
      BY <2>4, <2>11, <3>2, <3>3, Zenon
  <2>12. k.packet \in TLPs \cup DLLPs => busy(k)
    BY Kinds, ZenonT(40) DEF busy
  <2> QED
    BY <2>2, <2>7, <2>8, <2>9, <2>10, <2>11, <2>12, ZenonT(40)
       DEF Step, Offers, SendsTLP, SendsDLLP, TimesOut, TimesAck
<1> QED
  BY <1>1, <1>2

LEMMA FreshInit == Init => FreshInv
BY DEF Init, NewLink, FreshInv, Fresh, NULL, Links, Other

\* The replay timer, the guard on it and the Acks together: a TLP that the
\* receiver already has is never put on the link again.
THEOREM OnlyUnreceivedIsSent == Spec => []OnlyUnreceivedOnLink
<1> DEFINE I == Inv /\ WaitsInv /\ ScheduledInv /\ FreshInv
<1>1. Init => I
  BY InvInit, ScheduledInit, FreshInit
<1>2. I /\ [Next]_vars => I'
  BY InvNext, ScheduledNext, FreshNext, Zenon
<1>3. I => OnlyUnreceivedOnLink
  BY Zenon DEF Inv, FreshInv, Fresh, OnlyUnreceivedOnLink
<1> QED
  BY <1>1, <1>2, <1>3, PTL DEF Spec

(***************************************************************************)
(* Acks.  k sends to o.  OnWay(o, s) says that an Ack of the TLP s, or of  *)
(* a later one, is on the link, waits for it, or is due at the Ack timer.  *)
(* While the Ack timer runs no Ack is newer than lastAcked, so an Ack that *)
(* arrives never frees TLPs beyond it and the timer's Ack is never late.   *)
(***************************************************************************)
OnWay(o, s) ==
  \/ o.packet.kind = "DLLP" /\ s <= o.packet.seqNum
  \/ o.replayDLLP # NULL /\ s <= o.replayDLLP.seqNum
  \/ o.ackEvent = TRUE /\ o.lastAcked < s

Covered(k, o) ==
  k.buffer # <<>> => \A s \in Base(k) .. o.recvSeqNum - 1 : OnWay(o, s)

\* b is the oldest sequence number in the sender's replay buffer.
AckTimerIsSound(o, b) ==
  o.ackEvent = TRUE =>
    /\ o.lastAcked < o.recvSeqNum
    /\ b <= o.lastAcked + 1
    /\ o.packet.kind = "DLLP" => o.packet.seqNum <= o.lastAcked
    /\ o.replayDLLP # NULL => o.replayDLLP.seqNum <= o.lastAcked

\* The replay timer guards a TLP, and a replay has one to send that the
\* receiver, which expects r, has not got.
ReplayHasTLP(k, r) ==
  /\ k.timeoutEvent = TRUE => k.buffer # <<>>
  /\ k.retransmit = TRUE => r < Base(k) + Len(k.buffer)

AckPair(k, o) ==
  Covered(k, o) /\ AckTimerIsSound(o, Base(k)) /\ ReplayHasTLP(k, o.recvSeqNum)

AckInv == \A l \in Links : AckPair(link[l], link[Other(l)])

\* A sequence number that fits an int is acknowledged as it is.
LEMMA AckNumber ==
  ASSUME NEW r \in Nat, r > 0, r <= MaxTLPs, MaxTLPs <= IntMax + 1
  PROVE  /\ Pred(r) = r - 1
         /\ DataLinkPacket(Pred(r)).kind = "DLLP"
         /\ DataLinkPacket(Pred(r)).seqNum = r - 1
         /\ DataLinkPacket(Pred(r)) # NULL
<1>1. Pred(r) = r - 1
  BY DEF Pred
<1>2. ThroughInt(r - 1) = r - 1
  BY SizeAssumption DEF ThroughInt
<1> QED
  BY <1>1, <1>2 DEF DataLinkPacket, DLLP, NULL

LEMMA AckTypes ==
  ASSUME NEW o, LinkInv(o)
  PROVE  /\ o.packet.kind = "DLLP" => o.packet.seqNum \in Nat
         /\ o.replayDLLP # NULL => o.replayDLLP.seqNum \in Nat
                                   /\ o.replayDLLP.kind = "DLLP"
         /\ o.recvSeqNum \in Nat /\ o.recvSeqNum <= MaxTLPs
         /\ o.lastAcked \in Nat
<1>1. /\ o.packet \in TLPs \cup DLLPs \cup {NULL}
      /\ o.replayDLLP \in DLLPs \cup {NULL}
      /\ o.lastAcked \in Nat
  BY LinkTypes
<1>2. o.recvSeqNum \in 0 .. MaxTLPs
  BY DEF LinkInv, LinkState
<1> QED
  BY <1>1, <1>2, Kinds, SizeAssumption, SMTT(30), Z3T(30)

\* The receiver's Acks stay as they are.
SameAcks(o, m) ==
  /\ m.recvSeqNum = o.recvSeqNum
  /\ m.lastAcked = o.lastAcked
  /\ m.ackEvent = o.ackEvent
  /\ m.replayDLLP = o.replayDLLP
  /\ m.packet = o.packet \/ (o.packet.kind # "DLLP" /\ m.packet.kind # "DLLP")

LEMMA SameAcksIf ==
  ASSUME NEW o, NEW m, LinkInv(o), LinkInv(m)
  PROVE  /\ Retried(o, m) => SameAcks(o, m)
         /\ \A a : AckReceived(o, m, a) => SameAcks(o, m)
         /\ Replayed(o, m) => SameAcks(o, m)
<1>1. o.packet \in TLPs \cup DLLPs \cup {NULL} /\ o.buffer \in Seq(TLPs)
  BY LinkTypes
<1>2. o.packet = NULL => o.packet.kind # "DLLP"
  BY Kinds
<1>3. \A p \in TLPs : p.kind # "DLLP"
  BY Kinds
<1>4. o.buffer # <<>> => o.buffer[1] \in TLPs
  BY ONLY <1>1
<1>5. Retried(o, m) => SameAcks(o, m)
  BY <1>2, <1>3, Zenon DEF Retried, SameAcks, busy
<1>6. ASSUME NEW a, AckReceived(o, m, a)
      PROVE  SameAcks(o, m)
  BY <1>2, <1>3, <1>6, Zenon DEF AckReceived, SameAcks, busy
<1>7. Replayed(o, m) => SameAcks(o, m)
  BY <1>2, <1>3, <1>4, SMTT(30) DEF Replayed, SameAcks, busy
<1> QED
  BY ONLY <1>5, <1>6, <1>7, SMT, Z3T(30)

\* What a step does to the Acks for the interface that acts, and for the other.
LEMMA AckNext ==
  ASSUME ~MayRefuseFirst, MaxTLPs <= IntMax + 1
  PROVE  Inv /\ WaitsInv /\ FreshInv /\ NoLossInv /\ AckInv /\ Next => AckInv'
\* createAck covers every TLP received, the new one included.
<1>AckMadeCovers.
      ASSUME NEW o, NEW m, LinkInv(o), LinkInv(m), AckSound(o), AckSound(m),
             AckMade(o, m), MaxTLPs <= IntMax + 1,
             m.recvSeqNum = o.recvSeqNum \/ m.recvSeqNum = o.recvSeqNum + 1,
             NEW b \in Nat, b <= o.recvSeqNum, AckTimerIsSound(o, b)
      PROVE  /\ \A s \in Nat : s < m.recvSeqNum /\ (s < o.recvSeqNum => OnWay(o, s))
                                => OnWay(m, s)
             /\ AckTimerIsSound(m, b)
  <2> USE <1>AckMadeCovers
  <2> DEFINE q == m.recvSeqNum
             ack == DataLinkPacket(Pred(q))
  <2>1. /\ o.recvSeqNum \in Nat /\ q \in Nat /\ q <= MaxTLPs
        /\ o.lastAcked \in Nat
        /\ o.packet.kind = "DLLP" => o.packet.seqNum \in Nat
        /\ o.replayDLLP # NULL => o.replayDLLP.seqNum \in Nat
    BY AckTypes, Zenon
  <2>2. q > 0 => /\ Pred(q) = q - 1
                 /\ ack.kind = "DLLP"
                 /\ ack.seqNum = q - 1
                 /\ ack # NULL
    BY <2>1, AckNumber, Zenon
  <2>3. m.ackEvent = TRUE => q > 0
    BY DEF AckSound
  <2> HIDE DEF ack
  <2>4. CASE /\ o.ackEvent = TRUE
             /\ m.ackEvent = TRUE
             /\ m.packet = o.packet
             /\ m.replayDLLP = o.replayDLLP
             /\ m.lastAcked = o.lastAcked
    <3>1. /\ o.lastAcked < o.recvSeqNum
          /\ b <= o.lastAcked + 1
          /\ o.packet.kind = "DLLP" => o.packet.seqNum <= o.lastAcked
          /\ o.replayDLLP # NULL => o.replayDLLP.seqNum <= o.lastAcked
      BY <2>4, ZenonT(40) DEF AckTimerIsSound
    <3>2. AckTimerIsSound(m, b)
      BY <2>1, <2>4, <3>1, SMTT(30) DEF AckTimerIsSound
    <3>3. ASSUME NEW s \in Nat, s < q, s < o.recvSeqNum => OnWay(o, s)
          PROVE  OnWay(m, s)
      <4>1. CASE s < o.recvSeqNum
        BY <2>4, <3>3, <4>1, ZenonT(40) DEF OnWay
      <4>2. CASE s >= o.recvSeqNum
        BY <2>1, <2>4, <3>1, <4>2, SMTT(30) DEF OnWay
      <4> QED
        BY ONLY <2>1, <4>1, <4>2
    <3> QED
      BY ONLY <3>2, <3>3
  <2>5. CASE /\ m.ackEvent = TRUE
             /\ m.packet = o.packet
             /\ m.replayDLLP = ack
             /\ m.lastAcked = Pred(q)
    <3>1. o.packet.kind = "DLLP" => o.packet.seqNum < o.recvSeqNum
      BY ZenonT(40) DEF AckSound
    <3>2. AckTimerIsSound(m, b)
      BY <2>1, <2>2, <2>3, <2>5, <3>1, SMTT(30), Z3T(30) DEF AckTimerIsSound
    <3>3. \A s \in Nat : s < q => OnWay(m, s)
      BY <2>1, <2>2, <2>3, <2>5, SMTT(30), Z3T(30) DEF OnWay
    <3> QED
      BY ONLY <3>2, <3>3
  <2>6. CASE m.ackEvent = FALSE /\ m.packet = ack
    <3>1. AckTimerIsSound(m, b)
      BY <2>6, ZenonT(40) DEF AckTimerIsSound
    <3>2. \A s \in Nat : s < q => OnWay(m, s)
      BY <2>1, <2>2, <2>6, SMTT(30) DEF OnWay
    <3> QED
      BY <3>1, <3>2, Zenon
  <2> QED
    BY <2>4, <2>5, <2>6, ZenonT(40) DEF AckMade, ack

\* k's TLP p is through, and o has become m.
<1>CoveredTLP.
      ASSUME NEW k, NEW n, NEW o, NEW m, NEW ok \in BOOLEAN,
             LinkInv(k), LinkInv(n), LinkInv(o), LinkInv(m),
             busy(k), k.packet \in TLPs, TxFinished(k, n), Base(n) = Base(k),
             TLPReceived(o, m, k.packet, ok),
             Fresh(k, o.recvSeqNum), AckSound(o), AckSound(m),
             Base(k) <= o.recvSeqNum, MaxTLPs <= IntMax + 1,
             Covered(k, o), AckTimerIsSound(o, Base(k)), ReplayHasTLP(k, o.recvSeqNum)
      PROVE  /\ Covered(n, m)
             /\ AckTimerIsSound(m, Base(n))
             /\ ReplayHasTLP(n, m.recvSeqNum)
  <2> USE <1>CoveredTLP
  <2> DEFINE p == k.packet
             r == o.recvSeqNum
             q == m.recvSeqNum
             b == Base(k)
  <2>1. /\ r \in Nat /\ q \in Nat /\ b \in Nat
        /\ k.buffer \in Seq(TLPs) /\ Len(k.buffer) \in Nat
        /\ Len(n.buffer) \in Nat
        /\ k.retransmitIdx \in Nat
        /\ k.retransmit \in BOOLEAN
    BY LinkTypes, ZenonT(40)
  <2>2. p.kind = "TLP" /\ p.seqNum \in Nat /\ p # NULL
    BY Kinds, SizeAssumption
  <2>3. n.buffer = IF p = k.replayPacket THEN Append(k.buffer, p) ELSE k.buffer
    BY Zenon DEF TxFinished, Stored
  <2>4. \/ n.buffer = k.buffer /\ p # k.replayPacket
        \/ /\ Len(n.buffer) = Len(k.buffer) + 1
           /\ n.buffer # <<>>
           /\ p = k.replayPacket
           /\ p.seqNum = b + Len(k.buffer)
    <3>1. k.replayPacket # NULL => k.replayPacket.seqNum = b + Len(k.buffer)
      BY Numbering
    <3> QED
      BY ONLY <2>1, <2>2, <2>3, <3>1, SMT, Z3T(30)
  <2>5. \/ q = r + 1 /\ p.seqNum = r /\ AckMade(o, m)
        \/ q = r /\ AckMade(o, m)
        \/ m = o
    BY Zenon DEF TLPReceived
  <2>6. r <= p.seqNum
    BY <2>2, Zenon DEF Fresh
  <2>7. ASSUME n.buffer # <<>>, NEW s \in b .. r - 1
        PROVE  OnWay(o, s)
    <3>1. k.buffer # <<>>
      BY ONLY <2>1, <2>4, <2>6, <2>7, SMT, Z3T(30)
    <3> QED
      BY <2>7, <3>1, Zenon DEF Covered
  <2>8. Covered(n, m) /\ AckTimerIsSound(m, b)
    <3>1. CASE AckMade(o, m) /\ (q = r \/ q = r + 1)
      <4>1. /\ \A s \in Nat : s < q /\ (s < r => OnWay(o, s)) => OnWay(m, s)
            /\ AckTimerIsSound(m, b)
        BY <2>1, <3>1, <1>AckMadeCovers, Zenon
      <4>2. ASSUME n.buffer # <<>>, NEW s \in b .. q - 1
            PROVE  OnWay(m, s)
        <5>1. s \in Nat /\ s < q /\ (s < r => s \in b .. r - 1)
          BY ONLY <2>1, <4>2
        <5> QED
          BY ONLY <2>7, <4>1, <4>2, <5>1
      <4> QED
        BY <4>1, <4>2, Zenon DEF Covered
    <3>2. CASE m = o
      BY <2>7, <3>2, Zenon DEF Covered
    <3> QED
      BY ONLY <2>5, <3>1, <3>2
  <2>9. n.timeoutEvent = TRUE => n.buffer # <<>>
    <3>1. CASE p = k.replayPacket
      BY ONLY <2>4, <3>1
    <3>2. CASE p # k.replayPacket
      <4>1. n.buffer = k.buffer
        BY ONLY <2>4, <3>2
      <4>2. k.retransmit = TRUE => Len(k.buffer) > 0
        <5>1. k.retransmit = TRUE => r < b + Len(k.buffer)
          BY Zenon DEF ReplayHasTLP
        <5>2. b <= r
          BY ZenonT(40)
        <5> QED
          BY ONLY <2>1, <5>1, <5>2
      <4>3. n.timeoutEvent = TRUE => k.timeoutEvent = TRUE \/ k.retransmit = TRUE
        BY <2>1, <3>2, LinkTypes, SMTT(30), Z3T(30) DEF TxFinished
      <4> QED
        <5>1. k.timeoutEvent = TRUE => k.buffer # <<>>
          BY Zenon DEF ReplayHasTLP
        <5> QED
          BY ONLY <2>1, <4>1, <4>2, <4>3, <5>1
    <3> QED
      BY <3>1, <3>2, ZenonT(40)
  <2>10. ASSUME n.retransmit = TRUE
         PROVE  q < b + Len(n.buffer)
    <3>1. /\ k.retransmit = TRUE
          /\ k.retransmitIdx < Len(n.buffer)
          /\ r < b + Len(k.buffer)
      BY <2>10, ZenonT(40) DEF TxFinished, ReplayHasTLP
    <3>2. CASE q = r
      BY ONLY <2>1, <2>4, <3>1, <3>2, SMT, Z3T(30)
    <3>3. CASE q = r + 1 /\ p.seqNum = r
      <4>1. p # k.replayPacket
        BY <2>1, <2>2, <3>1, <3>3, SMTT(30), Z3T(30) DEF Fresh
      <4>2. n.buffer = k.buffer
        BY ONLY <2>4, <4>1
      <4> DEFINE i == k.retransmitIdx + 1
      <4>3. i \in k.retransmitIdx + 1 .. Len(k.buffer) /\ i \in 1 .. Len(k.buffer)
        BY ONLY <2>1, <3>1, <4>2
      <4>4. r < k.buffer[i].seqNum
        BY <2>2, <3>1, <3>3, <4>3, ZenonT(40) DEF Fresh
      <4>5. k.buffer[i].seqNum = b + i - 1
        <5>1. \A j \in 1 .. Len(k.buffer) : k.buffer[j].seqNum = b + j - 1
          BY Numbering
        <5> QED
          BY ONLY <4>3, <5>1, SMT, Z3T(30)
      <4> HIDE DEF i
      <4> QED
        BY ONLY <2>1, <3>3, <4>2, <4>3, <4>4, <4>5, SMT, Z3T(30)
    <3>4. q = r \/ (q = r + 1 /\ p.seqNum = r)
      BY ONLY <2>5
    <3> QED
      BY ONLY <3>2, <3>3, <3>4
  <2> QED
    BY <2>8, <2>9, <2>10, ZenonT(40) DEF ReplayHasTLP

<1>OnWaySame.
      ASSUME NEW o, NEW m, SameAcks(o, m)
      PROVE  /\ \A s : OnWay(o, s) => OnWay(m, s)
             /\ \A b : AckTimerIsSound(o, b) => AckTimerIsSound(m, b)
  BY <1>OnWaySame, Zenon DEF SameAcks, OnWay, AckTimerIsSound

<1>AckPairKept.
      ASSUME NEW k, NEW n, NEW o, NEW m, AckPair(k, o), SameAcks(o, m),
             Base(n) = Base(k), n.buffer = k.buffer,
             n.timeoutEvent = TRUE => n.buffer # <<>>,
             n.retransmit = TRUE => o.recvSeqNum < Base(k) + Len(k.buffer)
      PROVE  AckPair(n, m)
  <2> USE <1>AckPairKept
  <2>1. m.recvSeqNum = o.recvSeqNum
    BY Zenon DEF SameAcks
  <2>2. Covered(n, m)
    BY <2>1, <1>OnWaySame, Zenon DEF AckPair, Covered
  <2>3. AckTimerIsSound(m, Base(n))
    BY <1>OnWaySame, Zenon DEF AckPair
  <2>4. ReplayHasTLP(n, m.recvSeqNum)
    BY <2>1 DEF ReplayHasTLP
  <2> QED
    BY <2>2, <2>3, <2>4, Zenon DEF AckPair

\* o's packet is through: a DLLP that waited is on the link now.
<1>OnWayFinished.
      ASSUME NEW o, NEW m, LinkInv(o), LinkInv(m), TxFinished(o, m)
      PROVE  /\ \A s : OnWay(o, s)
                        /\ ~(o.packet.kind = "DLLP" /\ s <= o.packet.seqNum)
                       => OnWay(m, s)
             /\ \A b : AckTimerIsSound(o, b) => AckTimerIsSound(m, b)
  <2> USE <1>OnWayFinished
  <2>1. m.packet.kind = "DLLP" => m.packet = o.replayDLLP /\ o.replayDLLP # NULL
    <3>1. m.replayPacket \in TLPs \cup {NULL} /\ m.buffer = Stored(o)
      BY LinkTypes, Zenon DEF TxFinished
    <3>2. m.retransmit = TRUE => Stored(o)[o.retransmitIdx + 1] \in TLPs
      <4>1. m.buffer \in Seq(TLPs) /\ o.retransmitIdx \in Nat
        BY LinkTypes, SMTT(30)
      <4>2. m.retransmit = TRUE => o.retransmitIdx < Len(m.buffer)
        BY <3>1, Zenon DEF TxFinished
      <4> QED
        BY ONLY <3>1, <4>1, <4>2, SMT, Z3T(30)
    <3> QED
      BY <3>1, <3>2, Kinds, Zenon DEF TxFinished
  <2>2. o.replayDLLP # NULL => m.packet = o.replayDLLP /\ m.packet.kind = "DLLP"
    BY AckTypes, ZenonT(40) DEF TxFinished
  <2>3. /\ m.recvSeqNum = o.recvSeqNum
        /\ m.lastAcked = o.lastAcked
        /\ m.ackEvent = o.ackEvent
        /\ m.replayDLLP = NULL
    BY SMTT(30) DEF TxFinished
  <2> QED
    BY <2>1, <2>2, <2>3, Zenon DEF OnWay, AckTimerIsSound

\* o's DLLP is through, and k has become n.
<1>AckPairDLLP.
      ASSUME NEW k, NEW n, NEW o, NEW m,
             LinkInv(k), LinkInv(n), LinkInv(o), LinkInv(m), AckPair(k, o),
             o.packet \in DLLPs, TxFinished(o, m),
             AckReceived(k, n, o.packet.seqNum)
      PROVE  AckPair(n, m)
  <2> USE <1>AckPairDLLP
  <2> DEFINE a == o.packet.seqNum
  <2>1. /\ Base(k) \in Nat /\ Base(n) \in Nat /\ Len(k.buffer) \in Nat
        /\ Len(n.buffer) \in Nat
        /\ k.buffer \in Seq(TLPs) /\ n.buffer \in Seq(TLPs)
        /\ o.recvSeqNum \in Nat /\ o.lastAcked \in Nat
        /\ n.timeoutEvent \in BOOLEAN
    BY LinkTypes, ZenonT(40)
  <2>2. a \in Nat /\ o.packet.kind = "DLLP"
    BY Kinds, SizeAssumption, SMTT(30)
  <2>3. PICK i \in 0 .. Len(k.buffer) :
               /\ Len(n.buffer) = Len(k.buffer) - i
               /\ Base(n) = Base(k) + i
               /\ i > 0 => Base(n) <= a + 1
    BY Zenon DEF AckReceived
  <2>4. m.recvSeqNum = o.recvSeqNum
    BY Zenon DEF TxFinished
  <2>5. Covered(n, m)
    <3> SUFFICES ASSUME n.buffer # <<>>, NEW s \in Base(n) .. o.recvSeqNum - 1
                 PROVE  OnWay(m, s)
      BY <2>4, Zenon DEF Covered
    <3>1. k.buffer # <<>> /\ s \in Base(k) .. o.recvSeqNum - 1
      BY <2>1, <2>3, SMTT(30), Z3T(30)
    <3>2. OnWay(o, s)
      BY <3>1, Zenon DEF AckPair, Covered
    <3>3. Base(n) > a
      BY Zenon DEF AckReceived
    <3>4. ~(s <= a)
      BY ONLY <2>1, <2>2, <3>3, SMT, Z3T(30)
    <3> QED
      BY <3>2, <3>4, <1>OnWayFinished, Zenon
  <2>6. AckTimerIsSound(o, Base(n))
    BY <2>1, <2>2, <2>3, SMTT(30), Z3T(30) DEF AckPair, AckTimerIsSound
  <2>7. AckTimerIsSound(m, Base(n))
    BY <2>6, <1>OnWayFinished, ZenonT(40)
  <2>8. ReplayHasTLP(n, m.recvSeqNum)
    <3>1. n.retransmit = k.retransmit /\ (n.timeoutEvent <=> n.buffer # <<>>)
      BY Zenon DEF AckReceived
    <3> QED
      BY <2>1, <2>3, <2>4, <3>1, SMTT(30), Z3T(30) DEF AckPair, ReplayHasTLP
  <2> QED
    BY <2>5, <2>7, <2>8, Zenon DEF AckPair

\* o's TLP is through, and k has become n.
<1>AckPairTLP.
      ASSUME NEW k, NEW n, NEW o, NEW m, NEW ok, LinkInv(o), LinkInv(m),
             AckPair(k, o), o.packet \in TLPs, TxFinished(o, m),
             TLPReceived(k, n, o.packet, ok), Base(n) = Base(k)
      PROVE  AckPair(n, m)
  <2> USE <1>AckPairTLP
  <2>1. o.packet.kind # "DLLP"
    BY Kinds, Zenon
  <2>2. /\ n.buffer = k.buffer
        /\ n.retransmit = k.retransmit
        /\ n.timeoutEvent = k.timeoutEvent
    BY Zenon DEF TLPReceived, SameSending
  <2>3. m.recvSeqNum = o.recvSeqNum
    BY Zenon DEF TxFinished
  <2>4. Covered(n, m)
    BY <2>1, <2>2, <2>3, <1>OnWayFinished, Zenon DEF AckPair, Covered
  <2>5. AckTimerIsSound(m, Base(n))
    BY <1>OnWayFinished, Zenon DEF AckPair
  <2>6. ReplayHasTLP(n, m.recvSeqNum)
    BY <2>2, <2>3, Zenon DEF AckPair, ReplayHasTLP
  <2> QED
    BY <2>4, <2>5, <2>6, Zenon DEF AckPair

\* The Ack timer sends the Ack it stands for.
<1>AckTimedCovers.
      ASSUME NEW o, NEW m, LinkInv(o), AckSound(o), AckTimed(o, m),
             o.ackEvent = TRUE, MaxTLPs <= IntMax + 1,
             NEW b \in Nat, b <= o.recvSeqNum, AckTimerIsSound(o, b)
      PROVE  /\ \A s \in Nat : s < o.recvSeqNum /\ OnWay(o, s) => OnWay(m, s)
             /\ AckTimerIsSound(m, b)
  <2> USE <1>AckTimedCovers
  <2> DEFINE r == o.recvSeqNum
             ack == DataLinkPacket(Pred(r))
  <2>1. /\ r \in Nat /\ r <= MaxTLPs
        /\ o.lastAcked \in Nat
        /\ o.packet.kind = "DLLP" => o.packet.seqNum \in Nat
        /\ o.replayDLLP # NULL => o.replayDLLP.seqNum \in Nat
    BY AckTypes, ZenonT(40)
  <2>2. /\ r > 0
        /\ Pred(r) = r - 1
        /\ ack.kind = "DLLP"
        /\ ack.seqNum = r - 1
        /\ ack # NULL
    <3>1. r > 0
      BY ZenonT(40) DEF AckSound
    <3> QED
      BY <2>1, <3>1, AckNumber
  <2> HIDE DEF ack
  <2>3. m.recvSeqNum = r
    BY DEF AckTimed
  <2>4. CASE /\ o.lastAcked = Pred(r)
             /\ m.ackEvent = FALSE
             /\ m.packet = o.packet
             /\ m.replayDLLP = o.replayDLLP
    <3>1. AckTimerIsSound(m, b)
      BY <2>4, Zenon DEF AckTimerIsSound
    <3>2. \A s \in Nat : s < r /\ OnWay(o, s) => OnWay(m, s)
      BY <2>1, <2>2, <2>4, SMTT(30) DEF OnWay
    <3> QED
      BY ONLY <3>1, <3>2
  <2>5. CASE /\ m.ackEvent = o.ackEvent
             /\ m.lastAcked = Pred(r)
             /\ m.packet = IF busy(o) THEN o.packet ELSE ack
             /\ m.replayDLLP = IF busy(o) THEN ack ELSE o.replayDLLP
    <3>1. /\ o.packet.kind = "DLLP" => o.packet.seqNum < r
          /\ o.replayDLLP # NULL => o.replayDLLP.seqNum < r
      BY ZenonT(40) DEF AckSound
    <3>2. AckTimerIsSound(m, b)
      BY <2>1, <2>2, <2>3, <2>5, <3>1, SMTT(30), Z3T(30) DEF AckTimerIsSound
    <3>3. \A s \in Nat : s < r => OnWay(m, s)
      BY <2>1, <2>2, <2>5, SMTT(30), Z3T(30) DEF OnWay
    <3> QED
      BY ONLY <3>2, <3>3
  <2> QED
    BY <2>4, <2>5, ZenonT(40) DEF AckTimed, ack

<1>AckPairTimed.
      ASSUME NEW k, NEW o, NEW m, LinkInv(k), LinkInv(o), AckSound(o),
             AckPair(k, o), AckTimed(o, m), o.ackEvent = TRUE,
             Base(k) <= o.recvSeqNum, MaxTLPs <= IntMax + 1
      PROVE  AckPair(k, m)
  <2> USE <1>AckPairTimed
  <2>1. Base(k) \in Nat /\ o.recvSeqNum \in Nat
    BY LinkTypes, ZenonT(40)
  <2>2. m.recvSeqNum = o.recvSeqNum
    BY SMTT(30) DEF AckTimed
  <2>3. /\ \A s \in Nat : s < o.recvSeqNum /\ OnWay(o, s) => OnWay(m, s)
        /\ AckTimerIsSound(m, Base(k))
    BY <2>1, <1>AckTimedCovers, ZenonT(40) DEF AckPair
  <2>4. \A s \in Base(k) .. o.recvSeqNum - 1 : s \in Nat /\ s < o.recvSeqNum
    BY ONLY <2>1
  <2>5. Covered(k, m)
    BY <2>2, <2>3, <2>4, Zenon DEF AckPair, Covered
  <2> QED
    BY <2>2, <2>3, <2>5, Zenon DEF AckPair

<1> SUFFICES ASSUME Inv, WaitsInv, FreshInv, NoLossInv, AckInv, Next
             PROVE  AckInv'
  OBVIOUS
<1>1. Inv' /\ NoLossInv'
  BY InvNext, NoLossNext
<1>2. PICK l \in Links : Step(l)
  BY NextIs
<1> DEFINE i == Other(l)
           k == link[l]
           n == link'[l]
           o == link[i]
           m == link'[i]
<1>3. i \in Links /\ i # l /\ Other(i) = l /\ \A j \in Links : j = l \/ j = i
  BY LinksFacts
<1>4. /\ LinkInv(k) /\ LinkInv(o) /\ LinkInv(n) /\ LinkInv(m)
      /\ Fresh(k, o.recvSeqNum)
      /\ Base(k) <= o.recvSeqNum /\ Base(o) <= k.recvSeqNum
      /\ AckSound(k) /\ AckSound(o) /\ AckSound(m)
      /\ AckPair(k, o) /\ AckPair(o, k)
  BY <1>1, <1>3, ZenonT(40) DEF Inv, FreshInv, NoLossInv, Retains, AckInv
<1>5. SUFFICES AckPair(n, m) /\ AckPair(m, n)
  BY <1>3, SMTT(30), Z3T(30) DEF AckInv
<1>6. SameAcks(o, o) /\ SameAcks(k, k)
  BY SMTT(30) DEF SameAcks
<1>7. /\ k.timeoutEvent = TRUE => k.buffer # <<>>
      /\ k.retransmit = TRUE => o.recvSeqNum < Base(k) + Len(k.buffer)
      /\ o.timeoutEvent = TRUE => o.buffer # <<>>
      /\ o.retransmit = TRUE => k.recvSeqNum < Base(o) + Len(o.buffer)
  BY <1>4, ZenonT(40) DEF AckPair, ReplayHasTLP
<1>8. /\ Base(k) \in Nat /\ o.recvSeqNum \in Nat /\ Len(k.buffer) \in Nat
      /\ k.buffer \in Seq(TLPs)
      /\ k.retransmit \in BOOLEAN /\ k.timeoutEvent \in BOOLEAN
      /\ n.timeoutEvent \in BOOLEAN /\ k.ackEvent \in BOOLEAN
  BY <1>4, LinkTypes, Zenon
<1> HIDE DEF k, n, o, m
<1>9. CASE Retried(k, n) /\ Base(n) = Base(k) /\ m = o
  <2>1. /\ n.buffer = k.buffer
        /\ n.retransmit = k.retransmit
        /\ n.timeoutEvent = k.timeoutEvent
    BY <1>9, ZenonT(40) DEF Retried
  <2>2. SameAcks(k, n)
    BY <1>4, <1>9, SameAcksIf, SMTT(30), Z3T(30)
  <2>3. AckPair(n, o)
    BY <1>4, <1>6, <1>7, <1>9, <2>1, <1>AckPairKept, ZenonT(40)
  <2>4. AckPair(o, n)
    BY <1>4, <1>7, <2>2, <1>AckPairKept, ZenonT(40)
  <2> QED
    BY ONLY <1>9, <2>3, <2>4, SMT, Z3T(30)
<1>10. CASE /\ TxFinished(k, n) /\ Base(n) = Base(k)
            /\ k.packet \in TLPs
            /\ Base(m) = Base(o)
            /\ \E ok \in BOOLEAN : TLPReceived(o, m, k.packet, ok)
  <2>1. PICK ok \in BOOLEAN : TLPReceived(o, m, k.packet, ok)
    BY <1>10
  <2>2. AckPair(n, m)
    BY <1>4, <1>10, <2>1, <1>CoveredTLP, Kinds, ZenonT(40) DEF AckPair, busy
  <2>3. AckPair(m, n)
    BY ONLY <1>4, <1>10, <2>1, <1>AckPairTLP, SMT, Z3T(30)
  <2> QED
    BY ONLY <2>2, <2>3, SMT, Z3T(30)
<1>11. CASE /\ TxFinished(k, n) /\ Base(n) = Base(k)
            /\ k.packet \in DLLPs /\ AckReceived(o, m, k.packet.seqNum)
  <2>1. k.packet # k.replayPacket
    BY <1>4, <1>11, LinkTypes, Kinds, ZenonT(40)
  <2>2. n.buffer = k.buffer
    BY <1>11, <2>1, Zenon DEF TxFinished, Stored
  <2>3. n.timeoutEvent = TRUE => n.buffer # <<>>
    <3>1. k.retransmit = TRUE => Len(k.buffer) > 0
      BY ONLY <1>4, <1>7, <1>8
    <3>2. n.timeoutEvent = TRUE => k.timeoutEvent = TRUE \/ k.retransmit = TRUE
      BY <1>8, <1>11, <2>1, ZenonT(40) DEF TxFinished
    <3> QED
      BY ONLY <1>7, <1>8, <2>2, <3>1, <3>2, SMT, Z3T(30)
  <2>4. n.retransmit = TRUE => k.retransmit = TRUE
    BY <1>11, SMTT(30), Z3T(30) DEF TxFinished
  <2>5. SameAcks(o, m)
    BY <1>4, <1>11, SameAcksIf, SMTT(30)
  <2>6. AckPair(n, m)
    BY <1>4, <1>7, <1>11, <2>2, <2>3, <2>4, <2>5, <1>AckPairKept, ZenonT(40)
  <2>7. AckPair(m, n)
    BY <1>4, <1>11, <1>AckPairDLLP, ZenonT(40)
  <2> QED
    BY <2>6, <2>7, SMTT(30), Z3T(30)
<1>12. CASE TimerIsLate(l) /\ Replayed(k, n) /\ Base(n) = Base(k) /\ m = o
  <2>1. n.buffer = k.buffer /\ n.timeoutEvent = FALSE
    BY <1>12, SMTT(30) DEF Replayed
  <2>2. n.retransmit = TRUE => o.recvSeqNum < Base(k) + Len(k.buffer)
    <3>1. CASE k.retransmit = TRUE
      BY ONLY <1>7, <3>1, SMT, Z3T(30)
    <3>2. CASE k.retransmit = FALSE /\ n.retransmit = TRUE
      <4>1. k.buffer # <<>>
        BY <1>12, <3>2, ZenonT(40) DEF Replayed
      <4>2. k.buffer[1].seqNum = Base(k) /\ Len(k.buffer) > 0
        BY <1>4, <1>8, <4>1, Numbering, SMTT(30), Z3T(30)
      <4>3. o.recvSeqNum <= k.buffer[1].seqNum
        BY <1>8, <1>12, <3>2, <4>1, SMTT(30), Z3T(30) DEF TimerIsLate, k, o
      <4> QED
        BY ONLY <1>8, <4>2, <4>3
    <3> QED
      BY <1>8, <3>1, <3>2, ZenonT(40)
  <2>3. SameAcks(k, n)
    BY <1>4, <1>12, SameAcksIf, SMTT(30)
  <2>4. AckPair(n, o)
    BY <1>4, <1>6, <1>12, <2>1, <2>2, <1>AckPairKept, ZenonT(40)
  <2>5. AckPair(o, n)
    BY <1>4, <1>7, <2>3, <1>AckPairKept, Zenon
  <2> QED
    BY ONLY <1>12, <2>4, <2>5, SMT, Z3T(30)
<1>13. CASE k.ackEvent /\ AckTimed(k, n) /\ Base(n) = Base(k) /\ m = o
  <2>1. /\ n.buffer = k.buffer
        /\ n.retransmit = k.retransmit
        /\ n.timeoutEvent = k.timeoutEvent
    BY <1>13, SMTT(30) DEF AckTimed, SameSending
  <2>2. AckPair(n, o)
    BY <1>4, <1>6, <1>7, <1>13, <2>1, <1>AckPairKept, Zenon
  <2>3. AckPair(o, n)
    BY <1>4, <1>8, <1>13, <1>AckPairTimed, ZenonT(40)
  <2> QED
    BY ONLY <1>13, <2>2, <2>3, SMT, Z3T(30)
<1> QED
  BY <1>2, <1>9, <1>10, <1>11, <1>12, <1>13, ZenonT(40)
     DEF Step, Offers, SendsTLP, SendsDLLP, TimesOut, TimesAck, k, n, o, m

LEMMA AckInit == Init => AckInv
BY SMT, Z3T(30) DEF Init, NewLink, AckInv, AckPair, Covered, AckTimerIsSound, ReplayHasTLP,
       Links, Other

LEMMA AckImplies ==
  ASSUME Inv, NoLossInv, AckInv, MaxTLPs <= IntMax + 1
  PROVE  AckIsOnItsWay
<1> SUFFICES ASSUME NEW l \in Links,
                    link[l].buffer # <<>>,
                    Head(link[l].buffer).seqNum < link[Other(l)].recvSeqNum
             PROVE  LET o == link[Other(l)]
                        Covers(p) == p.kind = "DLLP" /\ p.seqNum >= o.recvSeqNum - 1
                    IN  \/ Covers(o.packet)
                        \/ Covers(o.replayDLLP)
                        \/ o.ackEvent /\ o.lastAcked # Pred(o.recvSeqNum)
  BY SMTT(30) DEF AckIsOnItsWay
<1> DEFINE k == link[l]
           o == link[Other(l)]
           r == o.recvSeqNum
<1>1. LinkInv(k) /\ LinkInv(o) /\ AckPair(k, o)
  BY LinksFacts, Zenon DEF Inv, AckInv
<1>2. /\ Base(k) \in Nat /\ r \in Nat /\ r <= MaxTLPs /\ k.buffer \in Seq(TLPs)
      /\ Len(k.buffer) \in Nat
      /\ o.packet.kind = "DLLP" => o.packet.seqNum \in Nat
      /\ o.replayDLLP # NULL => o.replayDLLP.seqNum \in Nat
                                /\ o.replayDLLP.kind = "DLLP"
      /\ o.lastAcked \in Nat
  BY <1>1, LinkTypes, AckTypes, Zenon
<1> HIDE DEF k, o
<1>3. k.buffer # <<>> /\ k.buffer[1].seqNum = Base(k) /\ k.buffer[1].seqNum < r
  <2>1. k.buffer # <<>> /\ Head(k.buffer).seqNum < r
    BY Zenon DEF k, o
  <2>2. Head(k.buffer) = k.buffer[1] /\ Len(k.buffer) > 0
    BY ONLY <1>2, <2>1, SMT, Z3T(30)
  <2>3. k.buffer[1].seqNum = Base(k) + 1 - 1
    BY <1>1, <1>2, <2>2, Numbering, SMTT(30)
  <2> QED
    BY ONLY <1>2, <2>1, <2>2, <2>3
<1>4. OnWay(o, r - 1)
  <2>1. r - 1 \in Base(k) .. r - 1
    BY ONLY <1>2, <1>3
  <2> QED
    BY <1>1, <1>3, <2>1, Zenon DEF AckPair, Covered
<1>5. Pred(r) = r - 1
  BY <1>2, <1>3 DEF Pred
<1> QED
  BY <1>2, <1>4, <1>5, SMTT(30), Z3T(30) DEF OnWay, o

(***************************************************************************)
(* All of it, as one inductive invariant.                                  *)
(***************************************************************************)
ScheduleInv ==
  Inv /\ WaitsInv /\ ScheduledInv /\ FreshInv /\ NoLossInv /\ AckInv

LEMMA ScheduleInvInit == Init => ScheduleInv
BY InvInit, ScheduledInit, FreshInit, NoLossInit, AckInit, SMTT(30) DEF ScheduleInv

LEMMA ScheduleInvNext ==
  ASSUME ~MayRefuseFirst, MaxTLPs <= IntMax + 1, ScheduleInv, [Next]_vars
  PROVE  ScheduleInv'
<1>1. (Inv /\ WaitsInv /\ ScheduledInv /\ FreshInv /\ NoLossInv)'
  BY InvNext, ScheduledNext, FreshNext, NoLossNext, SMTT(30) DEF ScheduleInv
<1>2. AckInv'
  <2>1. CASE UNCHANGED vars
    BY <2>1 DEF AckInv, vars, ScheduleInv
  <2>2. CASE Next
    BY <2>2, AckNext DEF ScheduleInv
  <2> QED
    BY <2>1, <2>2, SMTT(30)
<1> QED
  BY <1>1, <1>2 DEF ScheduleInv

\* A TLP that was received and is still in the replay buffer has an Ack on the
\* link, waiting for it, or due at the Ack timer, if no device refuses the
\* first TLP it is sent and sequence numbers fit an int.
THEOREM AcksAreOnTheirWay ==
  ASSUME ~MayRefuseFirst, MaxTLPs <= IntMax + 1
  PROVE  Spec => []AckIsOnItsWay
<1>1. Init => ScheduleInv
  BY ScheduleInvInit
<1>2. ScheduleInv /\ [Next]_vars => ScheduleInv'
  BY ScheduleInvNext
<1>3. ScheduleInv => AckIsOnItsWay
  BY AckImplies DEF ScheduleInv
<1> QED
  BY <1>1, <1>2, <1>3, PTL DEF Spec
=============================================================================
