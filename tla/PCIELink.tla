------------------------------ MODULE PCIELink ------------------------------
(***************************************************************************)
(* The PCI Express link of src/gem5/src/mem/pcie_link.{cc,hh}: two link    *)
(* interfaces, links[0] (down_link) and links[1] (up_link), each with a    *)
(* device on its side and a unidirectional link to the other.  An          *)
(* interface numbers the gem5 packets (TLPs) it sends, keeps them in a     *)
(* replay buffer until an Ack DLLP names them, and replays the buffer when *)
(* its replay timer expires.                                               *)
(*                                                                         *)
(* An interface is a record k, and each operator on k is one C++ function: *)
(* it takes the interface before the call to the interface after it.  The  *)
(* simulator runs one event at a time, so an action is one event handler   *)
(* with every call it makes, the callbacks into the devices included.      *)
(*                                                                         *)
(* The model follows the shipped configuration, linkDelay = 0.  An event   *)
(* is a Boolean that says whether it is scheduled; doneEvent is scheduled  *)
(* exactly while packet # NULL and has no field of its own.                *)
(***************************************************************************)
EXTENDS Integers, Sequences

CONSTANTS
  Req, Resp,        \* the gem5 request and response packets devices send
  NoPkt,            \* "no gem5 packet"
  MaxQueueSize,     \* maxQueueSize, the capacity of the replay buffer
  MaxTLPs,          \* bound: gem5 packets each device offers in a behaviour
  IntMax,           \* 2^31 - 1, the largest C++ int
  UInt64Max,        \* 2^64 - 1, the largest sequence number
  MayRefuseFirst    \* may a device refuse the first TLP it is ever sent?

Pkt == Req \cup Resp

ASSUME PktAssumption ==
  /\ Req \cap Resp = {}
  /\ NoPkt \notin Pkt

ASSUME SizeAssumption ==
  /\ MaxQueueSize \in Nat \ {0}
  /\ MaxTLPs \in Nat
  /\ IntMax \in Nat
  /\ UInt64Max \in Nat
  /\ 2 * IntMax + 1 <= UInt64Max
  /\ MaxTLPs <= UInt64Max
  /\ MayRefuseFirst \in BOOLEAN

\* The width of an int divides the width of a uint64_t.
ASSUME WidthAssumption == (UInt64Max + 1) % (2 * (IntMax + 1)) = 0

VARIABLE link       \* link[l] is links[l] together with the device on its side

vars == <<link>>

Links == {0, 1}
Other(l) == 1 - l

Class == {"req", "resp"}
ClassOf(pkt) == IF pkt \in Resp THEN "resp" ELSE "req"

(***************************************************************************)
(* What travels on a unidirectional link.  The sequence number of an Ack   *)
(* goes through the int parameter of DataLinkPacket's constructor and back *)
(* to uint64_t: past IntMax it is truncated and sign-extended.             *)
(***************************************************************************)
NULL == [kind |-> "NULL"]
TLP(n, pkt) == [kind |-> "TLP", seqNum |-> n, pkt |-> pkt]
DLLP(n) == [kind |-> "DLLP", seqNum |-> n]

TLPs == [kind: {"TLP"}, seqNum: 0 .. UInt64Max, pkt: Pkt]
DLLPs == [kind: {"DLLP"}, seqNum: 0 .. UInt64Max]

\* n - 1 in uint64_t.
Pred(n) == IF n = 0 THEN UInt64Max ELSE n - 1

\* A uint64_t passed as an int and stored in a uint64_t.
ThroughInt(n) ==
  LET i == n % (2 * (IntMax + 1))
  IN  IF n <= IntMax THEN n
      ELSE IF i <= IntMax THEN i
      ELSE UInt64Max - (2 * IntMax + 1 - i)

DataLinkPacket(n) == DLLP(ThroughInt(n))

(***************************************************************************)
(* A link interface.  held, sent and rcvd belong to the device: the packet *)
(* of each class the interface refused and the device waits to re-offer,   *)
(* the packets the interface accepted, and the packets the device took     *)
(* from it, in order.                                                      *)
(***************************************************************************)
NewLink ==
  [packet |-> NULL, buffer |-> <<>>, sendSeqNum |-> 0, recvSeqNum |-> 0,
   lastAcked |-> 0, retry |-> {}, replayPacket |-> NULL, replayDLLP |-> NULL,
   retransmit |-> FALSE, retransmitIdx |-> 0, timeoutEvent |-> FALSE,
   ackEvent |-> FALSE, held |-> [c \in Class |-> NoPkt],
   sent |-> <<>>, rcvd |-> <<>>]

Init == link = [l \in Links |-> NewLink]

busy(k) == k.packet # NULL

transmit(k, p) == IF busy(k) THEN k ELSE [k EXCEPT !.packet = p]

\* ReplayBuffer::pushBack drops the packet when the buffer is full.
pushBack(buffer, p) ==
  IF Len(buffer) >= MaxQueueSize THEN buffer ELSE Append(buffer, p)

\* The number of entries the Ack loop pops from the front.
AckedPrefix(buffer, n) ==
  CHOOSE i \in 0 .. Len(buffer) :
    /\ \A j \in 1 .. i : buffer[j].seqNum <= n
    /\ i < Len(buffer) => buffer[i + 1].seqNum > n

\* MUTANT: one TLP more than the Ack names is freed.
popAckedOneMore(buffer, n) ==
  LET i == AckedPrefix(buffer, n)
  IN  IF i = 0 THEN buffer ELSE SubSeq(buffer, i + 2, Len(buffer))

popAcked(buffer, n) ==
  SubSeq(buffer, AckedPrefix(buffer, n) + 1, Len(buffer))

(***************************************************************************)
(* From the device to the link.                                            *)
(***************************************************************************)
MustWait(k) ==
  k.replayPacket # NULL \/ Len(k.buffer) >= MaxQueueSize \/ k.retransmit

\* recvTimingReq and recvTimingResp both come here with their packet.
linkTransmitInterface(k, pkt) ==
  LET c == ClassOf(pkt)
      tlp == TLP(k.sendSeqNum, pkt)
  IN  IF MustWait(k)
      THEN [k EXCEPT !.retry = @ \cup {c}, !.held[c] = pkt]
      ELSE [transmit(k, tlp) EXCEPT
              !.replayPacket = tlp, !.sendSeqNum = @ + 1,
              !.held[c] = NoPkt, !.sent = Append(@, pkt)]

\* sendRetryReq / sendRetryResp: the device re-offers, before the call
\* returns, the packet that was refused.
sendRetry(k, c) ==
  LET k1 == [k EXCEPT !.retry = @ \ {c}]
  IN  IF c \notin k.retry THEN k
      ELSE IF k.held[c] = NoPkt THEN k1
      ELSE linkTransmitInterface(k1, k.held[c])

sendRetries(k) == sendRetry(sendRetry(k, "req"), "resp")

(***************************************************************************)
(* From the link to the device: linkReceiveInterface.  ok is the answer of *)
(* the device to sendTimingReq or sendTimingResp.                          *)
(***************************************************************************)
\* MUTANT: an Ack that finds the link busy is not kept.
createAckNotKept(k) ==
  LET ack == DataLinkPacket(Pred(k.recvSeqNum))
  IN  IF k.ackEvent THEN k
      ELSE IF busy(k)
      THEN [k EXCEPT !.lastAcked = Pred(k.recvSeqNum), !.ackEvent = TRUE]
      ELSE transmit(k, ack)

createAck(k) ==
  LET ack == DataLinkPacket(Pred(k.recvSeqNum))
  IN  IF k.ackEvent THEN k
      ELSE IF busy(k)
      THEN [k EXCEPT !.replayDLLP = ack, !.lastAcked = Pred(k.recvSeqNum),
                     !.ackEvent = TRUE]
      ELSE transmit(k, ack)

\* MUTANT: the sequence number is not compared with recvSeqNum.
receiveTLPAnyOrder(k, p, ok) ==
  IF ~ok THEN k
  ELSE createAck([k EXCEPT !.recvSeqNum = @ + 1, !.rcvd = Append(@, p.pkt)])

\* Refused: no Ack, the TLP is dropped and left to the replay timer.
receiveTLP(k, p, ok) ==
  IF p.seqNum # k.recvSeqNum THEN createAck(k)
  ELSE IF ~ok THEN k
  ELSE createAck([k EXCEPT !.recvSeqNum = @ + 1, !.rcvd = Append(@, p.pkt)])

\* MUTANT: the replay timer is not restarted for the TLPs that stay.
receiveDLLPNoRestart(k, p) ==
  sendRetries([k EXCEPT !.buffer = popAcked(k.buffer, p.seqNum),
                        !.timeoutEvent = FALSE])

\* MUTANT: an Ack that makes room in the buffer retries nobody.
receiveDLLPNoRetry(k, p) ==
  LET rest == popAcked(k.buffer, p.seqNum)
  IN  [k EXCEPT !.buffer = rest, !.timeoutEvent = rest # <<>>]

receiveDLLP(k, p) ==
  LET rest == popAcked(k.buffer, p.seqNum)
  IN  sendRetries([k EXCEPT !.buffer = rest, !.timeoutEvent = rest # <<>>])

linkReceiveInterface(k, p, ok) ==
  IF p.kind = "TLP" THEN receiveTLP(k, p, ok) ELSE receiveDLLP(k, p)

(***************************************************************************)
(* txDone, after the packet has been handed to the other interface.        *)
(***************************************************************************)
sendReplayDLLP(k) ==
  IF k.replayDLLP = NULL THEN k
  ELSE [transmit(k, k.replayDLLP) EXCEPT !.replayDLLP = NULL]

storeTLP(k, p) ==
  IF p # k.replayPacket THEN k
  ELSE sendRetries([k EXCEPT !.buffer = pushBack(@, p),
                             !.replayPacket = NULL, !.timeoutEvent = TRUE])

sendReplayPacket(k) ==
  IF k.replayPacket = NULL THEN k ELSE transmit(k, k.replayPacket)

\* MUTANT: retransmit is not reset when the replay is over.
retransmitNextNoReset(k) ==
  IF k.retransmitIdx >= Len(k.buffer)
  THEN sendReplayPacket(sendRetries([k EXCEPT !.timeoutEvent = TRUE]))
  ELSE [transmit(k, k.buffer[k.retransmitIdx + 1]) EXCEPT
          !.retransmitIdx = @ + 1, !.timeoutEvent = TRUE]

\* The index moves on even when a DLLP holds the link and transmit fails.
retransmitNext(k) ==
  IF k.retransmitIdx >= Len(k.buffer)
  THEN sendReplayPacket(sendRetries(
         [k EXCEPT !.retransmitIdx = 0, !.retransmit = FALSE,
                   !.timeoutEvent = TRUE]))
  ELSE [transmit(k, k.buffer[k.retransmitIdx + 1]) EXCEPT
          !.retransmitIdx = @ + 1, !.timeoutEvent = TRUE]

finishTx(k) ==
  LET k1 == sendReplayDLLP([k EXCEPT !.packet = NULL])
      k2 == storeTLP(k1, k.packet)
  IN  IF k2.retransmit THEN retransmitNext(k2) ELSE sendReplayPacket(k2)

(***************************************************************************)
(* The timers.                                                             *)
(***************************************************************************)
\* MUTANT: the replay starts again with the TLP that was just sent.
replayFromZero(k) ==
  LET k1 == [k EXCEPT !.timeoutEvent = FALSE]
  IN  IF k.buffer = <<>> \/ k.retransmit THEN k1
      ELSE [transmit(k1, Head(k.buffer)) EXCEPT
              !.retransmit = TRUE, !.retransmitIdx = 0]

replay(k) ==
  LET k1 == [k EXCEPT !.timeoutEvent = FALSE]
  IN  IF k.buffer = <<>> \/ k.retransmit THEN k1
      ELSE [transmit(k1, Head(k.buffer)) EXCEPT
              !.retransmit = TRUE, !.retransmitIdx = IF busy(k) THEN 0 ELSE 1]

ackTimer(k) ==
  LET ack == DataLinkPacket(Pred(k.recvSeqNum))
      k1 == [k EXCEPT !.lastAcked = Pred(k.recvSeqNum)]
  IN  IF k.lastAcked = Pred(k.recvSeqNum) THEN [k EXCEPT !.ackEvent = FALSE]
      ELSE IF busy(k) THEN [k1 EXCEPT !.replayDLLP = ack]
      ELSE transmit(k1, ack)

(***************************************************************************)
(* The actions: a device offers a packet, or an event of an interface is   *)
(* processed.                                                              *)
(***************************************************************************)
Offered(k) ==
  k.sendSeqNum + (IF k.held["req"] = NoPkt THEN 0 ELSE 1)
               + (IF k.held["resp"] = NoPkt THEN 0 ELSE 1)

\* A device that was refused waits for the retry of that class.
Offer(l, pkt) ==
  /\ Offered(link[l]) < MaxTLPs
  /\ link[l].held[ClassOf(pkt)] = NoPkt
  /\ link' = [link EXCEPT ![l] = linkTransmitInterface(@, pkt)]

MayAnswer(k, ok) == ok \/ k.recvSeqNum > 0 \/ MayRefuseFirst

txDone(l, ok) ==
  LET o == Other(l)
  IN  /\ busy(link[l])
      /\ MayAnswer(link[o], ok)
      /\ link' = [link EXCEPT
                    ![o] = linkReceiveInterface(@, link[l].packet, ok),
                    ![l] = finishTx(@)]

timeoutFunc(l) ==
  /\ link[l].timeoutEvent
  /\ link' = [link EXCEPT ![l] = replay(@)]

sendAck(l) ==
  /\ link[l].ackEvent
  /\ link' = [link EXCEPT ![l] = ackTimer(@)]

(***************************************************************************)
(* retryTime exceeds the time an Ack can take, so when the replay timer    *)
(* expires the oldest TLP it guards has not been received.  This module    *)
(* has no clock and takes that as a guard; PCIELinkTimed has the clock and *)
(* implements this module.                                                 *)
(***************************************************************************)
TimerIsLate(l) ==
  link[l].buffer # <<>> /\ ~link[l].retransmit =>
    link[Other(l)].recvSeqNum <= Head(link[l].buffer).seqNum

Next ==
  \E l \in Links :
    \/ \E pkt \in Pkt : Offer(l, pkt)
    \/ \E ok \in BOOLEAN : txDone(l, ok)
    \/ TimerIsLate(l) /\ timeoutFunc(l)
    \/ sendAck(l)

Spec == Init /\ [][Next]_vars

(***************************************************************************)
(* Properties.                                                             *)
(***************************************************************************)

LinkState ==
  [packet: TLPs \cup DLLPs \cup {NULL}, buffer: Seq(TLPs),
   sendSeqNum: 0 .. MaxTLPs, recvSeqNum: 0 .. MaxTLPs,
   lastAcked: 0 .. UInt64Max, retry: SUBSET Class,
   replayPacket: TLPs \cup {NULL}, replayDLLP: DLLPs \cup {NULL},
   retransmit: BOOLEAN, retransmitIdx: Nat, timeoutEvent: BOOLEAN,
   ackEvent: BOOLEAN, held: [Class -> Pkt \cup {NoPkt}],
   sent: Seq(Pkt), rcvd: Seq(Pkt)]

\* Every field of an interface keeps its type, no sequence number leaves the
\* range of the packets offered, and the replay buffer, which pushBack bounds,
\* never exceeds maxQueueSize.
TypeOK ==
  /\ link \in [Links -> LinkState]
  /\ \A l \in Links : Len(link[l].buffer) <= MaxQueueSize

Retained(k) == {k.buffer[i].seqNum : i \in 1 .. Len(k.buffer)}
                 \cup (IF k.replayPacket = NULL THEN {}
                       ELSE {k.replayPacket.seqNum})

\* The check of seqNum against recvSeqNum: whatever is replayed, reordered by
\* a skipped index or refused, a device receives exactly the packets the
\* other interface accepted, in that order, each once.
InOrder ==
  \A l \in Links :
    LET sent == link[l].sent
        rcvd == link[Other(l)].rcvd
    IN  Len(rcvd) <= Len(sent) /\ rcvd = SubSeq(sent, 1, Len(rcvd))

\* The Ack loop of linkReceiveInterface and pushBack: a TLP leaves the replay
\* buffer only after the other device took it.  Until then it is in the
\* buffer, or is the TLP on its way there.
NothingLost ==
  \A l \in Links :
    link[Other(l)].recvSeqNum .. link[l].sendSeqNum - 1 \subseteq Retained(link[l])

\* A TLP on the link has not been received yet.  linkReceiveInterface leaves
\* the gem5 packet of a received TLP to the device, which may delete it, and
\* deletes an acknowledged PCIELinkPacket: transmit and txDone read neither
\* after that.
OnlyUnreceivedOnLink ==
  \A l \in Links :
    link[l].packet.kind = "TLP" =>
      link[l].packet.seqNum >= link[Other(l)].recvSeqNum

\* The retries of txDone and linkReceiveInterface: a device waits for a retry
\* only at an interface that has promised it one and would refuse it now.
NoStrandedDevice ==
  \A l \in Links, c \in Class :
    link[l].held[c] # NoPkt => c \in link[l].retry /\ MustWait(link[l])

\* Whatever an interface still has to do, an event is scheduled that does it:
\* txDone for a TLP, a DLLP or a replay that waits for the link, the replay
\* timer for TLPs that nobody is replaying.
WorkIsScheduled ==
  \A l \in Links :
    LET k == link[l]
    IN  /\ k.replayPacket # NULL \/ k.replayDLLP # NULL \/ k.retransmit => busy(k)
        /\ k.buffer # <<>> /\ ~k.retransmit => k.timeoutEvent

\* createAck skips the Ack while ackEvent is scheduled, and sendAck when
\* lastAcked is current: a received TLP that is still in the replay buffer
\* nevertheless has an Ack on the link, waiting for it, or due at the timer.
AckIsOnItsWay ==
  \A l \in Links :
    LET k == link[l]
        o == link[Other(l)]
        Covers(p) == p.kind = "DLLP" /\ p.seqNum >= o.recvSeqNum - 1
    IN  k.buffer # <<>> /\ Head(k.buffer).seqNum < o.recvSeqNum =>
          \/ Covers(o.packet)
          \/ Covers(o.replayDLLP)
          \/ o.ackEvent /\ o.lastAcked # Pred(o.recvSeqNum)

(***************************************************************************)
(* Liveness.  The event queue processes every scheduled event, and a       *)
(* device that is offered its next TLP again and again takes it in the     *)
(* end, as a PciBridge does whose queue drains.                            *)
(***************************************************************************)
Deliver(l) ==
  /\ link[l].packet.kind = "TLP"
  /\ link[l].packet.seqNum = link[Other(l)].recvSeqNum
  /\ txDone(l, TRUE)

Fairness ==
  \A l \in Links :
    /\ WF_vars(\E ok \in BOOLEAN : txDone(l, ok))
    /\ WF_vars(TimerIsLate(l) /\ timeoutFunc(l))
    /\ WF_vars(sendAck(l))
    /\ SF_vars(Deliver(l))

LiveSpec == Spec /\ Fairness

\* Refusals, replays and skipped indices only delay: every packet a device
\* offers is accepted by its interface, and every packet an interface
\* accepts reaches the other device.
EveryPacketArrives ==
  \A l \in Links :
    /\ \A c \in Class : link[l].held[c] # NoPkt ~> link[l].held[c] = NoPkt
    /\ \A n \in 1 .. MaxTLPs :
         Len(link[l].sent) >= n ~> Len(link[Other(l)].rcvd) >= n

\* A PCIELink implements a bounded FIFO channel in each direction: the Ack,
\* the replay buffer, the timers and the retries are invisible to the devices.
Channel == INSTANCE ReliableLink WITH
  Packets <- Pkt, Capacity <- MaxQueueSize,
  sent <- [l \in Links |-> link[l].sent],
  rcvd <- [l \in Links |-> link[l].rcvd]

ImplementsChannel == Channel!FifoSpec
=============================================================================
