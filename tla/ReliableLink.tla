---------------------------- MODULE ReliableLink ----------------------------
(***************************************************************************)
(* What a PCIELink promises the devices on its two sides: a bounded FIFO   *)
(* channel each way.  A packet that is accepted is delivered once, after   *)
(* the packets accepted before it and before those accepted after it, and  *)
(* at most Capacity accepted packets are undelivered.  One simulator event *)
(* may accept a packet on each side and deliver one.                       *)
(***************************************************************************)
EXTENDS Integers, Sequences

CONSTANTS Packets, Capacity

Sides == {0, 1}
Peer(s) == 1 - s

VARIABLES sent, rcvd

chanVars == <<sent, rcvd>>

FifoInit ==
  /\ sent = [s \in Sides |-> <<>>]
  /\ rcvd = [s \in Sides |-> <<>>]

Accept(s) ==
  \/ sent'[s] = sent[s]
  \/ \E pkt \in Packets : sent'[s] = Append(sent[s], pkt)

Deliver(s) ==
  \/ rcvd'[s] = rcvd[s]
  \/ /\ Len(rcvd[s]) < Len(sent[Peer(s)])
     /\ rcvd'[s] = Append(rcvd[s], sent[Peer(s)][Len(rcvd[s]) + 1])

FifoNext ==
  \A s \in Sides :
    /\ Accept(s)
    /\ Deliver(s)
    /\ Len(sent'[s]) - Len(rcvd'[Peer(s)]) <= Capacity

FifoSpec == FifoInit /\ [][FifoNext]_chanVars
=============================================================================
