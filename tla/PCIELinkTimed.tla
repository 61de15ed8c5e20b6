--------------------------- MODULE PCIELinkTimed ----------------------------
(***************************************************************************)
(* PCIELink with the clock of the event queue.  transmit schedules         *)
(* doneEvent after the time the packet takes on the link, and the replay   *)
(* timer and the Ack timer run for retryTime and retryTime/3.  Events due  *)
(* at the same tick are processed in any order.                            *)
(***************************************************************************)
EXTENDS PCIELink

CONSTANTS
  TLPTimes,         \* the times transmit may compute for a TLP
  DLLPTime,         \* and for an Ack
  retryTime         \* three times ack_factor times the time of a full TLP

ASSUME TimeAssumption ==
  /\ TLPTimes \subseteq Nat \ {0}
  /\ DLLPTime \in Nat \ {0}
  /\ retryTime \in Nat

VARIABLE due        \* due[l] is the time left until each event of links[l]

timedVars == <<link, due>>

TimedInit ==
  /\ Init
  /\ due = [l \in Links |-> [done |-> 0, timeout |-> 0, ack |-> 0]]

TransmitTimes(p) == IF p.kind = "TLP" THEN TLPTimes ELSE {DLLPTime}

(***************************************************************************)
(* What a step does to the clock of interface l.  gone holds the events    *)
(* that were processed or descheduled in the step.  An event that is       *)
(* scheduled after the step, and was not before it or is gone, gets its    *)
(* full time.                                                              *)
(***************************************************************************)
TimeLeft(isOn, wasOn, old, full) ==
  IF ~isOn THEN 0 ELSE IF wasOn THEN old ELSE full

\* MUTANT: the replay timer runs no longer than the Ack timer.
DueAfterShortTimer(l, gone) ==
  LET k == link[l]
      n == link'[l]
      d == due[l]
      kept(e) == e \notin gone
  IN  {[done |-> TimeLeft(busy(n), busy(k) /\ kept("done"), d.done, t),
        timeout |-> TimeLeft(n.timeoutEvent, k.timeoutEvent /\ kept("timeout"),
                             d.timeout, retryTime \div 3),
        ack |-> TimeLeft(n.ackEvent, k.ackEvent /\ kept("ack"),
                         d.ack, retryTime \div 3)] :
       t \in TransmitTimes(n.packet)}

DueAfter(l, gone) ==
  LET k == link[l]
      n == link'[l]
      d == due[l]
      kept(e) == e \notin gone
  IN  {[done |-> TimeLeft(busy(n), busy(k) /\ kept("done"), d.done, t),
        timeout |-> TimeLeft(n.timeoutEvent, k.timeoutEvent /\ kept("timeout"),
                             d.timeout, retryTime),
        ack |-> TimeLeft(n.ackEvent, k.ackEvent /\ kept("ack"),
                         d.ack, retryTime \div 3)] :
       t \in TransmitTimes(n.packet)}

Reschedule(l, gone, otherGone) ==
  \E d \in DueAfter(l, gone), e \in DueAfter(Other(l), otherGone) :
    due' = [i \in Links |-> IF i = l THEN d ELSE e]

TimedOffer(l, pkt) == Offer(l, pkt) /\ Reschedule(l, {}, {})

\* An Ack stops the replay timer of the interface that receives it.
TimedTxDone(l, ok) ==
  /\ due[l].done = 0
  /\ txDone(l, ok)
  /\ Reschedule(l, {"done"},
                IF link[l].packet.kind = "DLLP" THEN {"timeout"} ELSE {})

TimedTimeout(l) ==
  due[l].timeout = 0 /\ timeoutFunc(l) /\ Reschedule(l, {"timeout"}, {})

TimedSendAck(l) ==
  due[l].ack = 0 /\ sendAck(l) /\ Reschedule(l, {"ack"}, {})

\* Time passes while no scheduled event is due.
Tick ==
  LET later(t) == IF t = 0 THEN 0 ELSE t - 1
  IN  /\ \E l \in Links :
           busy(link[l]) \/ link[l].timeoutEvent \/ link[l].ackEvent
      /\ \A l \in Links : /\ busy(link[l]) => due[l].done > 0
                          /\ link[l].timeoutEvent => due[l].timeout > 0
                          /\ link[l].ackEvent => due[l].ack > 0
      /\ due' = [l \in Links |-> [e \in DOMAIN due[l] |-> later(due[l][e])]]
      /\ UNCHANGED link

TimedNext ==
  \/ Tick
  \/ \E l \in Links :
       \/ \E pkt \in Pkt : TimedOffer(l, pkt)
       \/ \E ok \in BOOLEAN : TimedTxDone(l, ok)
       \/ TimedTimeout(l)
       \/ TimedSendAck(l)

TimedSpec == TimedInit /\ [][TimedNext]_timedVars

\* retryTime and the restarts of the replay timer: it never expires on a TLP
\* that has been received.  This is the guard of PCIELink, so the clocked
\* link is one of the links that module describes.
TimerExpiresLate ==
  \A l \in Links :
    link[l].timeoutEvent /\ due[l].timeout = 0 => TimerIsLate(l)
=============================================================================
