------------------------ MODULE PCIELinkTimedProofs -------------------------
(***************************************************************************)
(* Proof that the replay timer of PCIELinkTimed never expires on a TLP     *)
(* that has been received, so that the clocked link is one of the links of *)
(* PCIELink and every theorem about that module holds of it.               *)
(*                                                                         *)
(* M bounds the time of a packet on the link.  The Ack of a TLP leaves at  *)
(* the latest when the Ack timer expires and the packet then on the link   *)
(* is through, and the replay timer allows for that and for the TLP that   *)
(* was on the link when it was started.                                    *)
(***************************************************************************)
EXTENDS PCIELinkTimed, PCIELinkScheduleProofs

AckTime == retryTime \div 3

\* In the code retryTime is 3 * ack_factor times the time of the longest TLP, with
\* an ack_factor of at least 1.4: this holds if an Ack takes less than 0.8 of it.
TimerOutlasts(M) ==
  /\ M \in Nat
  /\ \A t \in TLPTimes : t <= M
  /\ DLLPTime <= M
  /\ retryTime \div 3 + 2 * M + DLLPTime < retryTime

LEMMA Times ==
  ASSUME NEW M, TimerOutlasts(M)
  PROVE  /\ M \in Nat /\ DLLPTime \in Nat /\ retryTime \in Nat /\ AckTime \in Nat
         /\ DLLPTime <= M
         /\ AckTime + 2 * M + DLLPTime < retryTime
         /\ 3 * M + DLLPTime < retryTime
         /\ AckTime + M + DLLPTime < retryTime
         /\ M + DLLPTime < retryTime
<1>1. M \in Nat /\ DLLPTime \in Nat /\ retryTime \in Nat /\ DLLPTime > 0
  BY TimeAssumption DEF TimerOutlasts
<1>2. AckTime \in Nat /\ retryTime < 3 * AckTime + 3
  BY <1>1 DEF AckTime
<1>3. AckTime + 2 * M + DLLPTime < retryTime /\ DLLPTime <= M
  BY DEF AckTime, TimerOutlasts
<1> QED
  BY <1>1, <1>2, <1>3

(***************************************************************************)
(* The clock of one interface.  d are the times left to the events of k.   *)
(***************************************************************************)
TimeState == [done: Nat, timeout: Nat, ack: Nat]

Clock(k, d, M) ==
  /\ d \in TimeState
  /\ busy(k) => d.done <= M
  /\ k.packet.kind = "DLLP" => d.done <= DLLPTime
  /\ k.ackEvent = TRUE => d.ack <= AckTime

\* Reschedule: k becomes n, d becomes c, and the events in gone are over.
Clocked(k, n, d, c, gone, M) ==
  /\ c \in TimeState
  /\ busy(n) =>
       IF busy(k) /\ "done" \notin gone THEN c.done = d.done
       ELSE c.done <= M /\ (n.packet.kind = "DLLP" => c.done <= DLLPTime)
  /\ n.timeoutEvent = TRUE =>
       c.timeout = IF k.timeoutEvent = TRUE /\ "timeout" \notin gone
                   THEN d.timeout ELSE retryTime
  /\ n.ackEvent = TRUE =>
       c.ack = IF k.ackEvent = TRUE /\ "ack" \notin gone THEN d.ack ELSE AckTime

LEMMA DueAfterIs ==
  ASSUME NEW M, TimerOutlasts(M), NEW l \in Links, NEW gone,
         LinkInv(link[l]), LinkInv(link'[l]), due[l] \in TimeState,
         NEW c \in DueAfter(l, gone)
  PROVE  Clocked(link[l], link'[l], due[l], c, gone, M)
<1> DEFINE k == link[l]
           n == link'[l]
           d == due[l]
<1>1. PICK t \in TransmitTimes(n.packet) :
        c = [done |-> TimeLeft(busy(n), busy(k) /\ "done" \notin gone, d.done, t),
             timeout |-> TimeLeft(n.timeoutEvent,
                                  k.timeoutEvent /\ "timeout" \notin gone,
                                  d.timeout, retryTime),
             ack |-> TimeLeft(n.ackEvent, k.ackEvent /\ "ack" \notin gone,
                              d.ack, retryTime \div 3)]
  BY DEF DueAfter
<1>2. /\ M \in Nat /\ DLLPTime \in Nat /\ retryTime \in Nat /\ AckTime \in Nat
      /\ DLLPTime <= M
  BY Times, Zenon
<1>3. t \in Nat /\ t <= M /\ (n.packet.kind = "DLLP" => t <= DLLPTime)
  BY <1>2, TimeAssumption DEF TransmitTimes, TimerOutlasts
<1>4. /\ k.timeoutEvent \in BOOLEAN /\ k.ackEvent \in BOOLEAN
      /\ n.timeoutEvent \in BOOLEAN /\ n.ackEvent \in BOOLEAN
  BY LinkTypes
<1>5. d.done \in Nat /\ d.timeout \in Nat /\ d.ack \in Nat
  BY Zenon DEF TimeState
<1> HIDE DEF k, n, d
<1>6. /\ c.done = TimeLeft(busy(n), busy(k) /\ "done" \notin gone, d.done, t)
      /\ c.timeout = TimeLeft(n.timeoutEvent,
                              k.timeoutEvent /\ "timeout" \notin gone,
                              d.timeout, retryTime)
      /\ c.ack = TimeLeft(n.ackEvent, k.ackEvent /\ "ack" \notin gone,
                          d.ack, AckTime)
  BY <1>1, Zenon DEF AckTime
<1>7. c.done \in Nat /\ c.timeout \in Nat /\ c.ack \in Nat
  BY <1>2, <1>3, <1>5, <1>6, SMTT(30), Z3T(30) DEF TimeLeft
<1>8. c \in TimeState
  BY <1>1, <1>7, Zenon DEF TimeState
<1>9. busy(n) =>
       IF busy(k) /\ "done" \notin gone THEN c.done = d.done
       ELSE c.done <= M /\ (n.packet.kind = "DLLP" => c.done <= DLLPTime)
  BY <1>3, <1>6 DEF TimeLeft
<1>10. n.timeoutEvent = TRUE =>
       c.timeout = IF k.timeoutEvent = TRUE /\ "timeout" \notin gone
                   THEN d.timeout ELSE retryTime
  BY <1>4, <1>6 DEF TimeLeft
<1>11. n.ackEvent = TRUE =>
       c.ack = IF k.ackEvent = TRUE /\ "ack" \notin gone THEN d.ack ELSE AckTime
  BY <1>4, <1>6 DEF TimeLeft
<1>12. Clocked(k, n, d, c, gone, M)
  BY <1>8, <1>9, <1>10, <1>11, Zenon DEF Clocked
<1> QED
  BY <1>12, Zenon DEF k, n, d

LEMMA RescheduleIs ==
  ASSUME NEW M, TimerOutlasts(M), NEW l \in Links, NEW gone, NEW other,
         \A i \in Links : LinkInv(link[i]) /\ LinkInv(link'[i]) /\ due[i] \in TimeState,
         Reschedule(l, gone, other)
  PROVE  LET o == Other(l)
         IN  /\ Clocked(link[l], link'[l], due[l], due'[l], gone, M)
             /\ Clocked(link[o], link'[o], due[o], due'[o], other, M)
<1>1. PICK d \in DueAfter(l, gone), e \in DueAfter(Other(l), other) :
        due' = [i \in Links |-> IF i = l THEN d ELSE e]
  BY DEF Reschedule
<1>2. due'[l] = d /\ due'[Other(l)] = e /\ Other(l) \in Links
  BY <1>1, LinksFacts, ZenonT(40)
<1> QED
  BY <1>2, DueAfterIs

\* A packet stays on the link until it is through.
LEMMA BusyKeeps ==
  ASSUME NEW k, NEW n, busy(k)
  PROVE  /\ Retried(k, n) => n.packet = k.packet
         /\ \A a : AckReceived(k, n, a) => n.packet = k.packet
         /\ \A p, ok : TLPReceived(k, n, p, ok) => n.packet = k.packet
         /\ Replayed(k, n) => n.packet = k.packet
         /\ AckTimed(k, n) => n.packet = k.packet
BY DEF Retried, AckReceived, TLPReceived, AckMade, Replayed, AckTimed

LEMMA ClockStep ==
  ASSUME NEW M, TimerOutlasts(M), NEW k, NEW n, NEW d, NEW c, NEW gone,
         LinkInv(n), Clock(k, d, M), Clocked(k, n, d, c, gone, M),
         busy(k) /\ "done" \notin gone => n.packet = k.packet
  PROVE  Clock(n, c, M)
<1>1. c \in TimeState
  BY DEF Clocked
<1>2. n.packet.kind = "DLLP" => busy(n)
  BY Kinds DEF busy
<1>3. busy(n) => c.done <= M /\ (n.packet.kind = "DLLP" => c.done <= DLLPTime)
  BY DEF Clock, Clocked
<1>4. n.ackEvent = TRUE => c.ack <= AckTime
  BY Times DEF Clock, Clocked
<1> QED
  BY <1>1, <1>2, <1>3, <1>4, Zenon DEF Clock

(***************************************************************************)
(* k sends to o; d and e are their clocks.  The Ack of the oldest TLP of k *)
(* arrives before t.                                                       *)
(***************************************************************************)
InTime(o, e, s, t, M) ==
  \/ o.packet.kind = "DLLP" /\ s <= o.packet.seqNum /\ e.done < t
  \/ o.replayDLLP # NULL /\ s <= o.replayDLLP.seqNum /\ e.done + DLLPTime < t
  \/ o.ackEvent = TRUE /\ o.lastAcked < s /\ e.ack + M + DLLPTime < t

AckInTime(k, o, d, e, M) ==
  k.timeoutEvent = TRUE /\ Base(k) < o.recvSeqNum =>
    InTime(o, e, Base(k), d.timeout, M)

\* A replay that brings the oldest TLP: its Ack will arrive in time.
TLPInTime(k, o, d, e, M) ==
  k.timeoutEvent = TRUE /\ k.packet.kind = "TLP"
    /\ k.packet.seqNum = Base(k) /\ o.recvSeqNum = Base(k)
    => /\ o.ackEvent = TRUE => e.ack + M + DLLPTime < d.timeout
       /\ d.done + M + DLLPTime < d.timeout

\* A replay that waits for the link: the timer was restarted since.
ReplayInTime(k, d, M) ==
  k.timeoutEvent = TRUE /\ k.retransmit = TRUE /\ k.retransmitIdx = 0 =>
    d.done + retryTime <= d.timeout + M

Timely(k, o, d, e, M) ==
  AckInTime(k, o, d, e, M) /\ TLPInTime(k, o, d, e, M) /\ ReplayInTime(k, d, M)

\* What the untimed invariants say of k, which sends to o.
Pair(k, o) ==
  /\ LinkInv(k)
  /\ LinkInv(o)
  /\ Scheduled(k)
  /\ Scheduled(o)
  /\ Fresh(k, o.recvSeqNum)
  /\ AckSound(o)
  /\ AckPair(k, o)
  /\ Base(k) <= o.recvSeqNum

\* A timer that has just been started is long enough for any Ack.
LEMMA NewTimer ==
  ASSUME NEW M, TimerOutlasts(M), NEW o, NEW e, NEW s, LinkInv(o), Scheduled(o),
         Clock(o, e, M), OnWay(o, s)
  PROVE  InTime(o, e, s, retryTime, M)
<1>1. e.done \in Nat /\ e.ack \in Nat
  BY DEF Clock, TimeState
<1>2. o.replayDLLP # NULL => busy(o)
  BY DEF Scheduled
<1>3. o.packet.kind = "DLLP" => e.done < retryTime
  BY <1>1, Times, SMTT(30) DEF Clock
<1>4. o.replayDLLP # NULL => e.done + DLLPTime < retryTime
  BY <1>1, <1>2, Times, SMTT(30), Z3T(30) DEF Clock
<1>5. o.ackEvent = TRUE => e.ack + M + DLLPTime < retryTime
  BY <1>1, Times, SMTT(30) DEF Clock
<1> QED
  BY <1>3, <1>4, <1>5, Zenon DEF OnWay, InTime

LEMMA InTimeKept ==
  ASSUME NEW M, NEW o, NEW m, NEW e, NEW f, NEW gone, NEW s, NEW t,
         SameAcks(o, m), Scheduled(o), Scheduled(m), Clocked(o, m, e, f, gone, M),
         "done" \notin gone, "ack" \notin gone, InTime(o, e, s, t, M)
  PROVE  InTime(m, f, s, t, M)
<1>1. o.packet.kind = "DLLP" =>
        m.packet = o.packet /\ f.done = e.done
  BY Kinds, Zenon DEF SameAcks, Clocked, busy
<1>2. o.replayDLLP # NULL => m.replayDLLP = o.replayDLLP /\ f.done = e.done
  BY DEF SameAcks, Clocked, Scheduled
<1>3. o.ackEvent = TRUE =>
        m.ackEvent = TRUE /\ m.lastAcked = o.lastAcked /\ f.ack = e.ack
  BY DEF SameAcks, Clocked
<1> QED
  BY <1>1, <1>2, <1>3, Zenon DEF InTime

\* The sender goes on as it was: the clocks that matter run on.
LEMMA ReplayInTimeKept ==
  ASSUME NEW M, NEW k, NEW n, NEW d, NEW c, NEW gone, ReplayInTime(k, d, M),
         Scheduled(k), Scheduled(n), Clocked(k, n, d, c, gone, M),
         "done" \notin gone, "timeout" \notin gone,
         n.timeoutEvent = k.timeoutEvent, n.retransmit = k.retransmit,
         n.retransmitIdx = k.retransmitIdx
  PROVE  ReplayInTime(n, c, M)
<1>1. n.retransmit = TRUE => busy(k) /\ busy(n)
  BY DEF Scheduled
<1> QED
  BY <1>1, SMT, Z3T(30) DEF ReplayInTime, Clocked

LEMMA TLPInTimeKept ==
  ASSUME NEW M, NEW k, NEW n, NEW o, NEW m, NEW d, NEW c, NEW e, NEW f, NEW gone,
         NEW other, TLPInTime(k, o, d, e, M), Base(n) = Base(k),
         Clocked(k, n, d, c, gone, M), Clocked(o, m, e, f, other, M),
         "done" \notin gone, "timeout" \notin gone, "ack" \notin other,
         n.timeoutEvent = k.timeoutEvent,
         n.packet = k.packet \/ n.packet.kind = "DLLP",
         m.recvSeqNum = o.recvSeqNum, m.ackEvent = o.ackEvent
  PROVE  TLPInTime(n, m, c, f, M)
<1> SUFFICES ASSUME n.timeoutEvent = TRUE, n.packet.kind = "TLP",
                    n.packet.seqNum = Base(n), m.recvSeqNum = Base(n)
             PROVE  /\ m.ackEvent = TRUE => f.ack + M + DLLPTime < c.timeout
                    /\ c.done + M + DLLPTime < c.timeout
  BY Zenon DEF TLPInTime
<1>1. n.packet = k.packet /\ busy(k) /\ busy(n)
  BY Kinds DEF busy
<1>2. /\ o.ackEvent = TRUE => e.ack + M + DLLPTime < d.timeout
      /\ d.done + M + DLLPTime < d.timeout
  BY <1>1, Zenon DEF TLPInTime
<1>3. c.done = d.done /\ c.timeout = d.timeout
  BY <1>1 DEF Clocked
<1>4. m.ackEvent = TRUE => f.ack = e.ack
  BY DEF Clocked
<1> QED
  BY <1>2, <1>3, <1>4, Zenon

LEMMA AckInTimeKept ==
  ASSUME NEW M, NEW k, NEW n, NEW o, NEW m, NEW d, NEW c, NEW e, NEW f, NEW gone,
         NEW other, AckInTime(k, o, d, e, M), Base(n) = Base(k),
         Clocked(k, n, d, c, gone, M), Clocked(o, m, e, f, other, M),
         "timeout" \notin gone, "done" \notin other, "ack" \notin other,
         n.timeoutEvent = k.timeoutEvent, SameAcks(o, m),
         Scheduled(o), Scheduled(m)
  PROVE  AckInTime(n, m, c, f, M)
<1> SUFFICES ASSUME n.timeoutEvent = TRUE, Base(n) < m.recvSeqNum
             PROVE  InTime(m, f, Base(n), c.timeout, M)
  BY Zenon DEF AckInTime
<1>1. InTime(o, e, Base(k), d.timeout, M)
  BY DEF AckInTime, SameAcks
<1>2. c.timeout = d.timeout
  BY DEF Clocked
<1>3. InTime(m, f, Base(k), d.timeout, M)
  BY <1>1, InTimeKept
<1> QED
  BY <1>2, <1>3

(***************************************************************************)
(* The steps, for the direction in which the acting interface k sends and  *)
(* for the one in which it receives.                                       *)
(***************************************************************************)
LEMMA TimelyOffer ==
  ASSUME NEW M, NEW k, NEW n, NEW o, NEW d, NEW c, NEW e, NEW f,
         Pair(k, o), Pair(o, k), LinkInv(n), Scheduled(n),
         Retried(k, n), Base(n) = Base(k),
         Clocked(k, n, d, c, {}, M), Clocked(o, o, e, f, {}, M),
         Timely(k, o, d, e, M), Timely(o, k, e, d, M)
  PROVE  Timely(n, o, c, f, M) /\ Timely(o, n, f, c, M)
<1>1. /\ n.timeoutEvent = k.timeoutEvent
      /\ n.retransmit = k.retransmit
      /\ n.retransmitIdx = k.retransmitIdx
      /\ n.buffer = k.buffer
      /\ n.recvSeqNum = k.recvSeqNum
      /\ n.ackEvent = k.ackEvent
  BY DEF Retried
<1>2. LinkInv(k) /\ LinkInv(o) /\ Scheduled(k) /\ Scheduled(o)
  BY Zenon DEF Pair
<1>3. SameAcks(k, n) /\ SameAcks(o, o)
  BY <1>2, SameAcksIf, Zenon DEF SameAcks
<1>4. TLPInTime(n, o, c, f, M)
  <2>1. CASE n.packet = k.packet
    BY <1>1, <2>1, TLPInTimeKept, ZenonT(40) DEF Timely
  <2>2. CASE n.packet = n.replayPacket /\ n.replayPacket \in TLPs
    <3>1. n.packet.seqNum = Base(n) + Len(n.buffer)
      BY <2>2, Numbering, Kinds, ZenonT(40)
    <3>2. n.timeoutEvent = TRUE => n.buffer # <<>>
      BY <1>1, Zenon DEF Pair, AckPair, ReplayHasTLP
    <3>3. n.timeoutEvent = TRUE => n.packet.seqNum # Base(n)
      BY <3>1, <3>2, LinkTypes, SMTT(30), Z3T(30)
    <3> QED
      BY <3>3, SMTT(30) DEF TLPInTime
  <2> QED
    BY <2>1, <2>2, Zenon DEF Retried
<1>5. Timely(n, o, c, f, M)
  BY <1>1, <1>2, <1>3, <1>4, AckInTimeKept, ReplayInTimeKept, ZenonT(40) DEF Timely
<1>6. Timely(o, n, f, c, M)
  BY <1>1, <1>2, <1>3, AckInTimeKept, TLPInTimeKept, ReplayInTimeKept, ZenonT(40) DEF Timely
<1> QED
  BY <1>5, <1>6, ZenonT(40)

LEMMA TimelyTimeout ==
  ASSUME NEW M, NEW k, NEW n, NEW o, NEW d, NEW c, NEW e, NEW f,
         Pair(k, o), Pair(o, k), LinkInv(n), Scheduled(n), Replayed(k, n),
         Clocked(k, n, d, c, {"timeout"}, M), Clocked(o, o, e, f, {}, M),
         Timely(o, k, e, d, M)
  PROVE  Timely(n, o, c, f, M) /\ Timely(o, n, f, c, M)
<1>1. /\ n.timeoutEvent = FALSE
      /\ n.recvSeqNum = k.recvSeqNum
      /\ n.ackEvent = k.ackEvent
  BY DEF Replayed
<1>2. LinkInv(k) /\ LinkInv(o) /\ Scheduled(k) /\ Scheduled(o)
  BY DEF Pair
<1>3. SameAcks(k, n)
  BY <1>2, SameAcksIf, Zenon
<1>4. Timely(n, o, c, f, M)
  BY <1>1, Zenon DEF Timely, AckInTime, TLPInTime, ReplayInTime
<1>5. Timely(o, n, f, c, M)
  BY <1>1, <1>2, <1>3, AckInTimeKept, TLPInTimeKept, ReplayInTimeKept, ZenonT(40) DEF Timely
<1> QED
  BY ONLY <1>4, <1>5

\* The Ack timer of k expires.  If k's oldest missing TLP is on the link to
\* it, the timer finds nothing new and stops.
LEMMA TimelyAckTimer ==
  ASSUME NEW M, TimerOutlasts(M), NEW k, NEW n, NEW o, NEW d, NEW c, NEW e, NEW f,
         Pair(k, o), Pair(o, k), LinkInv(n), Scheduled(n), MaxTLPs <= IntMax + 1,
         k.ackEvent = TRUE, AckTimed(k, n), Base(n) = Base(k), d.ack = 0,
         Clock(k, d, M), Clocked(k, n, d, c, {"ack"}, M), Clocked(o, o, e, f, {}, M),
         Clock(o, e, M), Timely(k, o, d, e, M), Timely(o, k, e, d, M)
  PROVE  Timely(n, o, c, f, M) /\ Timely(o, n, f, c, M)
<1> DEFINE r == k.recvSeqNum
           b == Base(o)
           ack == DataLinkPacket(Pred(r))
<1>1. /\ n.timeoutEvent = k.timeoutEvent
      /\ n.retransmit = k.retransmit
      /\ n.retransmitIdx = k.retransmitIdx
      /\ n.recvSeqNum = r
      /\ n.packet = k.packet \/ n.packet.kind = "DLLP"
  BY DEF AckTimed, SameSending, DataLinkPacket, DLLP
<1>2. LinkInv(k) /\ LinkInv(o) /\ Scheduled(k) /\ Scheduled(o)
  BY DEF Pair
<1>3. SameAcks(o, o)
  BY Zenon DEF SameAcks
<1>4. Timely(n, o, c, f, M)
  BY <1>1, <1>2, <1>3, AckInTimeKept, TLPInTimeKept, ReplayInTimeKept, ZenonT(40) DEF Timely
<1>5. ReplayInTime(o, f, M)
  BY <1>2, ReplayInTimeKept, Zenon DEF Timely
<1>6. /\ r \in Nat /\ r <= MaxTLPs /\ k.lastAcked \in Nat /\ b \in Nat
  BY <1>2, AckTypes, LinkTypes, Zenon
<1>7. /\ r > 0
      /\ Pred(r) = r - 1
      /\ ack.kind = "DLLP"
      /\ ack.seqNum = r - 1
      /\ ack # NULL
  <2>1. r > 0
    BY Zenon DEF Pair, AckSound
  <2> QED
    BY <1>6, <2>1, AckNumber, Zenon
<1>8. k.lastAcked < r /\ b <= k.lastAcked + 1
  BY Zenon DEF Pair, AckPair, AckTimerIsSound
<1>9. \/ /\ k.lastAcked = Pred(r)
         /\ n.ackEvent = FALSE
         /\ n.packet = k.packet
         /\ n.replayDLLP = k.replayDLLP
      \/ /\ k.lastAcked # Pred(r)
         /\ n.packet = IF busy(k) THEN k.packet ELSE ack
         /\ n.replayDLLP = IF busy(k) THEN ack ELSE k.replayDLLP
  BY Zenon DEF AckTimed
<1>10. o.timeoutEvent = TRUE => f.timeout = e.timeout
  BY Zenon DEF Clocked
<1>11. busy(o) => f.done = e.done
  BY SMTT(30) DEF Clocked
<1>12. /\ busy(k) /\ busy(n) => c.done = d.done
       /\ ~busy(k) /\ n.packet.kind = "DLLP" => c.done <= DLLPTime
       /\ c.done \in Nat
  BY Kinds, Zenon DEF Clocked, busy, TimeState
<1>13. /\ d.done \in Nat /\ (busy(k) => d.done <= M) /\ e.timeout \in Nat
       /\ M \in Nat /\ DLLPTime \in Nat
  BY Times, Zenon DEF Clock, TimeState
<1>14. TLPInTime(o, n, f, c, M)
  <2> SUFFICES ASSUME o.timeoutEvent = TRUE, o.packet.kind = "TLP",
                      o.packet.seqNum = b, n.recvSeqNum = b
               PROVE  /\ n.ackEvent = TRUE => c.ack + M + DLLPTime < f.timeout
                      /\ f.done + M + DLLPTime < f.timeout
    BY ZenonT(40) DEF TLPInTime
  <2>1. n.ackEvent = FALSE
    BY <1>1, <1>6, <1>7, <1>8, <1>9, SMT, Z3T(30)
  <2>2. e.done + M + DLLPTime < e.timeout /\ busy(o)
    BY <1>1, Kinds, Zenon DEF Timely, TLPInTime, busy
  <2> QED
    BY <1>10, <1>11, <2>1, <2>2, Zenon
<1>15. AckInTime(o, n, f, c, M)
  <2> SUFFICES ASSUME o.timeoutEvent = TRUE, b < n.recvSeqNum
               PROVE  InTime(n, c, b, e.timeout, M)
    BY <1>10, ZenonT(40) DEF AckInTime
  <2>1. InTime(k, d, b, e.timeout, M)
    BY <1>1, Zenon DEF Timely, AckInTime
  <2>2. k.packet.kind = "DLLP" => busy(k)
    BY Kinds, Zenon DEF busy
  <2>3. k.replayDLLP # NULL => busy(k)
    BY <1>2 DEF Scheduled
  <2>4. busy(k) => n.packet = k.packet /\ busy(n)
    BY <1>9, Zenon DEF busy
  <2>5. b <= r - 1
    BY <1>1, <1>6, SMTT(30), Z3T(30)
  <2> HIDE DEF ack, b, r
  <2>6. CASE k.lastAcked = Pred(r) /\ n.packet = k.packet
                                   /\ n.replayDLLP = k.replayDLLP
    <3>1. ~(k.lastAcked < b)
      BY ONLY <1>6, <1>7, <2>5, <2>6, SMT, Z3T(30)
    <3> QED
      BY <1>12, <2>1, <2>2, <2>3, <2>4, <2>6, <3>1, SMTT(30), Z3T(30) DEF InTime
  <2>7. CASE busy(k) /\ n.packet = k.packet /\ n.replayDLLP = ack
    <3>1. b <= ack.seqNum /\ c.done = d.done
      BY ONLY <1>6, <1>7, <1>12, <2>4, <2>5, <2>7, SMT, Z3T(30)
    <3>2. CASE k.packet.kind = "DLLP" /\ b <= k.packet.seqNum /\ d.done < e.timeout
      BY <2>7, <3>1, <3>2, ZenonT(40) DEF InTime
    <3>3. CASE d.done + DLLPTime < e.timeout
      BY <1>7, <2>7, <3>1, <3>3, SMTT(30), Z3T(30) DEF InTime
    <3>4. CASE d.ack + M + DLLPTime < e.timeout
      <4>1. d.done + DLLPTime < e.timeout
        BY <1>13, <2>7, <3>4, SMTT(30), Z3T(30)
      <4> QED
        BY ONLY <3>3, <4>1, SMT, Z3T(30)
    <3> QED
      BY <2>1, <3>2, <3>3, <3>4, ZenonT(40) DEF InTime
  <2>8. CASE ~busy(k) /\ n.packet = ack
    <3>1. b <= ack.seqNum /\ c.done <= DLLPTime
      BY ONLY <1>6, <1>7, <1>12, <2>5, <2>8
    <3>2. d.ack + M + DLLPTime < e.timeout
      BY <2>1, <2>2, <2>3, <2>8, Zenon DEF InTime
    <3>3. c.done < e.timeout
      BY <1>12, <1>13, <3>1, <3>2, SMTT(30), Z3T(30)
    <3> QED
      BY <1>7, <2>8, <3>1, <3>3, SMTT(30), Z3T(30) DEF InTime
  <2> QED
    BY ONLY <1>9, <2>6, <2>7, <2>8
<1> QED
  BY <1>4, <1>5, <1>14, <1>15, ZenonT(40) DEF Timely

\* A packet of k is through, and k sends the next one.
LEMMA TimelyFinished ==
  ASSUME NEW M, TimerOutlasts(M), NEW k, NEW n, NEW m, NEW d, NEW c, NEW f,
         LinkInv(k), LinkInv(n), TxFinished(k, n), Base(n) = Base(k),
         d \in TimeState, d.done = 0, Clocked(k, n, d, c, {"done"}, M),
         Clock(n, c, M), Clock(m, f, M),
         n.timeoutEvent = TRUE => n.buffer # <<>>,
         ReplayInTime(k, d, M)
  PROVE  TLPInTime(n, m, c, f, M) /\ ReplayInTime(n, c, M)
<1>1. /\ n.buffer \in Seq(TLPs) /\ Len(n.buffer) \in Nat /\ Base(n) \in Nat
      /\ k.retransmitIdx \in Nat
      /\ n.retransmit \in BOOLEAN
      /\ k.timeoutEvent \in BOOLEAN
      /\ k.replayDLLP \in DLLPs \cup {NULL}
  BY LinkTypes, Zenon
<1>2. n.retransmit = TRUE =>
        /\ k.retransmit = TRUE
        /\ k.retransmitIdx < Len(n.buffer)
        /\ n.retransmitIdx = k.retransmitIdx + 1
        /\ n.packet = IF k.replayDLLP # NULL THEN k.replayDLLP
                      ELSE n.buffer[k.retransmitIdx + 1]
  BY Zenon DEF TxFinished
<1>3. ReplayInTime(n, c, M)
  BY <1>1, <1>2, SMTT(30) DEF ReplayInTime
<1>4. TLPInTime(n, m, c, f, M)
  <2> SUFFICES ASSUME n.timeoutEvent = TRUE, n.packet.kind = "TLP",
                      n.packet.seqNum = Base(n), m.recvSeqNum = Base(n)
               PROVE  /\ m.ackEvent = TRUE => f.ack + M + DLLPTime < c.timeout
                      /\ c.done + M + DLLPTime < c.timeout
    BY ZenonT(40) DEF TLPInTime
  <2>1. CASE n.retransmit = FALSE
    <3>1. n.packet = n.replayPacket /\ n.replayPacket # NULL
      BY <1>1, <2>1, Kinds, ZenonT(40) DEF TxFinished
    <3>2. n.packet.seqNum = Base(n) + Len(n.buffer) /\ Len(n.buffer) > 0
      BY <1>1, <3>1, Numbering, SMTT(30), Z3T(30)
    <3> QED
      BY <1>1, <3>2
  <2>2. CASE n.retransmit = TRUE
    <3>1. n.packet = n.buffer[k.retransmitIdx + 1]
      BY <1>1, <1>2, <2>2, Kinds, ZenonT(40)
    <3>2. n.buffer[k.retransmitIdx + 1].seqNum = Base(n) + (k.retransmitIdx + 1) - 1
      <4>1. k.retransmitIdx + 1 \in 1 .. Len(n.buffer)
        BY ONLY <1>1, <1>2, <2>2, SMT, Z3T(30)
      <4>2. \A i \in 1 .. Len(n.buffer) : n.buffer[i].seqNum = Base(n) + i - 1
        BY Numbering, ZenonT(40)
      <4> QED
        BY ONLY <4>1, <4>2, SMTT(30), Z3T(30)
    <3>3. k.retransmitIdx = 0 /\ k.retransmit = TRUE
      BY <1>1, <1>2, <2>2, <3>1, <3>2, SMT, Z3T(30)
    <3>4. d.timeout \in Nat /\ c.timeout \in Nat /\ c.done \in Nat /\ f.ack \in Nat
      BY DEF Clock, TimeState
    <3>5. retryTime <= c.timeout + M
      <4>1. CASE k.timeoutEvent = TRUE
        <5>1. 0 + retryTime <= d.timeout + M
          BY <3>3, <4>1, Zenon DEF ReplayInTime
        <5>2. c.timeout = d.timeout
          BY <4>1, Zenon DEF Clocked
        <5> QED
          BY <5>1, <5>2, Times, SMTT(30), Z3T(30)
      <4>2. CASE k.timeoutEvent = FALSE
        <5>1. c.timeout = retryTime
          BY <4>2, SMTT(30), Z3T(30) DEF Clocked
        <5> QED
          BY <5>1, Times, SMTT(30), Z3T(30)
      <4> QED
        BY <1>1, <4>1, <4>2, ZenonT(40)
    <3>6. c.done <= M /\ (m.ackEvent = TRUE => f.ack <= AckTime)
      BY Kinds, Zenon DEF Clock, busy
    <3>7. /\ M \in Nat /\ DLLPTime \in Nat /\ retryTime \in Nat /\ AckTime \in Nat
          /\ AckTime + 2 * M + DLLPTime < retryTime
          /\ 3 * M + DLLPTime < retryTime
      BY Times, SMTT(30)
    <3> QED
      BY ONLY <3>4, <3>5, <3>6, <3>7, SMT, Z3T(30)
  <2> QED
    BY <1>1, <2>1, <2>2, Zenon
<1> QED
  BY ONLY <1>3, <1>4

\* A TLP of k arrives at o, and so may the oldest one: its Ack is in time.
LEMMA AckInTimeTLP ==
  ASSUME NEW M, TimerOutlasts(M), NEW k, NEW n, NEW o, NEW m, NEW ok,
         NEW d, NEW c, NEW e, NEW f,
         Pair(k, o), Pair(n, m), MaxTLPs <= IntMax + 1,
         k.packet \in TLPs, Base(n) = Base(k), d.done = 0,
         TLPReceived(o, m, k.packet, ok),
         Clock(o, e, M), Clock(m, f, M), d \in TimeState,
         Clocked(k, n, d, c, {"done"}, M), Clocked(o, m, e, f, {}, M),
         Timely(k, o, d, e, M)
  PROVE  AckInTime(n, m, c, f, M)
<1> DEFINE p == k.packet
           r == o.recvSeqNum
           q == m.recvSeqNum
           b == Base(k)
           ack == DataLinkPacket(Pred(q))
<1> SUFFICES ASSUME n.timeoutEvent = TRUE, b < q
             PROVE  InTime(m, f, b, c.timeout, M)
  BY ZenonT(40) DEF AckInTime
<1>1. /\ LinkInv(k) /\ LinkInv(o) /\ LinkInv(n) /\ LinkInv(m)
      /\ Scheduled(o) /\ Scheduled(m)
      /\ b <= r
  BY ZenonT(40) DEF Pair
<1>2. /\ r \in Nat /\ q \in Nat /\ b \in Nat /\ q <= MaxTLPs
      /\ k.timeoutEvent \in BOOLEAN
      /\ o.lastAcked \in Nat
  BY <1>1, LinkTypes, AckTypes
<1>3. CASE k.timeoutEvent = FALSE
  <2>1. c.timeout = retryTime
    BY <1>3, ZenonT(40) DEF Clocked
  <2>2. n.buffer # <<>>
    BY DEF Pair, AckPair, ReplayHasTLP
  <2>3. b \in Base(n) .. q - 1
    BY <1>2, SMTT(30)
  <2>4. OnWay(m, b)
    BY <2>2, <2>3, Zenon DEF Pair, AckPair, Covered
  <2> QED
    BY <1>1, <2>1, <2>4, NewTimer, Zenon
<1>4. CASE k.timeoutEvent = TRUE
  <2>1. c.timeout = d.timeout
    BY <1>4, Zenon DEF Clocked
  <2>2. /\ Pred(q) = q - 1
        /\ ack.kind = "DLLP"
        /\ ack.seqNum = q - 1
        /\ ack # NULL
    BY <1>2, AckNumber, SMTT(30)
  <2>3. /\ M \in Nat /\ DLLPTime \in Nat /\ d.timeout \in Nat
        /\ e.done \in Nat /\ f.done \in Nat
        /\ busy(o) => e.done <= M
    BY Times, Zenon DEF Clock, TimeState
  <2>4. /\ busy(o) /\ busy(m) => f.done = e.done
        /\ ~busy(o) /\ m.packet.kind = "DLLP" => f.done <= DLLPTime
        /\ o.ackEvent = TRUE /\ m.ackEvent = TRUE => f.ack = e.ack
    BY Kinds, Zenon DEF Clocked, busy
  <2>5. o.replayDLLP # NULL => busy(o)
    BY <1>1, Zenon DEF Scheduled
  <2>6. o.packet.kind = "DLLP" => busy(o)
    BY Kinds, Zenon DEF busy
  <2>7. b <= q - 1
    BY <1>2, SMTT(30)
  <2> HIDE DEF ack
  <2>8. CASE b < r
    <3>1. InTime(o, e, b, d.timeout, M)
      BY <1>4, <2>8, Zenon DEF Timely, AckInTime
    <3>2. CASE m = o
      <4>1. SameAcks(o, m)
        BY <3>2 DEF SameAcks
      <4>2. InTime(m, f, b, d.timeout, M)
        BY <1>1, <3>1, <4>1, InTimeKept, ZenonT(40)
      <4> QED
        BY ONLY <2>1, <4>2, SMT, Z3T(30)
    <3>3. CASE /\ o.ackEvent = TRUE
               /\ m.ackEvent = TRUE
               /\ m.packet = o.packet
               /\ m.replayDLLP = o.replayDLLP
               /\ m.lastAcked = o.lastAcked
      <4>1. busy(o) => busy(m)
        BY <3>3, Zenon DEF busy
      <4> QED
        BY <2>1, <2>4, <2>5, <2>6, <3>1, <3>3, <4>1, ZenonT(40) DEF InTime
    <3>4. CASE /\ o.ackEvent = FALSE
               /\ busy(o)
               /\ m.packet = o.packet
               /\ m.replayDLLP = ack
      <4>1. busy(m)
        BY <3>4, Zenon DEF busy
      <4> QED
        BY <2>1, <2>2, <2>4, <2>7, <3>1, <3>4, <4>1, ZenonT(40) DEF InTime
    <3>5. CASE o.ackEvent = FALSE /\ ~busy(o)
      BY <2>5, <2>6, <3>1, <3>5, ZenonT(40) DEF InTime
    <3> QED
      BY <3>2, <3>3, <3>4, <3>5, ZenonT(40) DEF TLPReceived, AckMade, ack
  <2>9. CASE b = r
    <3>1. q = r + 1 /\ p.seqNum = r /\ AckMade(o, m)
      BY <1>2, <2>9 DEF TLPReceived
    <3>2. /\ o.ackEvent = TRUE => e.ack + M + DLLPTime < d.timeout
          /\ 0 + M + DLLPTime < d.timeout
      BY <1>4, <2>9, <3>1, Kinds, ZenonT(40) DEF Timely, TLPInTime
    <3>3. CASE /\ o.ackEvent = TRUE
               /\ m.ackEvent = TRUE
               /\ m.lastAcked = o.lastAcked
      <4>1. o.lastAcked < b
        BY <2>9, <3>3, Zenon DEF Pair, AckPair, AckTimerIsSound
      <4> QED
        BY <2>1, <2>4, <3>2, <3>3, <4>1, ZenonT(40) DEF InTime
    <3>4. CASE /\ busy(o)
               /\ m.packet = o.packet
               /\ m.replayDLLP = ack
      <4>1. busy(m)
        BY <3>4, SMTT(30), Z3T(30) DEF busy
      <4>2. f.done + DLLPTime < d.timeout
        BY ONLY <2>3, <2>4, <3>2, <3>4, <4>1, SMT, Z3T(30)
      <4> QED
        BY <2>1, <2>2, <2>7, <3>4, <4>2, ZenonT(40) DEF InTime
    <3>5. CASE ~busy(o) /\ m.packet = ack
      <4>1. f.done < d.timeout
        BY ONLY <2>2, <2>3, <2>4, <3>2, <3>5, SMT, Z3T(30)
      <4> QED
        BY <2>1, <2>2, <2>7, <3>5, <4>1, SMTT(30), Z3T(30) DEF InTime
    <3> QED
      BY <3>1, <3>3, <3>4, <3>5, ZenonT(40) DEF AckMade, ack
  <2> QED
    BY ONLY <1>1, <1>2, <2>8, <2>9
<1> QED
  BY <1>2, <1>3, <1>4, Zenon

LEMMA TimelyTLP ==
  ASSUME NEW M, TimerOutlasts(M), NEW k, NEW n, NEW o, NEW m, NEW ok,
         NEW d, NEW c, NEW e, NEW f,
         Pair(k, o), Pair(o, k), Pair(n, m), Pair(m, n), MaxTLPs <= IntMax + 1,
         k.packet \in TLPs, TxFinished(k, n), Base(n) = Base(k), d.done = 0,
         Base(m) = Base(o), TLPReceived(o, m, k.packet, ok),
         Clock(k, d, M), Clock(o, e, M), Clock(n, c, M), Clock(m, f, M),
         Clocked(k, n, d, c, {"done"}, M), Clocked(o, m, e, f, {}, M),
         Timely(k, o, d, e, M), Timely(o, k, e, d, M)
  PROVE  Timely(n, m, c, f, M) /\ Timely(m, n, f, c, M)
<1>1. /\ LinkInv(k) /\ LinkInv(o) /\ LinkInv(n) /\ LinkInv(m)
      /\ Scheduled(k) /\ Scheduled(o) /\ Scheduled(n) /\ Scheduled(m)
      /\ d \in TimeState
      /\ n.timeoutEvent = TRUE => n.buffer # <<>>
  BY Zenon DEF Pair, Clock, AckPair, ReplayHasTLP
<1>2. Timely(n, m, c, f, M)
  <2>1. AckInTime(n, m, c, f, M)
    BY <1>1, AckInTimeTLP, Zenon
  <2>2. TLPInTime(n, m, c, f, M) /\ ReplayInTime(n, c, M)
    BY <1>1, TimelyFinished, ZenonT(40) DEF Timely
  <2> QED
    BY <2>1, <2>2, SMTT(30), Z3T(30) DEF Timely
<1>3. /\ m.timeoutEvent = o.timeoutEvent
      /\ m.retransmit = o.retransmit
      /\ m.retransmitIdx = o.retransmitIdx
      /\ m.packet = o.packet \/ m.packet.kind = "DLLP"
  BY ReceiverSendsAck, ZenonT(40) DEF TLPReceived, SameSending
<1>4. /\ n.recvSeqNum = k.recvSeqNum
      /\ n.ackEvent = k.ackEvent
      /\ n.lastAcked = k.lastAcked
  BY SMTT(30) DEF TxFinished
<1>5. ReplayInTime(m, f, M) /\ TLPInTime(m, n, f, c, M)
  BY <1>1, <1>3, <1>4, ReplayInTimeKept, TLPInTimeKept, ZenonT(40) DEF Timely
<1>6. AckInTime(m, n, f, c, M)
  <2> SUFFICES ASSUME m.timeoutEvent = TRUE, Base(m) < n.recvSeqNum
               PROVE  InTime(n, c, Base(o), f.timeout, M)
    BY ZenonT(40) DEF AckInTime
  <2>1. f.timeout = e.timeout
    BY <1>3, Zenon DEF Clocked
  <2>2. InTime(k, d, Base(o), e.timeout, M)
    BY <1>3, <1>4, Zenon DEF Timely, AckInTime
  <2>3. k.packet.kind # "DLLP"
    BY Kinds, Zenon
  <2>4. k.replayDLLP # NULL =>
          /\ n.packet = k.replayDLLP
          /\ n.packet.kind = "DLLP"
          /\ c.done <= DLLPTime
          /\ c.done \in Nat
    BY <1>1, AckTypes, Zenon DEF TxFinished, Clock, TimeState
  <2>5. k.ackEvent = TRUE => c.ack = d.ack
    BY <1>4, Zenon DEF Clocked
  <2>6. e.timeout \in Nat /\ DLLPTime \in Nat
    BY Times, Zenon DEF Clock, TimeState
  <2>7. CASE /\ k.replayDLLP # NULL /\ Base(o) <= k.replayDLLP.seqNum
             /\ d.done + DLLPTime < e.timeout
    <3>1. c.done < e.timeout
      BY <2>4, <2>6, <2>7, SMTT(30), Z3T(30)
    <3> QED
      BY <2>1, <2>4, <2>7, <3>1, ZenonT(40) DEF InTime
  <2>8. CASE /\ k.ackEvent = TRUE /\ k.lastAcked < Base(o)
             /\ d.ack + M + DLLPTime < e.timeout
    BY <1>4, <2>1, <2>5, <2>8, ZenonT(40) DEF InTime
  <2> QED
    BY <2>2, <2>3, <2>7, <2>8, ZenonT(40) DEF InTime
<1> QED
  BY <1>2, <1>5, <1>6, Zenon DEF Timely

\* An Ack of k arrives at o, which starts its replay timer anew.
LEMMA TimelyDLLP ==
  ASSUME NEW M, TimerOutlasts(M), NEW k, NEW n, NEW o, NEW m, NEW a,
         NEW d, NEW c, NEW e, NEW f,
         Pair(k, o), Pair(o, k), Pair(n, m), Pair(m, n),
         TxFinished(k, n), Base(n) = Base(k), d.done = 0, AckReceived(o, m, a),
         k.packet \in DLLPs,
         Clock(k, d, M), Clock(o, e, M), Clock(n, c, M), Clock(m, f, M),
         Clocked(k, n, d, c, {"done"}, M), Clocked(o, m, e, f, {"timeout"}, M),
         Timely(k, o, d, e, M)
  PROVE  Timely(n, m, c, f, M) /\ Timely(m, n, f, c, M)
<1>1. /\ LinkInv(k) /\ LinkInv(o) /\ LinkInv(n) /\ LinkInv(m)
      /\ Scheduled(k) /\ Scheduled(o) /\ Scheduled(n) /\ Scheduled(m)
      /\ d \in TimeState
      /\ n.timeoutEvent = TRUE => n.buffer # <<>>
      /\ m.timeoutEvent = TRUE => m.buffer # <<>>
  BY ZenonT(40) DEF Pair, Clock, AckPair, ReplayHasTLP
<1>2. \A x, y : LinkInv(x) /\ LinkInv(y) =>
        /\ Base(x) \in Nat /\ y.recvSeqNum \in Nat
        /\ Base(x) < y.recvSeqNum => Base(x) \in Base(x) .. y.recvSeqNum - 1
  BY LinkTypes, SMTT(30), Z3T(30)
<1>3. AckInTime(n, m, c, f, M)
  <2> SUFFICES ASSUME n.timeoutEvent = TRUE, Base(n) < m.recvSeqNum
               PROVE  InTime(m, f, Base(n), c.timeout, M)
    BY ZenonT(40) DEF AckInTime
  <2>1. SameAcks(o, m)
    BY <1>1, SameAcksIf, Zenon
  <2>2. CASE k.timeoutEvent = TRUE
    <3>1. c.timeout = d.timeout
      BY <2>2, Zenon DEF Clocked
    <3>2. InTime(o, e, Base(n), d.timeout, M)
      BY <2>1, <2>2, ZenonT(40) DEF Timely, AckInTime, SameAcks
    <3> QED
      BY <1>1, <2>1, <3>1, <3>2, InTimeKept, ZenonT(40)
  <2>3. CASE k.timeoutEvent # TRUE
    <3>1. c.timeout = retryTime
      BY <2>3, ZenonT(40) DEF Clocked
    <3>2. OnWay(m, Base(n))
      BY <1>1, <1>2, Zenon DEF Pair, AckPair, Covered
    <3> QED
      BY <1>1, <3>1, <3>2, NewTimer, Zenon
  <2> QED
    BY <2>2, <2>3, ZenonT(40)
<1>4. TLPInTime(n, m, c, f, M) /\ ReplayInTime(n, c, M)
  BY <1>1, TimelyFinished, ZenonT(40) DEF Timely
<1>5. m.timeoutEvent = TRUE => f.timeout = retryTime
  BY Zenon DEF Clocked
<1>6. AckInTime(m, n, f, c, M)
  <2> SUFFICES ASSUME m.timeoutEvent = TRUE, Base(m) < n.recvSeqNum
               PROVE  InTime(n, c, Base(m), retryTime, M)
    BY <1>5, Zenon DEF AckInTime
  <2>1. OnWay(n, Base(m))
    BY <1>1, <1>2, ZenonT(40) DEF Pair, AckPair, Covered
  <2> QED
    BY <1>1, <2>1, NewTimer, Zenon
<1>7. f.done \in Nat /\ c.ack \in Nat
  BY ZenonT(40) DEF Clock, TimeState
<1>8. TLPInTime(m, n, f, c, M)
  <2> SUFFICES ASSUME m.timeoutEvent = TRUE, m.packet.kind = "TLP"
               PROVE  /\ n.ackEvent = TRUE => c.ack + M + DLLPTime < retryTime
                      /\ f.done + M + DLLPTime < retryTime
    BY <1>5, ZenonT(40) DEF TLPInTime
  <2>1. f.done <= M /\ (n.ackEvent = TRUE => c.ack <= AckTime)
    BY Kinds, Zenon DEF Clock, busy
  <2> QED
    BY <1>7, <2>1, Times, SMTT(30), Z3T(30)
<1>9. ReplayInTime(m, f, M)
  <2> SUFFICES ASSUME m.timeoutEvent = TRUE, m.retransmit = TRUE
               PROVE  f.done + retryTime <= retryTime + M
    BY <1>5, ZenonT(40) DEF ReplayInTime
  <2>1. f.done <= M
    BY <1>1 DEF Scheduled, Clock
  <2> QED
    BY <1>7, <2>1, Times, SMT, Z3T(30)
<1> QED
  BY <1>3, <1>4, <1>6, <1>8, <1>9, ZenonT(40) DEF Timely

\* Time passes for both interfaces.
Ticked(k, d, c) ==
  /\ c \in TimeState
  /\ busy(k) => d.done = c.done + 1
  /\ k.timeoutEvent = TRUE => d.timeout = c.timeout + 1
  /\ k.ackEvent = TRUE => d.ack = c.ack + 1

LEMMA TimelyTick ==
  ASSUME NEW M, TimerOutlasts(M), NEW k, NEW o, NEW d, NEW c, NEW e, NEW f,
         Pair(k, o), Ticked(k, d, c), Ticked(o, e, f),
         Timely(k, o, d, e, M)
  PROVE  Timely(k, o, c, f, M)
<1>1. /\ c.done \in Nat /\ c.timeout \in Nat /\ c.ack \in Nat
      /\ f.done \in Nat /\ f.timeout \in Nat /\ f.ack \in Nat
      /\ M \in Nat /\ DLLPTime \in Nat /\ retryTime \in Nat
  BY Times, Zenon DEF Ticked, TimeState
<1>2. /\ o.packet.kind = "DLLP" => busy(o)
      /\ o.replayDLLP # NULL => busy(o)
      /\ k.packet.kind = "TLP" => busy(k)
      /\ k.retransmit = TRUE => busy(k)
  BY Kinds, Zenon DEF busy, Pair, Scheduled
<1>3. AckInTime(k, o, c, f, M)
  <2> SUFFICES ASSUME k.timeoutEvent = TRUE, Base(k) < o.recvSeqNum
               PROVE  InTime(o, f, Base(k), c.timeout, M)
    BY ZenonT(40) DEF AckInTime
  <2>1. InTime(o, e, Base(k), d.timeout, M) /\ d.timeout = c.timeout + 1
    BY DEF Timely, AckInTime, Ticked
  <2>2. busy(o) => e.done = f.done + 1
    BY DEF Ticked
  <2>3. o.ackEvent = TRUE => e.ack = f.ack + 1
    BY ZenonT(40) DEF Ticked
  <2> QED
    BY <1>1, <1>2, <2>1, <2>2, <2>3, SMTT(30), Z3T(30) DEF InTime
<1>4. TLPInTime(k, o, c, f, M)
  BY <1>1, <1>2, SMT, Z3T(30) DEF Timely, TLPInTime, Ticked
<1>5. ReplayInTime(k, c, M)
  BY <1>1, <1>2, SMTT(30) DEF Timely, ReplayInTime, Ticked
<1> QED
  BY <1>3, <1>4, <1>5, Zenon DEF Timely

(***************************************************************************)
(* The invariant of the clocked link.                                      *)
(***************************************************************************)
TimedInv(M) ==
  /\ ScheduleInv
  /\ due \in [Links -> TimeState]
  /\ \A l \in Links : Clock(link[l], due[l], M)
  /\ \A l \in Links : Timely(link[l], link[Other(l)], due[l], due[Other(l)], M)

LEMMA PairsHold ==
  ASSUME ScheduleInv
  PROVE  \A l \in Links : Pair(link[l], link[Other(l)])
BY LinksFacts, Zenon DEF ScheduleInv, Inv, ScheduledInv, FreshInv, NoLossInv,
                         Retains, AckInv, Pair

LEMMA PairsHoldAfter ==
  ASSUME ScheduleInv'
  PROVE  \A l \in Links : Pair(link'[l], link'[Other(l)])
BY LinksFacts, ZenonT(40) DEF ScheduleInv, Inv, ScheduledInv, FreshInv, NoLossInv,
                         Retains, AckInv, Pair

LEMMA TimerIsLateIf ==
  ASSUME NEW M, TimerOutlasts(M), TimedInv(M)
  PROVE  TimerExpiresLate
<1> SUFFICES ASSUME NEW l \in Links, link[l].timeoutEvent, due[l].timeout = 0,
                    link[l].buffer # <<>>
             PROVE  link[Other(l)].recvSeqNum <= Head(link[l].buffer).seqNum
  BY SMTT(30) DEF TimerExpiresLate, TimerIsLate
<1> DEFINE k == link[l]
           o == link[Other(l)]
           e == due[Other(l)]
<1>1. /\ LinkInv(k) /\ LinkInv(o)
      /\ AckInTime(k, o, due[l], e, M)
      /\ e \in TimeState
  BY LinksFacts, PairsHold, ZenonT(40) DEF TimedInv, Pair, Timely
<1>2. /\ Base(k) \in Nat /\ o.recvSeqNum \in Nat
      /\ k.buffer \in Seq(TLPs)
      /\ k.timeoutEvent = TRUE
  BY <1>1, LinkTypes, Zenon
<1>3. e.done \in Nat /\ e.ack \in Nat /\ M \in Nat /\ DLLPTime \in Nat
  BY <1>1, Times, ZenonT(40) DEF TimeState
<1>4. ~InTime(o, e, Base(k), 0, M)
  BY <1>3, SMT, Z3T(30) DEF InTime
<1>5. ~(Base(k) < o.recvSeqNum)
  BY <1>1, <1>2, <1>4, Zenon DEF AckInTime
<1>6. Head(k.buffer) = k.buffer[1] /\ k.buffer[1].seqNum = Base(k)
  <2>1. Head(k.buffer) = k.buffer[1] /\ 1 \in 1 .. Len(k.buffer)
    BY <1>2, SMTT(30)
  <2>2. k.buffer[1].seqNum = Base(k) + 1 - 1
    BY <1>1, <2>1, Numbering, ZenonT(40)
  <2> QED
    BY ONLY <1>2, <2>1, <2>2, SMT, Z3T(30)
<1> QED
  BY ONLY <1>2, <1>5, <1>6, SMT, Z3T(30)

LEMMA TimedStepIsStep ==
  ASSUME TimerExpiresLate, [TimedNext]_timedVars
  PROVE  [Next]_vars
<1>1. CASE Tick
  BY <1>1 DEF Tick, vars
<1>2. ASSUME NEW l \in Links, NEW pkt \in Pkt, TimedOffer(l, pkt)
      PROVE  Next
  BY <1>2, Zenon DEF TimedOffer, Next
<1>3. ASSUME NEW l \in Links, NEW ok \in BOOLEAN, TimedTxDone(l, ok)
      PROVE  Next
  BY <1>3, Zenon DEF TimedTxDone, Next
<1>4. ASSUME NEW l \in Links, TimedTimeout(l)
      PROVE  Next
  <2>1. TimerIsLate(l) /\ timeoutFunc(l)
    BY <1>4, Zenon DEF TimedTimeout, timeoutFunc, TimerExpiresLate
  <2> QED
    BY <2>1, Zenon DEF Next
<1>5. ASSUME NEW l \in Links, TimedSendAck(l)
      PROVE  Next
  BY <1>5, Zenon DEF TimedSendAck, Next
<1>6. CASE UNCHANGED timedVars
  BY <1>6, Zenon DEF timedVars, vars
<1> QED
  BY <1>1, <1>2, <1>3, <1>4, <1>5, <1>6, SMTT(30), Z3T(30) DEF TimedNext

\* What a step of the event queue has to show: the clocks of both interfaces,
\* and the Acks both ways.
LEMMA TimedInvIf ==
  ASSUME NEW M, NEW l \in Links, ScheduleInv', due' \in [Links -> TimeState],
         Clock(link'[l], due'[l], M), Clock(link'[Other(l)], due'[Other(l)], M),
         Timely(link'[l], link'[Other(l)], due'[l], due'[Other(l)], M),
         Timely(link'[Other(l)], link'[l], due'[Other(l)], due'[l], M)
  PROVE  TimedInv(M)'
<1>1. Other(Other(l)) = l /\ \A i \in Links : i = l \/ i = Other(l)
  BY LinksFacts, Zenon
<1>2. \A i \in Links : Clock(link'[i], due'[i], M)
  BY <1>1, Zenon
<1>3. \A i \in Links :
        Timely(link'[i], link'[Other(i)], due'[i], due'[Other(i)], M)
  BY <1>1, Zenon
<1> QED
  BY <1>2, <1>3, Zenon DEF TimedInv

LEMMA RescheduleType ==
  ASSUME NEW M, NEW l \in Links, NEW gone, NEW other, Reschedule(l, gone, other),
         NEW g, NEW h,
         Clocked(link[l], link'[l], due[l], due'[l], g, M),
         Clocked(link[Other(l)], link'[Other(l)], due[Other(l)], due'[Other(l)], h, M)
  PROVE  due' \in [Links -> TimeState]
<1>1. DOMAIN due' = Links /\ due' = [i \in Links |-> due'[i]]
  BY Zenon DEF Reschedule
<1>2. \A i \in Links : due'[i] \in TimeState
  BY LinksFacts, Zenon DEF Clocked
<1> QED
  BY ONLY <1>1, <1>2

\* The pair of interfaces l and Other(l) before and after a step.
Pairs(l, gone, other, M) ==
  LET i == Other(l)
      k == link[l]
      n == link'[l]
      o == link[i]
      m == link'[i]
      d == due[l]
      c == due'[l]
      e == due[i]
      f == due'[i]
  IN  /\ Pair(k, o) /\ Pair(o, k) /\ Pair(n, m) /\ Pair(m, n)
      /\ LinkInv(n) /\ LinkInv(m) /\ Scheduled(n) /\ Scheduled(m)
      /\ Clock(k, d, M) /\ Clock(o, e, M)
      /\ Timely(k, o, d, e, M) /\ Timely(o, k, e, d, M)
      /\ Clocked(k, n, d, c, gone, M) /\ Clocked(o, m, e, f, other, M)
      /\ due' \in [Links -> TimeState]

LEMMA PairsIf ==
  ASSUME NEW M, TimerOutlasts(M), TimedInv(M), ScheduleInv', NEW l \in Links,
         NEW gone, NEW other, Reschedule(l, gone, other)
  PROVE  Pairs(l, gone, other, M)
<1> DEFINE i == Other(l)
<1>1. i \in Links /\ Other(i) = l
  BY LinksFacts, Zenon
<1>2. \A j \in Links : Pair(link[j], link[Other(j)])
  BY PairsHold, Zenon DEF TimedInv
<1>3. \A j \in Links : Pair(link'[j], link'[Other(j)])
  BY PairsHoldAfter, Zenon
<1>4. \A j \in Links : due[j] \in TimeState
  BY Zenon DEF TimedInv
<1>5. \A j \in Links : LinkInv(link[j]) /\ LinkInv(link'[j]) /\ due[j] \in TimeState
  BY <1>2, <1>3, <1>4, ZenonT(40) DEF Pair
<1>6. /\ Clocked(link[l], link'[l], due[l], due'[l], gone, M)
      /\ Clocked(link[i], link'[i], due[i], due'[i], other, M)
  BY <1>5, RescheduleIs, Zenon
<1>7. due' \in [Links -> TimeState]
  BY <1>6, RescheduleType, ZenonT(40)
<1>8. /\ Clock(link[l], due[l], M) /\ Clock(link[i], due[i], M)
      /\ Timely(link[l], link[i], due[l], due[i], M)
      /\ Timely(link[i], link[l], due[i], due[l], M)
  BY <1>1, Zenon DEF TimedInv
<1>9. /\ Pair(link[l], link[i]) /\ Pair(link[i], link[l])
      /\ Pair(link'[l], link'[i]) /\ Pair(link'[i], link'[l])
  BY <1>1, <1>2, <1>3, ZenonT(40)
<1>10. /\ LinkInv(link'[l]) /\ LinkInv(link'[i])
       /\ Scheduled(link'[l]) /\ Scheduled(link'[i])
  BY <1>9 DEF Pair
<1> QED
  BY <1>6, <1>7, <1>8, <1>9, <1>10, ZenonT(40) DEF Pairs

LEMMA TimedOfferInv ==
  ASSUME NEW M, TimerOutlasts(M), TimedInv(M), ScheduleInv', NEW l \in Links,
         NEW pkt \in Pkt, TimedOffer(l, pkt)
  PROVE  TimedInv(M)'
<1> DEFINE i == Other(l)
<1>1. Offers(l)
  BY OfferIs, Zenon DEF TimedOffer, TimedInv, ScheduleInv
<1>2. Pairs(l, {}, {}, M)
  BY PairsIf, SMTT(30) DEF TimedOffer
<1>3. Clock(link'[l], due'[l], M)
  BY <1>1, <1>2, BusyKeeps, ClockStep, ZenonT(40) DEF Pairs, Offers
<1>4. Clock(link'[i], due'[i], M)
  BY <1>1, <1>2, ClockStep, ZenonT(40) DEF Pairs, Offers
<1>5. /\ Timely(link'[l], link'[i], due'[l], due'[i], M)
      /\ Timely(link'[i], link'[l], due'[i], due'[l], M)
  BY <1>1, <1>2, TimelyOffer, ZenonT(40) DEF Pairs, Offers
<1> QED
  BY <1>2, <1>3, <1>4, <1>5, TimedInvIf, ZenonT(40) DEF Pairs

LEMMA TimedTimeoutInv ==
  ASSUME NEW M, TimerOutlasts(M), TimedInv(M), ScheduleInv', NEW l \in Links,
         TimedTimeout(l)
  PROVE  TimedInv(M)'
<1> DEFINE i == Other(l)
<1>1. TimesOut(l)
  BY TimeoutIs, Zenon DEF TimedTimeout, TimedInv, ScheduleInv
<1>2. Pairs(l, {"timeout"}, {}, M)
  BY PairsIf, SMTT(30) DEF TimedTimeout
<1>3. Clock(link'[l], due'[l], M)
  BY <1>1, <1>2, BusyKeeps, ClockStep, ZenonT(40) DEF Pairs, TimesOut
<1>4. Clock(link'[i], due'[i], M)
  BY <1>1, <1>2, ClockStep, ZenonT(40) DEF Pairs, TimesOut
<1>5. /\ Timely(link'[l], link'[i], due'[l], due'[i], M)
      /\ Timely(link'[i], link'[l], due'[i], due'[l], M)
  BY <1>1, <1>2, TimelyTimeout, ZenonT(40) DEF Pairs, TimesOut
<1> QED
  BY <1>2, <1>3, <1>4, <1>5, TimedInvIf, ZenonT(40) DEF Pairs

LEMMA TimedSendAckInv ==
  ASSUME NEW M, TimerOutlasts(M), TimedInv(M), ScheduleInv', NEW l \in Links,
         MaxTLPs <= IntMax + 1, TimedSendAck(l)
  PROVE  TimedInv(M)'
<1> DEFINE i == Other(l)
<1>1. TimesAck(l) /\ due[l].ack = 0
  BY SendAckIs, Zenon DEF TimedSendAck, TimedInv, ScheduleInv
<1>2. Pairs(l, {"ack"}, {}, M)
  BY PairsIf, SMTT(30) DEF TimedSendAck
<1>3. Clock(link'[l], due'[l], M)
  BY <1>1, <1>2, BusyKeeps, ClockStep, ZenonT(40) DEF Pairs, TimesAck
<1>4. Clock(link'[i], due'[i], M)
  BY <1>1, <1>2, ClockStep, ZenonT(40) DEF Pairs, TimesAck
<1>5. /\ Timely(link'[l], link'[i], due'[l], due'[i], M)
      /\ Timely(link'[i], link'[l], due'[i], due'[l], M)
  BY <1>1, <1>2, TimelyAckTimer, ZenonT(40) DEF Pairs, TimesAck
<1> QED
  BY <1>2, <1>3, <1>4, <1>5, TimedInvIf, ZenonT(40) DEF Pairs

LEMMA TimedTxDoneInv ==
  ASSUME NEW M, TimerOutlasts(M), TimedInv(M), ScheduleInv', NEW l \in Links,
         NEW ok \in BOOLEAN, MaxTLPs <= IntMax + 1, TimedTxDone(l, ok)
  PROVE  TimedInv(M)'
<1> DEFINE i == Other(l)
           p == link[l].packet
           other == IF p.kind = "DLLP" THEN {"timeout"} ELSE {}
<1>1. due[l].done = 0 /\ (SendsTLP(l) \/ SendsDLLP(l))
  BY TxDoneIs, ZenonT(40) DEF TimedTxDone, TimedInv, ScheduleInv
<1>2. Pairs(l, {"done"}, other, M)
  BY PairsIf, Zenon DEF TimedTxDone
<1>3. Clock(link'[l], due'[l], M)
  BY <1>2, ClockStep, ZenonT(40) DEF Pairs
<1>4. CASE SendsTLP(l)
  <2>1. Pairs(l, {"done"}, {}, M)
    BY <1>2, <1>4, Kinds, ZenonT(40) DEF SendsTLP
  <2>2. PICK okay \in BOOLEAN : TLPReceived(link[i], link'[i], p, okay)
    BY <1>4, ZenonT(40) DEF SendsTLP
  <2>3. Clock(link'[i], due'[i], M)
    BY <2>1, <2>2, BusyKeeps, ClockStep, ZenonT(40) DEF Pairs
  <2>4. /\ Timely(link'[l], link'[i], due'[l], due'[i], M)
        /\ Timely(link'[i], link'[l], due'[i], due'[l], M)
    BY <1>1, <1>3, <1>4, <2>1, <2>2, <2>3, TimelyTLP, ZenonT(40) DEF Pairs, SendsTLP
  <2> QED
    BY <1>3, <2>1, <2>3, <2>4, TimedInvIf, ZenonT(40) DEF Pairs
<1>5. CASE SendsDLLP(l)
  <2>1. Pairs(l, {"done"}, {"timeout"}, M)
    BY <1>2, <1>5, Kinds, Zenon DEF SendsDLLP
  <2>2. Clock(link'[i], due'[i], M)
    BY <1>5, <2>1, BusyKeeps, ClockStep, ZenonT(40) DEF Pairs, SendsDLLP
  <2>3. /\ Timely(link'[l], link'[i], due'[l], due'[i], M)
        /\ Timely(link'[i], link'[l], due'[i], due'[l], M)
    BY <1>1, <1>3, <1>5, <2>1, <2>2, TimelyDLLP, ZenonT(40) DEF Pairs, SendsDLLP
  <2> QED
    BY <1>3, <2>1, <2>2, <2>3, TimedInvIf, ZenonT(40) DEF Pairs
<1> QED
  BY ONLY <1>1, <1>4, <1>5

LEMMA TickInv ==
  ASSUME NEW M, TimerOutlasts(M), TimedInv(M), Tick
  PROVE  TimedInv(M)'
<1>1. link' = link /\ ScheduleInv
  BY DEF Tick, TimedInv
<1>2. ScheduleInv'
  BY <1>1, ZenonT(40) DEF ScheduleInv, Inv, WaitsInv, ScheduledInv, FreshInv, NoLossInv, AckInv
<1>3. ASSUME NEW l \in Links
      PROVE  Ticked(link[l], due[l], due'[l])
  <2> DEFINE later(t) == IF t = 0 THEN 0 ELSE t - 1
             d == due[l]
  <2>1. d \in TimeState /\ d.done \in Nat /\ d.timeout \in Nat /\ d.ack \in Nat
    BY SMTT(30) DEF TimedInv, TimeState
  <2>2. DOMAIN d = {"done", "timeout", "ack"}
    BY <2>1, Zenon DEF TimeState
  <2>3. due'[l] = [x \in DOMAIN d |-> later(d[x])]
    BY SMTT(30), Z3T(30) DEF Tick
  <2>4. /\ due'[l].done = later(d.done)
        /\ due'[l].timeout = later(d.timeout)
        /\ due'[l].ack = later(d.ack)
        /\ DOMAIN due'[l] = {"done", "timeout", "ack"}
        /\ due'[l] = [x \in DOMAIN due'[l] |-> due'[l][x]]
    BY ONLY <2>2, <2>3, SMT, Z3T(30)
  <2>5. due'[l] \in TimeState
    BY <2>1, <2>4, SMTT(30), Z3T(30) DEF TimeState
  <2>6. /\ busy(link[l]) => d.done > 0
        /\ link[l].timeoutEvent => d.timeout > 0
        /\ link[l].ackEvent => d.ack > 0
    BY DEF Tick
  <2> QED
    BY <2>1, <2>4, <2>5, <2>6, SMTT(30), Z3T(30) DEF Ticked
<1>4. due' \in [Links -> TimeState]
  <2>1. due' = [l \in Links |-> due'[l]]
    BY SMTT(30) DEF Tick
  <2>2. \A l \in Links : due'[l] \in TimeState
    BY <1>3, ZenonT(40) DEF Ticked
  <2> QED
    BY ONLY <2>1, <2>2, SMT, Z3T(30)
<1>5. ASSUME NEW l \in Links
      PROVE  Clock(link'[l], due'[l], M)
  <2>1. Clock(link[l], due[l], M) /\ Ticked(link[l], due[l], due'[l])
    BY <1>3, ZenonT(40) DEF TimedInv
  <2>2. due'[l].done \in Nat /\ due'[l].ack \in Nat
    BY <2>1, SMTT(30) DEF Ticked, TimeState
  <2>3. link[l].packet.kind = "DLLP" => busy(link[l])
    BY Kinds, Zenon DEF busy
  <2> QED
    BY <1>1, <2>1, <2>2, <2>3, Times, SMT, Z3T(30) DEF Clock, Ticked
<1>6. ASSUME NEW l \in Links
      PROVE  Timely(link'[l], link'[Other(l)], due'[l], due'[Other(l)], M)
  <2>1. /\ Ticked(link[l], due[l], due'[l])
        /\ Ticked(link[Other(l)], due[Other(l)], due'[Other(l)])
        /\ Pair(link[l], link[Other(l)])
        /\ Timely(link[l], link[Other(l)], due[l], due[Other(l)], M)
    BY <1>1, <1>3, LinksFacts, PairsHold, Zenon DEF TimedInv
  <2> QED
    BY <1>1, <2>1, TimelyTick, Zenon
<1> QED
  BY <1>2, <1>4, <1>5, <1>6, ZenonT(40) DEF TimedInv

LEMMA TimedInvNext ==
  ASSUME ~MayRefuseFirst, MaxTLPs <= IntMax + 1, NEW M, TimerOutlasts(M),
         TimedInv(M), [TimedNext]_timedVars
  PROVE  TimedInv(M)'
<1>1. ScheduleInv'
  <2>1. [Next]_vars
    BY TimerIsLateIf, TimedStepIsStep, Zenon
  <2> QED
    BY <2>1, ScheduleInvNext, SMTT(30), Z3T(30) DEF TimedInv
<1>2. CASE UNCHANGED timedVars
  <2>1. link' = link /\ due' = due
    BY <1>2, Zenon DEF timedVars
  <2> QED
    BY <1>1, <2>1, ZenonT(40) DEF TimedInv
<1>3. CASE TimedNext
  BY <1>1, <1>3, TickInv, TimedOfferInv, TimedTxDoneInv, TimedTimeoutInv,
     TimedSendAckInv, SMTT(30), Z3T(30) DEF TimedNext
<1> QED
  BY <1>2, <1>3, ZenonT(40)

LEMMA TimedInvInit ==
  ASSUME NEW M, TimerOutlasts(M), TimedInit
  PROVE  TimedInv(M)
<1> DEFINE z == [done |-> 0, timeout |-> 0, ack |-> 0]
<1>1. ScheduleInv
  BY ScheduleInvInit, SMTT(30), Z3T(30) DEF TimedInit
<1>2. z \in TimeState /\ z.done = 0 /\ z.ack = 0
  BY SMTT(30) DEF TimeState
<1>3. \A l \in Links : link[l] = NewLink /\ due[l] = z /\ Other(l) \in Links
  BY LinksFacts, Zenon DEF TimedInit, Init
<1>4. /\ NewLink.packet = NULL /\ NewLink.timeoutEvent = FALSE
      /\ NewLink.ackEvent = FALSE
  BY Zenon DEF NewLink
<1>5. Clock(NewLink, z, M)
  BY <1>2, <1>4, Kinds, SMTT(30), Z3T(30) DEF Clock, busy
<1>6. Timely(NewLink, NewLink, z, z, M)
  BY <1>4, SMTT(30), Z3T(30) DEF Timely, AckInTime, TLPInTime, ReplayInTime
<1>7. due \in [Links -> TimeState]
  BY <1>2, SMTT(30), Z3T(30) DEF TimedInit
<1> HIDE DEF z
<1> QED
  BY <1>1, <1>3, <1>5, <1>6, <1>7, ZenonT(40) DEF TimedInv

\* retryTime and the restarts of the replay timer: the timer never expires on
\* a TLP that has been received, for all transmission times that leave the Ack
\* its way within retryTime, if no device refuses the first TLP it is sent and
\* sequence numbers fit an int.
THEOREM ReplayTimerIsLate ==
  ASSUME ~MayRefuseFirst, MaxTLPs <= IntMax + 1, NEW M, TimerOutlasts(M)
  PROVE  TimedSpec => []TimerExpiresLate
<1>1. TimedInit => TimedInv(M)
  BY TimedInvInit, Zenon
<1>2. TimedInv(M) /\ [TimedNext]_timedVars => TimedInv(M)'
  BY TimedInvNext, Zenon
<1>3. TimedInv(M) => TimerExpiresLate
  BY TimerIsLateIf, ZenonT(40)
<1> QED
  BY <1>1, <1>2, <1>3, PTL DEF TimedSpec

\* The clocked link is a link of PCIELink: the guard that PCIELink puts on the
\* replay timer is what the clock guarantees.
THEOREM TimedImplementsLink ==
  ASSUME ~MayRefuseFirst, MaxTLPs <= IntMax + 1, NEW M, TimerOutlasts(M)
  PROVE  TimedSpec => Spec
<1>1. TimedInit => TimedInv(M) /\ Init
  BY TimedInvInit, Zenon DEF TimedInit
<1>2. TimedInv(M) /\ [TimedNext]_timedVars => TimedInv(M)' /\ [Next]_vars
  BY TimedInvNext, TimerIsLateIf, TimedStepIsStep, ZenonT(40)
<1> QED
  BY <1>1, <1>2, PTL DEF TimedSpec, Spec
=============================================================================
