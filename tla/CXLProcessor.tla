---------------------------- MODULE CXLProcessor ----------------------------
(***************************************************************************)
(* The request port of the CXL device's processor, CXLProcPort of          *)
(* src/gem5/src/dev/cxl/TestDev/CXLProcessor.{cc,hh}.  A request is cut    *)
(* into chunks of a cache line.  In atomic mode execCXLProc sends all of   *)
(* them and handles their responses at once; in timing mode one chunk is   *)
(* sent per sendEvent, and CXLXBar, the peer, may refuse it.               *)
(***************************************************************************)
EXTENDS Integers, Sequences

CONSTANTS
  MaxReqs,          \* bound on the requests the processor makes
  MaxChunks,        \* bound on the cache lines of a request
  NoPacket          \* nullptr, for inRetry

ASSUME BoundAssumption == MaxReqs \in Nat /\ MaxChunks \in Nat \ {0}

ASSUME PacketAssumption == NoPacket \notin [req: 1 .. MaxReqs, chunk: 1 .. MaxChunks]

VARIABLES
  timing,           \* System::isTimingMode, else atomic mode
  port,             \* the fields of CXLProcPort
  sizes,            \* the chunks of every request made so far
  sent,             \* the packets the peer took, in order
  owesRetry,        \* has the peer refused a packet and not retried yet?
  respWaits         \* does the peer wait for a retry of a response?

vars == <<timing, port, sizes, sent, owesRetry, respWaits>>

\* Chunk c of request r.
Packets == [req: 1 .. MaxReqs, chunk: 1 .. MaxChunks]

\* CXLProcReqState: the request, its chunks, and the chunk gen stands at.
ReqStates == [req: 1 .. MaxReqs, size: 1 .. MaxChunks, gen: 1 .. MaxChunks]

Init ==
  /\ timing \in BOOLEAN
  /\ port = [transmitList |-> <<>>, pendingCount |-> 0, inRetry |-> NoPacket,
             retryPending |-> FALSE, sendEvent |-> FALSE]
  /\ sizes = <<>>
  /\ sent = <<>>
  /\ owesRetry = FALSE
  /\ respWaits = FALSE

createPacket(state) == [req |-> state.req, chunk |-> state.gen]

\* The packet trySendTimingReq sends: the refused one, or a new one.
NextPacket(k) ==
  IF k.inRetry # NoPacket THEN k.inRetry ELSE createPacket(Head(k.transmitList))

\* Mutants: the state is popped with its first packet, or never.
advancePop(k) == Tail(k.transmitList)
advanceNoPop(k) == [k.transmitList EXCEPT ![1].gen = @ + 1]

\* gen.next(), and the pop of the state after its last chunk.
advance(k) ==
  LET state == Head(k.transmitList)
  IN  IF state.gen = state.size THEN Tail(k.transmitList)
      ELSE [k.transmitList EXCEPT ![1].gen = @ + 1]

\* Mutant: the next packet is not scheduled.
acceptedNoSchedule(k) ==
  [k EXCEPT !.transmitList = advance(k), !.inRetry = NoPacket,
            !.pendingCount = @ + 1, !.sendEvent = FALSE]

\* trySendTimingReq when sendTimingReq returns true, and when it does not.
accepted(k) ==
  [k EXCEPT !.transmitList = advance(k), !.inRetry = NoPacket,
            !.pendingCount = @ + 1, !.sendEvent = advance(k) # <<>>]

refused(k) == [k EXCEPT !.inRetry = NextPacket(k), !.retryPending = TRUE]

\* Mutant: one packet at a time, the next when its response has come.
sendPacketThrottled(k) ==
  IF k.retryPending \/ k.sendEvent
  THEN port' = k /\ UNCHANGED <<sent, owesRetry>>
  ELSE IF k.pendingCount > 0
  THEN port' = [k EXCEPT !.sendEvent = TRUE] /\ UNCHANGED <<sent, owesRetry>>
  ELSE /\ port' = accepted(k)
       /\ sent' = Append(sent, NextPacket(k))
       /\ UNCHANGED owesRetry

\* sendPacket in timing mode.
sendPacket(k) ==
  IF k.retryPending \/ k.sendEvent
  THEN port' = k /\ UNCHANGED <<sent, owesRetry>>
  ELSE \/ /\ port' = accepted(k)
          /\ sent' = Append(sent, NextPacket(k))
          /\ UNCHANGED owesRetry
       \/ /\ port' = refused(k)
          /\ owesRetry' = TRUE
          /\ UNCHANGED sent

\* sendReq and handleRespPacket for every chunk, in atomic mode: each chunk
\* is answered before the next is made, so pendingCount is 0 again.
sendReq(r, n) == [c \in 1 .. n |-> [req |-> r, chunk |-> c]]

\* A read or a write of n cache lines.
execCXLProc(n) ==
  LET r == Len(sizes) + 1
      k == [port EXCEPT !.transmitList =
              Append(@, [req |-> r, size |-> n, gen |-> 1])]
  IN  /\ r <= MaxReqs
      /\ sizes' = Append(sizes, n)
      /\ IF timing THEN sendPacket(k)
         ELSE /\ sent' = sent \o sendReq(r, n)
              /\ UNCHANGED <<port, owesRetry>>
      /\ UNCHANGED <<timing, respWaits>>

\* sendEvent.
SendEvent ==
  /\ port.sendEvent
  /\ sendPacket([port EXCEPT !.sendEvent = FALSE])
  /\ UNCHANGED <<timing, sizes, respWaits>>

\* The peer retries; recvReqRetry has an empty body.
recvReqRetry ==
  /\ owesRetry
  /\ owesRetry' = FALSE
  /\ UNCHANGED <<timing, port, sizes, sent, respWaits>>

\* The peer answers; recvTimingResp returns 0, and nothing ever asks the peer
\* to send the response again.
recvTimingResp ==
  /\ timing /\ sent # <<>> /\ ~ respWaits
  /\ respWaits' = TRUE
  /\ UNCHANGED <<timing, port, sizes, sent, owesRetry>>

Next ==
  \/ \E n \in 1 .. MaxChunks : execCXLProc(n)
  \/ SendEvent
  \/ recvReqRetry
  \/ recvTimingResp

Spec == Init /\ [][Next]_vars

\* The event queue processes sendEvent.  Nothing is assumed of the peer.
LiveSpec == Spec /\ WF_vars(SendEvent)

-----------------------------------------------------------------------------
\* Type invariant: the fields of CXLProcPort; a queued state always has a
\* chunk left to send.
TypeOK ==
  /\ timing \in BOOLEAN
  /\ port \in [transmitList: Seq(ReqStates), pendingCount: Nat,
               inRetry: Packets \cup {NoPacket},
               retryPending: BOOLEAN, sendEvent: BOOLEAN]
  /\ sizes \in Seq(1 .. MaxChunks)
  /\ sent \in Seq(Packets)
  /\ owesRetry \in BOOLEAN
  /\ respWaits \in BOOLEAN

\* trySendTimingReq, inRetry and the chunk generator: the peer gets the chunks
\* of the requests in the order of the requests and of the addresses, none
\* twice and none left out, and what is not sent yet is still in the list.
SentInOrder ==
  /\ \A i \in 2 .. Len(sent) :
       \/ sent[i].req = sent[i-1].req /\ sent[i].chunk = sent[i-1].chunk + 1
       \/ /\ sent[i] = [req |-> sent[i-1].req + 1, chunk |-> 1]
          /\ sent[i-1].chunk = sizes[sent[i-1].req]
  /\ sent # <<>> => sent[1] = [req |-> 1, chunk |-> 1]
  /\ port.transmitList = <<>> /\ sizes # <<>> =>
       sent # <<>> /\ sent[Len(sent)] = [req |-> Len(sizes), chunk |-> sizes[Len(sizes)]]

\* A port with packets to send has scheduled its event or waits for a retry,
\* and the event never finds the list empty (sendPacket asserts it).
WorkIsScheduled ==
  (timing /\ port.transmitList # <<>>) <=> (port.sendEvent \/ port.retryPending)

\* Everything in the list is sent in the end, however many requests are made
\* meanwhile, unless the peer refuses a packet: from then on the port only waits,
\* since recvReqRetry has an empty body.
SentUnlessRefused ==
  port.transmitList # <<>> ~> (port.transmitList = <<>> \/ port.retryPending)

=============================================================================
