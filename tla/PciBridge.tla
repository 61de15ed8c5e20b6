----------------------------- MODULE PciBridge -----------------------------
(***************************************************************************)
(* The root complex of src/gem5/src/mem/PciBridge.{cc,hh} as the timing    *)
(* protocol drives it: one slave and one master port towards the host      *)
(* (slavePort and masterPort_DMA, here port Host) and one pair for each    *)
(* downstream link (slavePort_DMAi and masterPorti).  A slave port admits  *)
(* a request when the request queue of the master port it leaves by has    *)
(* room and, if the request needs a response, the slave port can reserve   *)
(* room for it.                                                            *)
(*                                                                         *)
(* The bridge is a record b, and each operator on b is one C++ function.   *)
(* What is outside it (the crossbar and caches of the host, the links and  *)
(* devices below) is the set peer[i] of requests the peer of master port i *)
(* holds; a peer refuses and retries as the timing protocol allows, and    *)
(* answers the requests that the code of the host and of the CXL device    *)
(* answers through the bridge.                                             *)
(***************************************************************************)
EXTENDS Integers, Sequences, FiniteSets, Functions

CONSTANTS
  Reqs,             \* the Request objects of the simulation
  Links,            \* the downstream ports
  CXLLink,          \* the downstream port of the CXL device
  Traffic,          \* the types of the requests that peers start
  reqQueueLimit,    \* req_size, the capacity of a master port's queue
  respQueueLimit,   \* resp_size, the responses a slave port reserves for
  NoPort            \* "not in the routing table"

Host == 0
Ports == {Host} \cup Links
DMA2 == 2           \* slavePort_DMA2, named by MasterPort::recvTimingResp

\* CXLPacketType, as far as the bridge tells its values apart.
Types == {"Default", "CXLmem", "CXLcache", "HostBiasCheck",
          "CXLcacheH2DReq", "CXLcacheH2DResp"}

\* The CXL device is on the link whose DMA port recvTimingResp names.
ASSUME PortAssumption ==
  /\ Links \subseteq Nat \ {Host}
  /\ CXLLink = DMA2
  /\ CXLLink \in Links
  /\ NoPort \notin Ports

ASSUME LimitAssumption ==
  /\ reqQueueLimit \in Nat \ {0}
  /\ respQueueLimit \in Nat \ {0}

ASSUME TrafficAssumption ==
  Traffic \subseteq {"Default", "CXLcache", "HostBiasCheck", "CXLcacheH2DReq"}

VARIABLES
  b,                \* the bridge
  peer,             \* peer[i]: requests taken by the peer of master port i
  aborted           \* has an assertion ended the simulation?

vars == <<b, peer, aborted>>

(***************************************************************************)
(* A packet: its request, the type of the request, the master port that    *)
(* its address selects, pciBridgeSlaveIDs of the request, and whether its  *)
(* command needs a response: an eviction needs none.                       *)
(***************************************************************************)
Packet == [req: Reqs, type: Types, dest: Ports, from: Ports,
           needsResponse: BOOLEAN]

\* sendEvent of a port: not scheduled with an empty queue, scheduled, or
\* not scheduled because the peer refused the head and owes a retry.
SendState == {"idle", "scheduled", "refused"}

Bridge ==
  [reqList: [Ports -> Seq(Packet)],
   respList: [Ports -> Seq(Packet)],
   outstandingResponses: [Ports -> 0 .. respQueueLimit],
   retryReq: [Ports -> BOOLEAN],
   routeTo: [Reqs -> Ports \cup {NoPort}],
   reqSend: [Ports -> SendState],
   respSend: [Ports -> SendState]]

NewBridge ==
  [reqList |-> [i \in Ports |-> <<>>],
   respList |-> [i \in Ports |-> <<>>],
   outstandingResponses |-> [i \in Ports |-> 0],
   retryReq |-> [i \in Ports |-> FALSE],
   routeTo |-> [r \in Reqs |-> NoPort],
   reqSend |-> [i \in Ports |-> "idle"],
   respSend |-> [i \in Ports |-> "idle"]]

Init ==
  /\ b = NewBridge
  /\ peer = [i \in Ports |-> {}]
  /\ aborted = FALSE

-----------------------------------------------------------------------------
(***************************************************************************)
(* The functions of the bridge.                                            *)
(***************************************************************************)
respQueueFull(k, s) == k.outstandingResponses[s] = respQueueLimit
reqQueueFull(k, m) == Len(k.reqList[m]) = reqQueueLimit

\* The master port of a request: the one its address selects, except that a
\* snoop of the host goes to the CXL device and a coherence check of the
\* device goes to the host.
getMasterPort(s, p) ==
  IF s = Host /\ p.type = "CXLcacheH2DReq" THEN CXLLink
  ELSE IF s # Host /\ p.type = "HostBiasCheck" THEN Host
  ELSE p.dest

\* schedTimingReq and schedTimingResp schedule sendEvent for a new head only.
schedTimingReq(k, m, p) ==
  [k EXCEPT !.reqList[m] = Append(@, p),
            !.reqSend[m] = IF k.reqList[m] = <<>> THEN "scheduled" ELSE @]

schedTimingResp(k, s, p) ==
  [k EXCEPT !.respList[s] = Append(@, p),
            !.respSend[s] = IF k.respList[s] = <<>> THEN "scheduled" ELSE @]

\* Mutant: the request queue is the only limit.
AdmitsUnreserved(k, s, p) ==
  /\ ~ k.retryReq[s]
  /\ ~ reqQueueFull(k, getMasterPort(s, p))

Admits(k, s, p) ==
  /\ ~ k.retryReq[s]
  /\ ~ reqQueueFull(k, getMasterPort(s, p))
  /\ p.needsResponse => ~ respQueueFull(k, s)

\* An access of the host to the CXL device becomes a CXL.mem request.
makeCXLPacket(s, p) ==
  IF s = Host /\ p.dest = CXLLink /\ p.type = "Default"
  THEN [p EXCEPT !.type = "CXLmem"] ELSE p

\* Mutant: the DMA slave ports reserve nothing.
reserveHostOnly(k, s, p) ==
  IF s = Host THEN [k EXCEPT !.outstandingResponses[s] = @ + 1] ELSE k

\* Mutant: room is reserved for a response that does not come.
reserveAlways(k, s, p) == [k EXCEPT !.outstandingResponses[s] = @ + 1]

reserve(k, s, p) ==
  IF p.needsResponse THEN [k EXCEPT !.outstandingResponses[s] = @ + 1] ELSE k

\* Mutant: room for the response is reserved before the request is admitted.
recvTimingReqReserveFirst(k, s, p) ==
  LET k1 == IF k.retryReq[s] \/ respQueueFull(k, s) THEN k ELSE reserve(k, s, p)
  IN  IF Admits(k, s, p)
      THEN schedTimingReq(k1, getMasterPort(s, p),
                          [makeCXLPacket(s, p) EXCEPT !.from = s])
      ELSE [k1 EXCEPT !.retryReq[s] = TRUE]

recvTimingReq(k, s, p) ==
  IF Admits(k, s, p)
  THEN schedTimingReq(reserve(k, s, p), getMasterPort(s, p),
                      [makeCXLPacket(s, p) EXCEPT !.from = s])
  ELSE [k EXCEPT !.retryReq[s] = TRUE]

\* Mutant: retry the first slave port only, as a bridge with one would.
retryHostOnly(k) == [k EXCEPT !.retryReq[Host] = FALSE]

retryStalledReq(k) == [k EXCEPT !.retryReq = [i \in Ports |-> FALSE]]

\* The requests whose response does not go through the routing table.
Unrouted == {"HostBiasCheck", "CXLcacheH2DReq", "CXLcacheH2DResp"}

\* Mutant: the next request is not scheduled.
sentReqNoNext(k, m) ==
  LET p == Head(k.reqList[m])
  IN  retryStalledReq(
        [k EXCEPT !.routeTo[p.req] = IF p.type \in Unrouted THEN @ ELSE p.from,
                  !.reqList[m] = Tail(@),
                  !.reqSend[m] = "idle"])

\* MasterPort::trySendTiming, once sendTimingReq has returned true.
sentReq(k, m) ==
  LET p == Head(k.reqList[m])
      rest == Tail(k.reqList[m])
  IN  retryStalledReq(
        [k EXCEPT !.routeTo[p.req] = IF p.type \in Unrouted THEN @ ELSE p.from,
                  !.reqList[m] = rest,
                  !.reqSend[m] = IF rest = <<>> THEN "idle" ELSE "scheduled"])

\* SlavePort::trySendTiming, once sendTimingResp has returned true.
sentResp(k, s) ==
  LET rest == Tail(k.respList[s])
  IN  [k EXCEPT !.respList[s] = rest,
                !.outstandingResponses[s] = @ - 1,
                !.respSend[s] = IF rest = <<>> THEN "idle" ELSE "scheduled",
                !.retryReq[s] = FALSE]

\* Mutants: the entry of the routing table stays; a coherence check is
\* answered like a snoop.
recvTimingRespKeepRoute(k, p) ==
  IF p.type = "HostBiasCheck" THEN schedTimingResp(k, DMA2, p)
  ELSE IF p.type = "CXLcacheH2DResp" THEN schedTimingResp(k, Host, p)
  ELSE schedTimingResp(k, k.routeTo[p.req], p)

recvTimingRespAllToHost(k, p) ==
  IF p.type \in Unrouted THEN schedTimingResp(k, Host, p)
  ELSE [schedTimingResp(k, k.routeTo[p.req], p) EXCEPT !.routeTo[p.req] = NoPort]

\* MasterPort::recvTimingResp.
recvTimingResp(k, p) ==
  IF p.type = "HostBiasCheck" THEN schedTimingResp(k, DMA2, p)
  ELSE IF p.type = "CXLcacheH2DResp" THEN schedTimingResp(k, Host, p)
  ELSE [schedTimingResp(k, k.routeTo[p.req], p) EXCEPT !.routeTo[p.req] = NoPort]

-----------------------------------------------------------------------------
(***************************************************************************)
(* The events.                                                             *)
(***************************************************************************)
InBridge(k) == UNION {Range(k.reqList[i]) \cup Range(k.respList[i]) : i \in Ports}
InFlight == InBridge(b) \cup UNION {peer[i] : i \in Ports}

\* Does a request of type t of the peer of slave port s need a response?  What
\* the cache of the CXL device sends may be an eviction; makeCXLPacket knows no
\* eviction of the host.
Needs(s, t) ==
  IF s = CXLLink /\ t \in {"CXLcache", "HostBiasCheck"} THEN BOOLEAN ELSE {TRUE}

\* The type and the address of the requests that the peer of slave port s
\* makes, and whether they need a response: the host's accesses to devices and
\* its snoops of the CXL device; a device's DMA, and the CXL device's accesses
\* to the memory of the host and its coherence checks of its own memory.
Offers(s) ==
  {o \in Types \X Ports \X BOOLEAN :
    /\ o[1] \in Traffic
    /\ o[3] \in Needs(s, o[1])
    /\ \/ s = Host /\ o[1] = "Default" /\ o[2] \in Links
       \/ s = Host /\ o[1] = "CXLcacheH2DReq" /\ o[2] = Host
       \/ s \in Links /\ o[1] = "Default" /\ o[2] = Host
       \/ s = CXLLink /\ o[1] = "CXLcache" /\ o[2] = Host
       \/ s = CXLLink /\ o[1] = "HostBiasCheck" /\ o[2] = CXLLink}

\* The peer of slave port s sends a request, for the first time or again.  The
\* Request of an entry of the routing table exists as long as the entry, so
\* another request is another object.
RecvReq(s, r, o) ==
  LET p == [req |-> r, type |-> o[1], dest |-> o[2], from |-> s,
            needsResponse |-> o[3]]
  IN  /\ ~ aborted
      /\ r \notin {q.req : q \in InFlight}
      /\ b.routeTo[r] = NoPort
      /\ b' = recvTimingReq(b, s, p)
      /\ UNCHANGED <<peer, aborted>>

\* The peer of master port m takes the head p of its queue.  An eviction ends
\* there, in a memory, in a cache or in the crossbar of the host.  So does the
\* answer to a snoop that missed in the device: the crossbar answers the cache
\* that asked.
Taken(m, p) ==
  /\ b' = sentReq(b, m)
  /\ peer' = IF p.needsResponse /\ ~ (m = Host /\ p.type = "CXLcacheH2DResp")
             THEN [peer EXCEPT ![m] = @ \cup {p}] ELSE peer
  /\ UNCHANGED aborted

\* Or p is a coherence check that hits no cache of the host, or that of a
\* writeback: within sendTimingReq the crossbar of the host passes the same
\* packet to slavePort.  The I/O cache on the way asserts that this succeeds.
Missed(m, p) ==
  LET k == recvTimingReq(b, Host, p)
  IN  /\ m = Host /\ p.type = "HostBiasCheck"
      /\ IF Admits(b, Host, p)
         THEN b' = sentReq(k, Host) /\ UNCHANGED aborted
         ELSE b' = k /\ aborted' = TRUE
      /\ UNCHANGED peer

\* sendEvent of master port m, or the retry its peer owes, with what the peer
\* does within sendTimingReq.
SendReq(m) ==
  /\ ~ aborted
  /\ b.reqSend[m] # "idle"
  /\ LET p == Head(b.reqList[m]) IN Taken(m, p) \/ Missed(m, p)

\* The peer refuses the head of the queue of master port m.
RefuseReq(m) ==
  /\ ~ aborted
  /\ b.reqSend[m] = "scheduled"
  /\ b' = [b EXCEPT !.reqSend[m] = "refused"]
  /\ UNCHANGED <<peer, aborted>>

\* The peer of master port m answers request p.  The CXL device answers a
\* snoop that hits, and the host a coherence check that hits.
RecvResp(m, p) ==
  /\ ~ aborted
  /\ p \in peer[m]
  /\ p.type = "HostBiasCheck" => m = Host
  /\ b' = recvTimingResp(b, [p EXCEPT !.type = IF @ = "CXLcacheH2DReq"
                                               THEN "CXLcacheH2DResp" ELSE @])
  /\ peer' = [peer EXCEPT ![m] = @ \ {p}]
  /\ UNCHANGED aborted

\* The CXL device takes back a coherence check that missed in the host: its
\* memory answers its processor and nothing goes back to the bridge.
TakeBack(p) ==
  /\ ~ aborted
  /\ p \in peer[CXLLink]
  /\ p.type = "HostBiasCheck"
  /\ peer' = [peer EXCEPT ![CXLLink] = @ \ {p}]
  /\ UNCHANGED <<b, aborted>>

\* A snoop that misses in the CXL device comes back as a request.
SnoopMissed(p) ==
  LET q == [p EXCEPT !.type = "CXLcacheH2DResp", !.dest = Host]
  IN  /\ ~ aborted
      /\ p \in peer[CXLLink]
      /\ p.type = "CXLcacheH2DReq"
      /\ b' = recvTimingReq(b, CXLLink, q)
      /\ peer' = IF Admits(b, CXLLink, q)
                 THEN [peer EXCEPT ![CXLLink] = @ \ {p}] ELSE peer
      /\ UNCHANGED aborted

\* sendEvent of slave port s, or the retry its peer owes.
SendResp(s) ==
  /\ ~ aborted
  /\ b.respSend[s] # "idle"
  /\ IF b.outstandingResponses[s] = 0
     THEN aborted' = TRUE /\ UNCHANGED b
     ELSE b' = sentResp(b, s) /\ UNCHANGED aborted
  /\ UNCHANGED peer

RefuseResp(s) ==
  /\ ~ aborted
  /\ b.respSend[s] = "scheduled"
  /\ b' = [b EXCEPT !.respSend[s] = "refused"]
  /\ UNCHANGED <<peer, aborted>>

\* A step of the peers with a request they hold.
PeerStep(p) ==
  \/ \E m \in Ports : RecvResp(m, p)
  \/ TakeBack(p)
  \/ SnoopMissed(p)

\* What the bridge and its peers do with the requests admitted so far.
Progress ==
  \/ \E m \in Ports : SendReq(m) \/ RefuseReq(m)
  \/ \E i \in Ports : \E p \in peer[i] : PeerStep(p)
  \/ \E s \in Ports : SendResp(s) \/ RefuseResp(s)

Next ==
  \/ \E s \in Ports, r \in Reqs : \E o \in Offers(s) : RecvReq(s, r, o)
  \/ Progress

Spec == Init /\ [][Next]_vars

\* Scheduled events are processed, a peer does not refuse for ever, and a
\* request that a peer took makes progress.  Nobody has to send a request.
Fairness ==
  /\ \A m \in Ports : WF_vars(SendReq(m))
  /\ \A s \in Ports : WF_vars(SendResp(s))
  /\ \A r \in Reqs :
       WF_vars(\E i \in Ports : \E p \in peer[i] : p.req = r /\ PeerStep(p))

LiveSpec == Spec /\ Fairness

-----------------------------------------------------------------------------
(***************************************************************************)
(* Properties.                                                             *)
(***************************************************************************)

\* Type invariant.  A port never reserves more than respQueueLimit responses,
\* a request queue never outgrows reqQueueLimit (schedTimingReq asserts it),
\* and a port waits for its sendEvent or for a retry exactly while it has
\* something to send (schedule asserts that the event is not scheduled yet).
TypeOK ==
  /\ b \in Bridge
  /\ peer \in [Ports -> SUBSET Packet]
  /\ aborted \in BOOLEAN
  /\ \A i \in Ports :
       /\ Len(b.reqList[i]) <= reqQueueLimit
       /\ b.reqSend[i] = "idle" <=> b.reqList[i] = <<>>
       /\ b.respSend[i] = "idle" <=> b.respList[i] = <<>>

\* The packets admitted at slave port s that are on their way and need a
\* response.
Owed(s) == {p \in InFlight : p.from = s /\ p.needsResponse}

\* Every request admitted at a slave port that is still on its way and needs a
\* response has a reserved place in that port's response queue: "all checks are
\* done when the request is accepted on the slave side, so we are guaranteed to
\* have space for the response" (MasterPort::recvTimingResp).  It is what makes
\* accepting every response, and the assertion outstandingResponses != 0, right.
ReservationsCover ==
  \A s \in Ports : Cardinality(Owed(s)) <= b.outstandingResponses[s]

\* Without coherence checks and snoops no reservation is ever lost, and none is
\* made for an eviction: a port holds as many as it has requests on their way
\* that need a response.
ReservationsExact ==
  \A s \in Ports : Cardinality(Owed(s)) = b.outstandingResponses[s]

\* The routing table knows the way back of every request that a peer holds and
\* will answer through the table: recvTimingResp dereferences what it finds
\* without a test.  It has no entry for a request whose packet is in the bridge:
\* trySendTiming asserts that it finds none.  An entry outlives its request only
\* at slavePort_DMA2: nothing erases the entry of an eviction, which trySendTiming
\* enters like any other.
RoutesKnown ==
  \A r \in Reqs :
    LET held == {p \in UNION {peer[i] : i \in Ports} :
                   p.req = r /\ p.type \notin Unrouted}
    IN  /\ \A p \in held : b.routeTo[r] = p.from
        /\ \A p \in InBridge(b) : p.req = r => b.routeTo[r] = NoPort
        /\ held = {} => b.routeTo[r] \in {NoPort, CXLLink}

\* A response leaves by the slave port that admitted its request, the fixed
\* destinations of coherence checks and snoops included.
ResponsesGoHome ==
  \A s \in Ports : \A p \in Range(b.respList[s]) : p.from = s

\* A port stalls its peer only as long as a limit is reached: whatever makes
\* room, in a request queue (MasterPort::trySendTiming, for every slave port) or
\* among the reservations (SlavePort::trySendTiming, for its own port), ends the
\* stall.  recvTimingReq refuses a stalled port without looking at the limits.
StallHasCause ==
  \A s \in Ports :
    b.retryReq[s] => respQueueFull(b, s) \/ \E m \in Ports : reqQueueFull(b, m)

\* Without coherence checks and snoops, whoever is stalled waits for something
\* that is under way: a request that has yet to leave, which will end every
\* stall, or a response that will leave by the same port.  A reservation that is
\* never given back would leave the peer waiting for nothing.
StalledIsPending ==
  \A s \in Ports :
    b.retryReq[s] => Owed(s) # {} \/ \E m \in Ports : b.reqList[m] # <<>>

\* A port that stalls a request offers it a retry later ("call all slave ports
\* retry stalled request just to be safe and avoid a request being infinitely
\* stalled", MasterPort::trySendTiming).
StalledIsRetried ==
  \A s \in Ports : b.retryReq[s] ~> (~ b.retryReq[s] \/ aborted)

\* Every admitted request is answered at the port that admitted it, whatever
\* the other ports do and however often peers refuse.
EveryRequestAnswered ==
  \A r \in Reqs, s \in Ports :
    (\E p \in Owed(s) : p.req = r) ~> (\A p \in Owed(s) : p.req # r)

=============================================================================
