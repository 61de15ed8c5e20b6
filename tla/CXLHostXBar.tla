---------------------------- MODULE CXLHostXBar ----------------------------
(***************************************************************************)
(* The memory bus of the host, src/gem5/src/mem/cxl_host_xbar.cc, as the   *)
(* timing protocol drives it: the layers of xbar.cc that arbitrate for its *)
(* ports, the routing table, the snoops that a cache promised to answer,   *)
(* and the fake snoop filter, which sends a host request for a line that   *)
(* the CXL device took to the root complex instead of the memory.          *)
(*                                                                         *)
(* The crossbar is a record k, and each operator on k is one C++ function. *)
(* Above it are the caches of the host and the I/O cache, below it the     *)
(* memory and the root complex.  Whether a cache promises to answer a      *)
(* snoop, and whether a peer takes a request, is up to them.               *)
(***************************************************************************)
EXTENDS Integers, Sequences, FiniteSets

CONSTANTS
  Reqs,             \* the Request objects of the simulation
  Caches,           \* the ports of the host's caches
  Io,               \* the port of the I/O cache
  HostLines,        \* lines of the host's memory (0xa0000000 and above)
  DevLines,         \* lines of the CXL device's memory
  Traffic,          \* the packets that the ports above may send
  None              \* no port, no request, no packet

Mem == "mem"        \* the port of the memory
RC == "rc"          \* the default port: the slave port of the root complex
MemSide == {Mem, RC}
CpuSide == Caches \cup {Io}

ASSUME PortAssumption ==
  /\ Io \notin Caches
  /\ CpuSide \cap MemSide = {}
  /\ None \notin CpuSide \cup MemSide \cup Reqs
  /\ HostLines \cap DevLines = {}

VARIABLES
  x,                \* the crossbar
  pkt,              \* pkt[r]: the packet of request r, None when unused
  blocked,          \* blocked[c]: the request that port c waits to send again
  heldResp,         \* heldResp[p]: the response that port p waits to send again
  aborted           \* has an assertion or a panic ended the simulation?

vars == <<x, pkt, blocked, heldResp, aborted>>

\* CXLPacketType, as far as the crossbar tells its values apart.
Types == {"Default", "CXLcache", "HostBiasCheck",
          "CXLcacheH2DReq", "CXLcacheH2DResp"}

\* The commands, by what the crossbar asks of them.
Cmds == {"ReadSharedReq", "ReadExReq", "UpgradeReq", "WritebackDirty", "CleanEvict"}
needsResponse(p) == p.cmd \in {"ReadSharedReq", "ReadExReq", "UpgradeReq"}
isEviction(p) == p.cmd \in {"WritebackDirty", "CleanEvict"}

\* A packet and the port it is at: that of its source (src) while it waits for
\* a retry, of the peer that took it, or of the cache that will answer it.
Packet ==
  [src: CpuSide, cmd: Cmds, line: HostLines \cup DevLines, type: Types,
   at: CpuSide \cup MemSide]

\* The requests that come from above: those of the caches, DMA through the I/O
\* cache, and the CXL device's accesses to the host's memory and coherence
\* checks of its own memory, which pass the I/O cache.  The evictions of lines
\* of host memory from the device's cache, which pass it likewise, are left out.
ASSUME TrafficAssumption ==
  /\ None \notin Packet
  /\ Traffic \subseteq Packet
  /\ \A p \in Traffic :
       /\ p.at = p.src
       /\ \/ p.type = "Default" /\ (p.src = Io => p.line \in HostLines)
          \/ /\ p.src = Io /\ ~ isEviction(p)
             /\ \/ p.type = "CXLcache" /\ p.line \in HostLines
                \/ p.type = "HostBiasCheck" /\ p.line \in DevLines

Layer(Src) ==
  [state: {"IDLE", "BUSY"}, waitingForLayer: Seq(Src), waitingForPeer: Src \cup {None}]

NewLayer == [state |-> "IDLE", waitingForLayer |-> <<>>, waitingForPeer |-> None]

\* The response layers are asked by the memory side ports, and by the ports
\* that mirror the CPU side ports for snoop responses.
XBar ==
  [reqLayers: [MemSide -> Layer(CpuSide)],
   respLayers: [CpuSide -> Layer(MemSide \cup CpuSide)],
   routeTo: [Reqs -> CpuSide \cup {None}],
   outstandingSnoop: SUBSET Reqs,
   fake_snoop_filter: SUBSET HostLines]

Init ==
  /\ x = [reqLayers |-> [m \in MemSide |-> NewLayer],
          respLayers |-> [c \in CpuSide |-> NewLayer],
          routeTo |-> [r \in Reqs |-> None],
          outstandingSnoop |-> {},
          fake_snoop_filter |-> {}]
  /\ pkt = [r \in Reqs |-> None]
  /\ blocked = [c \in CpuSide |-> None]
  /\ heldResp = [p \in CpuSide \cup MemSide |-> None]
  /\ aborted = FALSE

-----------------------------------------------------------------------------
(***************************************************************************)
(* BaseXBar::Layer.  Between sendRetry and the end of retryWaiting the     *)
(* state is RETRY, here IDLE: both admit the port that is retried.         *)
(***************************************************************************)

\* tryTiming: its test, and what it does when the layer is not free.
free(l) == l.state = "IDLE" /\ l.waitingForPeer = None
wait(l, src) == [l EXCEPT !.waitingForLayer = Append(@, src)]

succeededTiming(l) == [l EXCEPT !.state = "BUSY"]

\* Mutant: the layer forgets which port the peer refused.
failedTimingForgets(l, src) == [l EXCEPT !.state = "BUSY"]

failedTiming(l, src) == [l EXCEPT !.state = "BUSY", !.waitingForPeer = src]

releaseLayer(l) == [l EXCEPT !.state = "IDLE"]

\* Mutant: the peer is cleared before the port is put in line.
recvRetryCleared(l) ==
  [l EXCEPT !.waitingForPeer = None, !.waitingForLayer = <<None>> \o @]

recvRetry(l) ==
  [l EXCEPT !.waitingForLayer = <<l.waitingForPeer>> \o @, !.waitingForPeer = None]

\* Does retryWaiting run now?
mayRetry(l) == free(l) /\ l.waitingForLayer # <<>>
popWaiting(l) == [l EXCEPT !.waitingForLayer = Tail(@)]

-----------------------------------------------------------------------------
(***************************************************************************)
(* The functions of CXLHostXBar.                                           *)
(***************************************************************************)

\* Does findPort find the line in the fake snoop filter?
needsDevSnoop(k, p) ==
  /\ p.type = "Default"
  /\ p.line \in k.fake_snoop_filter

findPort(k, p) ==
  IF needsDevSnoop(k, p) \/ p.line \in DevLines THEN RC ELSE Mem

\* findPort panics when another command finds its line in the filter.
unexpectedAccess(k, p) ==
  needsDevSnoop(k, p) /\ p.cmd \notin {"ReadSharedReq", "ReadExReq"}

\* What findPort does to the type of the request and to the filter.
markSnoop(k, p) ==
  IF needsDevSnoop(k, p) THEN [p EXCEPT !.type = "CXLcacheH2DReq"] ELSE p

eraseFakeSF(k, p) ==
  IF needsDevSnoop(k, p) /\ p.cmd = "ReadExReq"
  THEN [k EXCEPT !.fake_snoop_filter = @ \ {p.line}] ELSE k

setFakeSF(k, p) ==
  IF p.line \in HostLines /\ p.type \notin {"Default", "CXLcacheH2DResp"}
  THEN [k EXCEPT !.fake_snoop_filter = @ \cup {p.line}] ELSE k

\* The caches that may promise to answer packet p, sent by port c: forwardTiming
\* asks all others.  The I/O cache holds lines of the host's memory only, and
\* lets every CXL packet pass.
Responders(c, p) ==
  IF p.type = "CXLcacheH2DResp" \/ ~ needsResponse(p) THEN {}
  ELSE (IF p.type = "Default" /\ p.line \in HostLines THEN CpuSide ELSE Caches) \ {c}

sinkPacket(p, by) == by # None \/ p.cmd = "CleanEvict"
forwardPacket(p) == p.cmd # "UpgradeReq"

\* Mutant: a check that the host's caches miss keeps its entry.
addRouteOfCheck(k, r, c, p, by) ==
  IF ~ needsResponse(p) \/ p.type = "CXLcacheH2DResp" THEN k
  ELSE [k EXCEPT !.routeTo[r] = c]

\* The routing table after a packet has passed.  The answer to a snoop of the
\* device uses the entry of the request that caused the snoop, and a coherence
\* check that no cache answers is answered elsewhere.
addRoute(k, r, c, p, by) ==
  IF \/ ~ needsResponse(p)
     \/ p.type = "CXLcacheH2DResp"
     \/ p.type = "HostBiasCheck" /\ ~ sinkPacket(p, by)
  THEN k ELSE [k EXCEPT !.routeTo[r] = c]

\* The outcomes of recvTimingReq for packet p of request r from port c, when
\* cache "by" answers it (None: none does) and the peer below takes it or not.
\* A packet that nobody has to answer any more is None.
Outcome(k, p, ok) == [k |-> k, p |-> p, ok |-> ok]

recvTimingReq(k0, r, c, p0, by, taken) ==
  LET m == findPort(k0, p0)
      p == markSnoop(k0, p0)
      k == eraseFakeSF(k0, p0)
      passed == [addRoute(k, r, c, p, by) EXCEPT !.reqLayers[m] = succeededTiming(@)]
  IN  IF ~ free(k.reqLayers[m])
      THEN Outcome([k EXCEPT !.reqLayers[m] = wait(@, c)], p, FALSE)
      ELSE IF by # None
      THEN Outcome([passed EXCEPT !.outstandingSnoop = @ \cup {r}],
                   [p EXCEPT !.at = by], TRUE)
      ELSE IF sinkPacket(p, by) THEN Outcome(passed, None, TRUE)
      ELSE IF ~ forwardPacket(p)
      THEN Outcome([k EXCEPT !.reqLayers[m] = succeededTiming(@)], None, TRUE)
      ELSE IF ~ taken
      THEN Outcome([k EXCEPT !.reqLayers[m] = failedTiming(@, c)], p, FALSE)
      ELSE Outcome(passed,
                   IF needsResponse(p) /\ p.type # "HostBiasCheck"
                   THEN [p EXCEPT !.at = m] ELSE None, TRUE)

\* recvTimingResp, and recvTimingSnoopResp for a response to one of our snoops,
\* once the response layer of port c is free.
deliver(k, r, c, p) ==
  [setFakeSF(k, p) EXCEPT !.routeTo[r] = None,
                          !.respLayers[c] = succeededTiming(@)]

deliverSnoop(k, r, c) ==
  [k EXCEPT !.outstandingSnoop = @ \ {r},
            !.routeTo[r] = None,
            !.respLayers[c] = succeededTiming(@)]

-----------------------------------------------------------------------------
(***************************************************************************)
(* The events.                                                             *)
(***************************************************************************)

\* The packets that the I/O cache passes on at once; those of its own misses wait
\* in its queue like those of the other caches.
Bypassing == {"CXLcache", "HostBiasCheck", "CXLcacheH2DResp"}

\* The end of retryWaiting: a layer that the port did not use is busy until the
\* next clock edge.
endRetry(k, m) ==
  IF m = None THEN k ELSE [k EXCEPT !.reqLayers[m] = succeededTiming(@)]

\* Request r, as packet p from port c, meets crossbar k: recvTimingReq, with
\* what its caller does with the result.  The caller keeps a refused packet and
\* waits for a retry; only the I/O cache asserts that the crossbar takes what
\* passes it by.  m is the request layer that is in retryWaiting, or None.
Pass(k, bl, r, c, p, m) ==
  \E by \in Responders(c, markSnoop(k, p)) \cup {None}, taken \in BOOLEAN :
    LET out == recvTimingReq(k, r, c, p, by, taken)
    IN  IF \/ unexpectedAccess(k, p)
           \/ p.type \in Bypassing /\ ~ out.ok
        THEN aborted' = TRUE /\ UNCHANGED <<x, pkt, blocked>>
        ELSE /\ x' = endRetry(out.k, m)
             /\ pkt' = [pkt EXCEPT ![r] = out.p]
             /\ blocked' = IF out.ok THEN bl ELSE [bl EXCEPT ![c] = r]
             /\ UNCHANGED aborted

\* A new request.  What passes the I/O cache by does so even while that waits
\* for a retry.
SendReq(c, r, p) ==
  /\ ~ aborted
  /\ pkt[r] = None
  /\ p.type = "Default" => blocked[c] = None
  /\ Pass(x, blocked, r, c, p, None)
  /\ UNCHANGED heldResp

\* An express snoop of a cache whose request another cache above it answers: it
\* uses no layer and ends here, but findPort has looked at it.
ExpressSnoop(p) ==
  /\ ~ aborted
  /\ p.src \in Caches /\ p.cmd \in {"ReadExReq", "UpgradeReq"}
  /\ x' = IF unexpectedAccess(x, p) THEN x ELSE eraseFakeSF(x, p)
  /\ aborted' = unexpectedAccess(x, p)
  /\ UNCHANGED <<pkt, blocked, heldResp>>

\* retryWaiting of request layer m: the first port in line sends its packet
\* again, which may lead to another layer, or has dropped it (a squashed
\* eviction).
retryWaiting(k, m) ==
  LET c == Head(k.reqLayers[m].waitingForLayer)
      r == blocked[c]
      k1 == [k EXCEPT !.reqLayers[m] = popWaiting(@)]
      unblocked == [blocked EXCEPT ![c] = None]
  IN  \/ Pass(k1, unblocked, r, c, pkt[r], m)
      \/ /\ isEviction(pkt[r])
         /\ x' = endRetry(k1, m)
         /\ pkt' = [pkt EXCEPT ![r] = None]
         /\ blocked' = unblocked
         /\ UNCHANGED aborted

\* Layer m of crossbar k is free or has been retried: retryWaiting, if a port
\* waits and the peer does not owe a retry.
retryIfFree(k, m) ==
  IF mayRetry(k.reqLayers[m]) THEN retryWaiting(k, m)
  ELSE x' = k /\ UNCHANGED <<pkt, blocked, aborted>>

\* Mutant: a layer that becomes free does not wake the ports that wait for it.
ReleaseReqNoRetry(m) ==
  /\ ~ aborted
  /\ x.reqLayers[m].state = "BUSY"
  /\ x' = [x EXCEPT !.reqLayers[m] = releaseLayer(@)]
  /\ UNCHANGED <<pkt, blocked, heldResp, aborted>>

\* releaseEvent of request layer m.
ReleaseReq(m) ==
  /\ ~ aborted
  /\ x.reqLayers[m].state = "BUSY"
  /\ retryIfFree([x EXCEPT !.reqLayers[m] = releaseLayer(@)], m)
  /\ UNCHANGED heldResp

\* Mutant: a retry is acted upon only when no other port waits.
recvReqRetryAlone(m) ==
  /\ ~ aborted
  /\ x.reqLayers[m].waitingForPeer # None
  /\ x.reqLayers[m].waitingForLayer = <<>>
  /\ retryIfFree([x EXCEPT !.reqLayers[m] = recvRetry(@)], m)
  /\ UNCHANGED heldResp

\* The peer of memory side port m retries what it refused.
recvReqRetry(m) ==
  /\ ~ aborted
  /\ x.reqLayers[m].waitingForPeer # None
  /\ retryIfFree([x EXCEPT !.reqLayers[m] = recvRetry(@)], m)
  /\ UNCHANGED heldResp

\* Port f answers request r with packet p, for the first time or again: a
\* memory side port (recvTimingResp) or a cache (recvTimingSnoopResp).
Answer(k, f, r, p) ==
  LET c == k.routeTo[r]
  IN  IF free(k.respLayers[c])
      THEN /\ x' = IF f \in MemSide THEN deliver(k, r, c, p) ELSE deliverSnoop(k, r, c)
           /\ pkt' = [pkt EXCEPT ![r] = None]
           /\ heldResp' = [heldResp EXCEPT ![f] = None]
      ELSE /\ x' = [k EXCEPT !.respLayers[c] = wait(@, f)]
           /\ pkt' = [pkt EXCEPT ![r] = p]
           /\ heldResp' = [heldResp EXCEPT ![f] = r]

\* The peer of port f has an answer.  The CXL device answers a snoop that hits.
SendResp(f, r) ==
  LET p == pkt[r]
  IN  /\ ~ aborted
      /\ p # None /\ heldResp[f] = None
      /\ p.at = f /\ f # p.src
      /\ Answer(x, f, r, IF f = RC /\ p.type = "CXLcacheH2DReq"
                         THEN [p EXCEPT !.type = "CXLcacheH2DResp"] ELSE p)
      /\ UNCHANGED <<blocked, aborted>>

\* A snoop that misses in the CXL device comes back as a request, through the
\* I/O cache.
SnoopMissed(r) ==
  /\ ~ aborted
  /\ pkt[r] # None
  /\ pkt[r].at = RC /\ pkt[r].type = "CXLcacheH2DReq"
  /\ Pass(x, blocked, r, Io, [pkt[r] EXCEPT !.type = "CXLcacheH2DResp"], None)
  /\ UNCHANGED heldResp

\* releaseEvent of response layer c: the first port in line sends its response
\* again.
ReleaseResp(c) ==
  LET k == [x EXCEPT !.respLayers[c] = releaseLayer(@)]
      f == Head(k.respLayers[c].waitingForLayer)
      r == heldResp[f]
  IN  /\ ~ aborted
      /\ x.respLayers[c].state = "BUSY"
      /\ IF k.respLayers[c].waitingForLayer = <<>>
         THEN x' = k /\ UNCHANGED <<pkt, heldResp>>
         ELSE Answer([k EXCEPT !.respLayers[c] = popWaiting(@)], f, r, pkt[r])
      /\ UNCHANGED <<blocked, aborted>>

Next ==
  \/ \E r \in Reqs, p \in Traffic : SendReq(p.src, r, p)
  \/ \E p \in Traffic : ExpressSnoop(p)
  \/ \E m \in MemSide : ReleaseReq(m) \/ recvReqRetry(m)
  \/ \E f \in MemSide \cup CpuSide, r \in Reqs : SendResp(f, r)
  \/ \E r \in Reqs : SnoopMissed(r)
  \/ \E c \in CpuSide : ReleaseResp(c)

Spec == Init /\ [][Next]_vars

\* A step that ends the wait of port c for a retry of its request.
Unblock(c) ==
  /\ \E m \in MemSide : ReleaseReq(m) \/ recvReqRetry(m)
  /\ blocked[c] # None /\ blocked'[c] = None

\* Release events are processed, a peer retries what it refused and does not
\* refuse a port for ever, and answers leave a port in the end (its queue is
\* ordered by time).  Nobody has to send a request.
Fairness ==
  /\ \A m \in MemSide : WF_vars(ReleaseReq(m)) /\ WF_vars(recvReqRetry(m))
  /\ \A c \in CpuSide : WF_vars(ReleaseResp(c)) /\ SF_vars(Unblock(c))
  /\ \A r \in Reqs :
       SF_vars(SnoopMissed(r) \/ \E f \in MemSide \cup CpuSide : SendResp(f, r))

LiveSpec == Spec /\ Fairness

-----------------------------------------------------------------------------
(***************************************************************************)
(* Properties.                                                             *)
(***************************************************************************)

\* Type invariant.
TypeOK ==
  /\ x \in XBar
  /\ pkt \in [Reqs -> Packet \cup {None}]
  /\ blocked \in [CpuSide -> Reqs \cup {None}]
  /\ heldResp \in [CpuSide \cup MemSide -> Reqs \cup {None}]
  /\ aborted \in BOOLEAN

\* The port at place i of the line for layer l: place 0 is the port whose
\* packet the peer refused.
Place(l, i) == IF i = 0 THEN l.waitingForPeer ELSE l.waitingForLayer[i]
Places(l) == 0 .. Len(l.waitingForLayer)

Waits(layers, p) ==
  \E m \in DOMAIN layers : \E i \in Places(layers[m]) : Place(layers[m], i) = p

NotTwice(layers, p) ==
  \A m, n \in DOMAIN layers : \A i \in Places(layers[m]), j \in Places(layers[n]) :
    Place(layers[m], i) = p /\ Place(layers[n], j) = p => m = n /\ i = j

\* A port that was refused stands in exactly one line, and no port stands in a
\* line without having been refused: tryTiming asserts "the port should not be
\* waiting already", and a port that stood in none would never be retried.
WaitsOnce ==
  /\ \A c \in CpuSide :
       /\ blocked[c] # None <=> Waits(x.reqLayers, c)
       /\ NotTwice(x.reqLayers, c)
  /\ \A f \in CpuSide \cup MemSide :
       /\ heldResp[f] # None <=> Waits(x.respLayers, f)
       /\ NotTwice(x.respLayers, f)

\* Whenever ports wait for a layer, something will wake them: the layer is busy
\* and will be released, or the peer owes a retry.
WaitersAreWoken ==
  /\ \A m \in MemSide :
       x.reqLayers[m].waitingForLayer # <<>> => ~ free(x.reqLayers[m])
  /\ \A c \in CpuSide :
       x.respLayers[c].waitingForLayer # <<>> => x.respLayers[c].state = "BUSY"

\* The routing table has an entry for a request exactly while somebody owes its
\* answer, and it names the port that asked; the answer to a snoop of the device
\* that missed, which comes in through the I/O cache, uses the entry of the
\* request that caused the snoop (recvTimingResp and recvTimingSnoopResp assert
\* that they find a route, recvTimingReq that it finds none).  A cache owes the
\* answer exactly when the snoop is outstanding.
RoutesKnown ==
  \A r \in Reqs :
    /\ x.routeTo[r] = IF pkt[r] # None /\ pkt[r].at # pkt[r].src
                      THEN pkt[r].src ELSE None
    /\ r \in x.outstandingSnoop <=>
         pkt[r] # None /\ pkt[r].at # pkt[r].src /\ pkt[r].at \in CpuSide

\* findPort: "Need Snoop to CXL Dev/Cache".  A request that has to snoop the
\* device is not sent to the memory before the device has answered.
SnoopBeforeMemory ==
  \A r \in Reqs :
    pkt[r] # None /\ pkt[r].type = "CXLcacheH2DReq" => pkt[r].at # Mem

\* Every request that meets the crossbar is answered or passed on, whatever
\* the other ports do and however often peers refuse.
EveryRequestServed ==
  \A r \in Reqs : pkt[r] # None ~> (pkt[r] = None \/ aborted)

=============================================================================
