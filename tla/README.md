# TLA+ verification of gem5_CXL

gem5_CXL extends the gem5 full-system simulator with CXL devices: a PCI Express
fabric (root complex, switch, links), CXL.mem and CXL.cache messages carried in
gem5 packets, and a device-side coherence engine. This directory holds TLA+
models of the parts the repository adds to gem5, the TLC configurations that
check them, and TLAPS proofs about them.

## Inventory

| Part | Source (under `src/gem5/src/`) | State | Operations | Interacts with |
|---|---|---|---|---|
| PCIELink | `mem/pcie_link.{cc,hh}` | packet on the link, replay buffer, sequence numbers, three events, retry flags, `replayPacket`, `replayDLLP`, `retransmit` | `linkTransmitInterface`, `txDone`, `linkReceiveInterface`, `timeoutFunc`, `sendAck` | the bridge or device on each side |
| PciBridge (root complex and switch) | `mem/PciBridge.{cc,hh}` | request queues of the master ports, response queues of the slave ports, `outstandingResponses`, `retryReq`, `routeTo`, configuration registers | `recvTimingReq`, `recvTimingResp`, `trySendTiming`, `retryStalledReq`, `recvReqRetry`, `recvRespRetry`, `readConfig`, `writeConfig` | PCIELink, CXLHostXBar, HomeAgent |
| HomeAgent | `mem/PciBridge.cc:1965-2745` | none of its own: it rewrites packets | `makeCXLPacket`, `makeCXLResp`, `checkCoherence`, `makeCXLSnpReq`, `forwardTiming` | PciBridge, host crossbar |
| CXLHostXBar | `mem/cxl_host_xbar.{cc,hh}` | layers, `routeTo`, `outstandingSnoop`, the set of lines the device may hold ("fake snoop filter") | `recvTimingReq`, `recvTimingResp`, `recvTimingSnoopReq`, `recvTimingSnoopResp` | caches, PciBridge |
| CXLDevice, DCOH | `dev/cxl/TestDev/CXLDevice.{cc,hh}` | bias table, pending host transfers | `recvTimingReq`, `makeCXLresponse`, `makeSnoopResp`, `makeCXLrequest`, `set_bias_mode` | CXLXBar, PCIELink |
| CXLXBar | `dev/cxl/TestDev/CXLXBar.{cc,hh}` | layers, `routeTo`, bias check in progress | `recvTimingReq`, `recvTimingResp`, `recvTimingSnoopResp`, `CheckBias` | device caches, DCOH |
| CXLProcessor | `dev/cxl/TestDev/CXLProcessor.{cc,hh}` | command registers | timing and atomic requests of the device core | CXLXBar |
| CXL packets | `mem/cxl/*` | message fields | constructors, `print`, `getSize_Bits` | all of the above |

Everything below runs inside the gem5 event queue: a handler runs to completion,
several events may be due at one tick, and a port call (`sendTimingReq`,
`sendTimingResp`, a retry) runs the peer's handler inside the caller's. A peer may
refuse a packet and then owes a retry. The hard behaviours are therefore
re-entrant calls, refusals and retries in every order, queues at their limit,
replays racing acknowledgements, and packets that change their type on the way so
that another component stops recognising them.

## Modules

Each component is a record (or a function of records), each operator on the record
is one C++ function with the same name where TLA+ allows it, and each action is one
whole event handler, the nested port calls included.

| Module | Models | State and actions |
|---|---|---|
| `PCIELink` | `PCIELink::Link` at both ends of a link, with the device on each side | `link[l]` has the fields of `Link` (the packet on the link, `replayPacket`, `replayDLLP`, the replay buffer, `sendSeqNum`, `recvSeqNum`, `lastAcked`, `retransmit`, `retransmitIdx`, the retry flags and which events are scheduled), plus the packet each device holds for a retry (`held`) and what the interface accepted and delivered (`sent`, `rcvd`). Actions: `Offer` (`linkTransmitInterface`), `txDone` with the other side's `linkReceiveInterface`, `timeoutFunc`, `sendAck`. |
| `PCIELinkTimed` | the same with the clock of the event queue | `due[l]` holds the time left until each event; `Tick` lets time pass. Its actions are those of `PCIELink`, taken when their event is due. |
| `ReliableLink` | what a link promises: a bounded FIFO channel each way | `sent`, `rcvd`; `PCIELink` implements it. |
| `PciBridge` | the root complex in timing mode | `b` has the request queue of each master port, the response queue of each slave port, `outstandingResponses`, `retryReq`, `routeTo` and the state of each `sendEvent`; `peer[i]` is what the peer of master port `i` holds; `aborted` records that an assertion ended the simulation. Actions: `RecvReq`, `SendReq` (`trySendTiming` with what the peer does inside it), `RefuseReq`, `RecvResp`, `TakeBack`, `SnoopMissed`, `SendResp`, `RefuseResp`. |
| `PciRootComplex` | the window registers of the root complex, composed with `PciBridge` | `conf[i]` has the registers and valid flags of the three windows of link `i`, `bars[i]` what the device below it claims, `told` the ranges last announced to the host, `plan` and `booted` the operating system that programs them. Actions: `WriteConfig` (`writeConfig` of a window register, with the range change if its branch sets `flag`), `WriteOther` (of any other register), `RecvRangeChange`, `StartDrivers`, `Access` (`recvTimingReq` with `getMasterPort(Addr)`), and the actions of `PciBridge`. |
| `CXLHostXBar` | the memory bus of the host in timing mode, with the layers of `xbar.cc` | `x` has the request and response layers (state, `waitingForLayer`, `waitingForPeer`), `routeTo`, `outstandingSnoop` and `fake_snoop_filter`; `pkt[r]` is the packet of a request and where it is, `blocked` and `heldResp` what a port waits to send again. Actions: `SendReq`, `ExpressSnoop`, `ReleaseReq`, `recvReqRetry`, `SendResp`, `SnoopMissed`, `ReleaseResp`. |
| `CXLProcessor` | the request port of the device's processor | `port` has `transmitList`, `pendingCount`, `inRetry`, `retryPending` and whether `sendEvent` is scheduled. Actions: `execCXLProc`, `SendEvent`, `recvReqRetry`, `recvTimingResp`. |
| `CXLCoherence` | who caches the lines of CXL memory, in atomic mode: host caches, HomeAgent, DCOH's bias table, CXLXBar and its snoop filter, the device's cache | `host` and `dev` give the state of each line on either side, `Bias_Table` the bias of each page, `filter` the lines the snoop filter holds the device for, and `fresh` where the last value stored to a line is found. Actions, each a whole chain of `recvAtomic` calls: `HostLoad`, `HostEvict`, `DevLoad`, `DevStoreHit`, `DevStoreMiss`, `DevEvict`. |
| `PCIELinkProofs`, `PCIELinkTimedProofs`, `PciBridgeProofs`, `PciRootComplexProofs`, `CXLHostXBarProofs`, `CXLProcessorProofs`, `CXLCoherenceProofs` | theorems about the module each is named after | |
| `PCIELinkScheduleProofs` | more theorems about `PCIELink`: retries, events and Acks | |
| `MCPCIELink`, `MCPCIELinkTimed`, `MCPciRootComplex`, `MCCXLHostXBar` | instances for TLC | |

`PciRootComplex` is checked and proved to implement `PciBridge`: there a request comes
with the port that its address selects, here the registers select it. The other modules
meet at the packet types: what the CXL device sends up through the bridge as
`CXLcache` or `HostBiasCheck` is what `CXLHostXBar` receives from the I/O cache, and the
`CXLcacheH2DReq` that `findPort` makes is a request of the host in `PciBridge`.

### What the models abstract

* Packets are model values (`PCIELink`) or a request with its CXL type, its port and
  its requester (`PciBridge`). Addresses appear as the master port they select, data
  not at all.
* `PCIELink`: `linkDelay` is 0, as in the shipped configuration, so a packet arrives
  in the step in which its transmission ends. Sequence numbers keep their widths:
  `UInt64Max` and `IntMax` are parameters, and the constructor
  `DataLinkPacket(int)` truncates. The untimed module assumes with `TimerIsLate`
  that the replay timer outlives an Ack; `PCIELinkTimed` has the clock and no such
  assumption, and is checked and proved to implement `PCIELink`.
* `PciBridge`: a peer may refuse any packet and retry at any time. The host side
  answers a coherence check that hits a host cache, and passes one that misses to
  `slavePort` of the same bridge inside the same call, as the I/O cache and the
  crossbar do. The device takes back such a check, and returns a snoop that missed as
  a new request. The host's requests are those `makeCXLPacket` converts, and all of
  those need a response. What comes from the link of the CXL device may be an eviction,
  which needs none: it reserves nothing and no peer answers it. The CXL device is at
  `slavePort_DMA2`, where the response path expects it. A switch is the same class
  with ordinary traffic only (`Traffic = {"Default"}`).
* `PciRootComplex`: an address is a number of windows' granules, `PAGE` of them for each
  value of an upper register. The operating system programs one link at a time, its
  registers in any order and by single or double accesses, each with its final value or
  with the one that disables the window, and starts the drivers when all is written.
  `Plans` are the assignments it may choose; `PlanAssumption` says that windows do not
  overlap one another, the memory of the host or, but for its own link, the CXL device.
  That device has no BARs and always claims the same addresses. Each branch of
  `writeConfig` sets `flag` by itself, and only then is the host told (operator `flag`).
  `getPrefetchableMemoryLimit` reads the 32-bit upper limit into a `uint16_t` while the
  base keeps 32 bits; `getLimit` does so too (`UINT16` stands for 2^16), and
  `PlanAssumption` keeps prefetchable windows below 2^48, above which the limit loses bits
  and the window is taken as not used. Only the root complex is modelled, not a switch;
  the values of bus numbers, capability and other registers, and the ranges announced at
  the DMA ports, are left out.
* `CXLHostXBar`: whether a cache answers a snoop and whether a peer takes a packet is
  their choice, so the caches have no state; a line is in host memory or in CXL memory.
  Between `sendRetry` and the end of `retryWaiting` a layer is `RETRY`, here `IDLE`.
  Panics and failed assertions of the crossbar and of the I/O cache's bypass set
  `aborted`. Left out: cache maintenance operations (`outstandingCMO`), snoops from
  below, which no component below the crossbar sends in timing mode, statistics and
  draining; and the device's evictions of lines of host memory, which the I/O cache passes
  on like its other requests (`cache.cc:502-506`): at the crossbar they would be requests
  without a response and without a route.
* `CXLCoherence`: the host's caches are one cache, and data is only whether a place has
  the last value of the line. Hits that change nothing are left out. A victim is
  evicted at any time rather than at a fill. The host only loads from CXL memory: an
  upgrade of the host does not pass its crossbar, and `makeCXLPacket` knows no
  writeback, so a host that stores panics when it evicts the line. `LinesPerPage` bounds
  how many lines of a page are accessed.
* `CXLProcessor`: a request is a number of cache lines. In atomic mode `execCXLProc`
  is one step.

## Runs

| Run | Shows | Instance |
|---|---|---|
| `link_safety` | in-order delivery, no loss, no packet freed while it is on the link, no stranded device, every pending job has an event, every received TLP has an Ack on its way, refinement of the FIFO channel | one request and one response packet, 3 TLPs a side, replay buffer of 2 |
| `link_live` | every offered packet is accepted and arrives | requests both ways, 3 TLPs a side |
| `link_timed` | the replay timer never expires on a received TLP; the clocked link implements `PCIELink` | TLP times 1 and 4, Ack time 1, `retryTime` 17 |
| `link_refuse_first` (violation) | a refused first TLP is lost | as above |
| `bridge_safety` | while the windows are programmed, announced addresses select the link that announced them; afterwards each address that a device claims was announced and selects its link, the two fixed addresses select their ports, reservations cover everything on its way, routes are known, responses go home, a peer is stalled only while a limit is reached; the root complex implements `PciBridge` | 3 requests, 2 links, limits 2, all traffic, 2 plans |
| `bridge_live` | no reservation is lost or made for nothing, stalled ports wait for something under way and are retried, every request that needs an answer gets it | 3 requests, 2 links, limits 2, ordinary, CXL.mem and CXL.cache traffic with writebacks |
| `bridge_check_leak` (violation) | see Findings | 2 requests, 1 link |
| `host_xbar` | a refused port stands in exactly one line, a line is always woken, routes and outstanding snoops are exact, every request is served | 2 requests, one cache and the I/O cache, a line of each memory, all traffic |
| `host_xbar_snoop` (violation) | see Findings | as above |
| `proc_send` | packets leave in order, once each; work always has an event or a retry to wait for; everything is sent unless a packet is refused | 4 requests of up to 3 lines |
| `coh_share` | as long as the bias table is right about a line, no load hits a stale copy of it and a writable copy is alone; the table goes wrong only by the check of another line of the page or by an eviction; the snoop filter knows the device's lines | 1 page of 3 lines |
| `coh_page` (violation) | see Findings | 1 page of 2 lines |

**Bounds.** With a replay buffer of 2 and 3 TLPs a side the buffer fills, a device is
refused and retried, a replay runs over more than one entry, an Ack frees one or
several entries in the middle of a replay, and a skipped index occurs; a request and
a response packet give both retry flags. `IntMax = 7` and `UInt64Max = 31` let an
Ack of `0 - 1` differ from every real sequence number. In the bridge, limits of 2
with 3 requests fill a request queue and use up the reservations of a port while
other ports have room; requests are interchangeable, so `bridge_safety` uses symmetry
over them (it checks no liveness). Its two plans have windows of every kind, one that
crosses a page, one above the first page, one at the place of the initial I/O window and
windows that are not used. In `bridge_live` the entry of a writeback keeps its `Request`
for ever, so that three requests see up to three writebacks. In `host_xbar` two requests already compete for one layer, wait behind one
another, and change layers between a refusal and the retry; more ports and requests
are covered by the theorems. `retryTime` 17 stands for the code's
3 * `ack_factor` times the time of the longest TLP (4), with the smallest `ack_factor`,
1.4; the encoding factor is in both times. In `coh_share` lines on different pages do
not interact; three lines of a page let one line go wrong by the check of a second while
a third is right, and the theorems cover any number of pages and lines.

**Fairness.** The event queue processes every scheduled event: weak fairness of
`txDone`, of the timers, of `sendEvent` of every port. A device that is offered its
next TLP again and again takes it in the end (strong fairness of `Deliver`): the
device is a bridge whose queue drains or an endpoint that never refuses. A peer of the
bridge does not refuse for ever and answers what it took, which is what
`EveryPacketArrives` and the memory behind it provide. In `CXLHostXBar` release events
are processed and a peer that refused retries (weak fairness of `ReleaseReq`,
`recvReqRetry` and `ReleaseResp`); a peer does not refuse the same port for ever (strong
fairness of `Unblock`), and an answer is sent in the end even if the port is busy with
others meanwhile, since its queue is ordered by time (strong fairness of `SendResp`). Of
the peer of `CXLProcessor` nothing is assumed: `SentUnlessRefused` needs its own event
only. Nobody is obliged to send a request.

**Deadlock.** It is checked in `coh_share`. The other models may stop: the supply of packets is bounded, in
`bridge_live` by the requests whose routing entries are never erased, or an assertion of
the code has ended the simulation. That the system does not stop too early is what the
liveness properties say.

## Findings

1. `link_refuse_first`. If the device refuses TLP 0 and TLP 1 arrives before the
   replay, the interface acknowledges `recvSeqNum - 1 = 0 - 1`, the largest
   `uint64_t`. The sender frees its whole replay buffer, TLP 0 is lost and every later
   TLP is discarded. The other link runs and the theorems on loss assume that no
   device refuses the first TLP it is sent (`MayRefuseFirst = FALSE`).
2. `bridge_check_leak`. A coherence check that misses in the host reserves responses at
   the bridge that never come. After `resp_size` of them the port refuses everything
   and is never retried. With `Traffic = {"Default", "CXLcacheH2DReq"}` the same happens
   with snoops that miss in the device.
3. `host_xbar_snoop`. `findPort` removes the line from the fake snoop filter and marks the
   request before the layer is found busy. The retry of that `ReadExReq` is routed by its
   address and takes the line from memory although the device still holds it.
4. `coh_page`. The bias table has one entry for 4096 bytes and a check is of one line. The
   host loads a line of a page, the device loads another that the host has not, and the
   page goes to device bias. The device then loads the first line without a check and both
   sides hold it exclusive. Evictions are a second cause: they pass the bias check too,
   the host's answer to a `CleanEvict` never has `hasSharers` (`checkCoherence` asks for
   it, the snoop of an eviction sets `blockCached` only, `PciBridge.cc:2486`), and the page
   goes to device bias while the host keeps its shared copy; with `LinesPerPage = 1` TLC
   finds this one. `WrongBiasHasCause` says that there is no third, and `CopiesFresh` and
   `SingleWriter` that nothing goes wrong with a line about which the table is right.

More facts are part of the models and have no run of their own:

* The I/O cache asserts that the crossbar takes a packet that passes it by: a busy layer,
  or a coherence check that re-enters the bridge inside that call and finds the queue
  towards the device full, ends the simulation (`aborted` in `CXLHostXBar` and
  `PciBridge`: no step follows, and the liveness properties that it could break excuse it).
* `trySendTiming` of the bridge enters every CXL.cache request in `routeTo`
  (`PciBridge.cc:1320-1323`), a writeback too, and only a response erases an entry. The
  entry of a writeback stays and keeps its `Request` alive. `RoutesKnown` says that these,
  at `slavePort_DMA2`, are the only ones that stay.
* `CXLProcPort` ignores retries: a packet refused once is never sent again, and neither is
  any later one. `WorkIsScheduled` and `SentUnlessRefused` count the wait for a retry as
  their exception and so say nothing of what follows a refusal. The port also refuses
  every timing response. In atomic mode, the shipped configuration, neither path is taken.

## Proofs

`PCIELinkProofs` proves, for all packet sets, any buffer capacity, any number of
packets and all widths that satisfy the assumptions of `PCIELink`:

* `TypeCorrect`: `Spec => []TypeOK`, and
* `DeliveryInOrder`: `Spec => []InOrder`, whether or not a device refuses its first TLP;
* `NoLoss`: `Spec => []NothingLost`, and
* `Refinement`: `Spec => ImplementsChannel`, both if no device refuses the first TLP
  and sequence numbers fit an `int` (`MaxTLPs <= IntMax + 1`). Without the first
  assumption `link_refuse_first` refutes the statement.

`InOrder` is not inductive: that the TLP a device takes is the next one in order
depends on what the sender may put on the link. The invariant `LinkInv` of one
interface says that the replay buffer followed by `replayPacket` holds the last
packets accepted, numbered without gaps (`Contiguous`), that the lengths and counters
agree (`Counted`), and that a TLP on the link is one the interface accepted, with its
number (`Genuine`). Each operator of the model has a lemma or a step that it preserves
`LinkInv` and a frame of what it leaves alone; `txDone` is their composition. `Delivered` relates
the two ends: what was received is a prefix of what was accepted. For `NoLoss`,
`NoLossInv` adds that the oldest TLP a sender keeps is not newer than the one the
receiver expects, and that every Ack, on the link or waiting for it, names only
received TLPs. The refinement follows from the same invariant: a step of the link
appends at most one packet to `sent` and one to `rcvd`, and the receiver is never more
than a buffer behind.

`PCIELinkScheduleProofs` proves, for the same parameters, what keeps a link going:

* `NoDeviceIsStranded` (`[]NoStrandedDevice`), `EventsAreScheduled`
  (`[]WorkIsScheduled`) and `OnlyUnreceivedIsSent` (`[]OnlyUnreceivedOnLink`), whether or
  not a device refuses its first TLP;
* `AcksAreOnTheirWay` (`[]AckIsOnItsWay`) under the two assumptions of `NoLoss`.

These need more of each function than that it preserves `LinkInv`, so each function is
first described field by field (`Retried`, `TxFinished`, `AckReceived`, `TLPReceived`,
`Replayed`, `AckTimed`), and `Step` says that an action is one of five combinations of
these descriptions at the two ends. The invariants are about `Step`. `Waits` adds to the
promise of a retry that the device would still be refused, which is what makes the retries
in `txDone` and at an Ack enough. `Scheduled` is `WorkIsScheduled` at one end. `Fresh`
is about what the sender may still put on the link as well as what is on it: during a
replay every entry from `retransmitIdx` on is unreceived, and a TLP on the link that the
receiver expects is older than all of them. This is where an Ack in the middle of a replay,
which shifts the buffer under the index, could go wrong. `AckPair` relates the Acks of
one end to the buffer of the other: every received TLP still in the buffer is covered by
an Ack (`Covered`), a running Ack timer has something to acknowledge and whatever is
already on its way does not exceed `lastAcked` (`AckTimerIsSound`), and a replay has a TLP
to send (`ReplayHasTLP`).

`PCIELinkTimedProofs` proves, for all transmission times that satisfy `TimerOutlasts` and
under the assumptions of `NoLoss`:

* `ReplayTimerIsLate` (`TimedSpec => []TimerExpiresLate`), and
* `TimedImplementsLink` (`TimedSpec => Spec`), so every theorem about `PCIELink` holds with
  the clock, and the guard `TimerIsLate` of the untimed module is no assumption about the
  code.

`TimerOutlasts(M)` says that no packet takes longer than `M`, an Ack no longer than
`DLLPTime`, and `retryTime / 3 + 2 * M + DLLPTime < retryTime`. The constructor sets
`retryTime` to 3 * `ack_factor` times the time of a TLP of `mps` bytes, with an
`ack_factor` of at least 1.4: with `M` that time, the condition is that an Ack takes less
than 0.8 of it, which header sizes alone ensure. It relies on no payload being longer than
`mps`, on `linkDelay` and `delayVar` being 0, and leaves out the tick that `transmit` adds.
The inductive invariant (`TimedInv`) adds to the untimed ones that an Ack on its way reaches
the sender before the replay timer expires (`AckInTime`, one case for each place it may
be in), that this is still so once the TLP now on the link is received and its Ack waits
behind another packet (`TLPInTime`), and that a replay that waits for the link restarted the timer
(`ReplayInTime`). `Reschedule` is where each step restarts or keeps a time.

`CXLCoherenceProofs` proves, for any set of pages:

* `TypeCorrect` and `FilterSound`: `Spec => []FilterCoversDevice`, for all parameters, with
  the invariant `FilterInv` (types and the property itself);
* `CopiesStayFresh` (`Spec => CopiesFresh`) and `WritersAreAlone` (`Spec => SingleWriter`),
  for any number of lines per page. Both follow from `Coherent(l)`, which is inductive for
  a line with `FilterInv` as long as the bias table is right about it: a device store in
  device bias keeps copies fresh because the host has none, and a host load finds the
  device's data because the filter knows the line. A step for another line changes nothing
  of this one but, perhaps, the bias of its page (`OthersUntouched`), which is why the
  condition is about this line only. `CheckLoad`, `CheckStore` and `CheckEvict` say what a
  bias check does for each kind of request;
* `WrongBiasIsPagesOrEvictions` (`Spec => WrongBiasHasCause`): what makes the condition
  false. `coh_page` shows that it does become false.

`PciBridgeProofs` proves, for any requests, links, traffic and queue limits:

* `TypeCorrect`, `ReservationsSuffice` (`[]ReservationsCover`), `RoutesAreKnown`
  (`[]RoutesKnown`) and `AnswersGoHome` (`[]ResponsesGoHome`). The invariant adds to the
  types that a request is in one place at a time (`Once`), without which the packets
  owed to a port could not be counted; that packets which bypass the routing table are
  only at the ports their answers belong to, and that what needs no response is at no peer
  (`Kinds`); that the table has what peers will answer through it and otherwise only
  entries of the link of the CXL device (`Routes`), none of them for a request whose
  packet is in a queue (`Clear`); and that reservations cover the packets of each port
  that need a response, a finite set (`Cov`). Each move of a packet has a lemma for each part.
  `Cov` carries the four facts about `Cardinality` that the counting uses
  (`CardinalityLaws`); they are proved from the library after the inductive step, which
  so does not have the library's theorems in its context.
* `StallsHaveCauses` (`[]StallHasCause`): a peer waits only while a limit is reached.
  `Caused` is inductive with the types: a request that leaves ends every stall, a response
  that leaves is the only step that lowers a reservation and ends the stall of its port,
  and a request is admitted only where nothing is full.
* `ReservationsAreExact` (`[]ReservationsExact`) if no peer starts a coherence check or a
  snoop (`Traffic` and `Unrouted` are disjoint); `bridge_check_leak` shows why. Then no
  packet on its way bypasses the routing table (`AllRouted`), a request that needs a response
  keeps its packet until that leaves, and the set of these packets changes only at the two steps that
  change `outstandingResponses` (`Moves`).
* `StallsArePending` (`[]StalledIsPending`) under the same restriction, from the two
  before it: a stalled port waits for a packet that is under way. This is the safety half
  of `StalledIsRetried`.

`PciRootComplexProofs` proves, for any plans that satisfy `PlanAssumption` and any order
of the writes:

* `DevicesAreReachable` (`[]DevicesReachable`), `AnnouncementsDecode`
  (`[]AnnouncedIsDecoded`) and `FixedAddressesSelect` (`[]FixedAddressesDecode`);
* `RootImplementsBridge`: `RootSpec => ImplementsBridge`, so the theorems about
  `PciBridge` hold of the root complex, which is what `bridge_safety` checks on a small
  instance.

`RootInv` says that a register not marked valid has its initial value (`Untouched`): this is
why decoding, which ignores the marks, agrees with the announcement, which asks for them.
It also says that the host was told of the registers as they are (`ToldIsCurrent`), which
needs that a branch of `writeConfig` without the flag changes no window (`UnflaggedWrite`).

`CXLHostXBarProofs` proves, for any caches, requests, lines and traffic:

* `TypeCorrect`, `RefusedWaitOnce` (`[]WaitsOnce`), `NoLostWakeup` (`[]WaitersAreWoken`)
  and `RoutesAreKnown` (`[]RoutesKnown`). The lines are treated alike for requests and
  responses (`LineOK`). The invariant also says which packets may be refused, held or
  passed on. A retry is a packet that passes in the middle of a step, when one layer is
  free although ports may wait for it; `MidOK` is the invariant with that exception.

`CXLProcessorProofs` proves, for any number and size of requests:

* `TypeCorrect`, `SendingInOrder` (`[]SentInOrder`) and `AlwaysScheduled`
  (`[]WorkIsScheduled`). `Progress` says that the list holds the last requests, whole
  but for the first (`Queue`), and that what was sent ends just before the next packet of
  the list (`Before`, `Frontier`); `Sending` that a refused packet is that next packet.

Every safety property of a passing run is proved, `NothingLost`, `AckIsOnItsWay`, `ReservationsExact`, `StalledIsPending`
and the two properties of the timed link under the restrictions stated above. Only model-checked is liveness
under fairness, which the prover does not handle: `EveryPacketArrives`, `StalledIsRetried`,
`EveryRequestAnswered`, `SentUnlessRefused` and `EveryRequestServed`. What they rest on that
is not temporal is proved: work has an event (`EventsAreScheduled`, `AlwaysScheduled`), a
refused party is promised a retry (`NoDeviceIsStranded`, `NoLostWakeup`), a stalled one
waits for something under way (`StallsHaveCauses`, `StallsArePending`) and Acks are on
their way (`AcksAreOnTheirWay`).

## Not modelled

* Lines of host memory in the device's cache, in atomic mode. No coherence invariant
  holds of them, and single calls show why. `CXLXBar` is a point of coherency and answers
  an upgrade of the device itself, without the host. In `PciBridge::recvAtomic` a line
  that a host cache supplies is sunk and never passes the memory bus, so it does not
  enter the fake snoop filter. `CXLHostXBar::findPort` panics at an eviction or an
  upgrade of the host that finds its line in that filter.
* The timing path of `CXLXBar` and `CXLDevice`. Retries are not passed on
  (`InternalPort::recvReqRetry` and `ExternalPort_cxl::recvRespRetry` are empty, and
  `DmaPort::recvReqRetry` looks only at its own list), so a refused packet is never sent
  again. `memActionTiming` gives a CXL.mem request of the host the type
  `CXLcacheH2DResp`, for which `CXLXBar` keeps no route, and `recvTimingResp` asserts one
  when the memory answers. The bridge sees the device as a peer that answers.
* A composition of the bridge with two links: `ReliableLink` and `PciBridge` meet only in
  the fairness assumed of the bridge's peers.
* The other atomic paths, the functional paths, serialization and draining, statistics,
  the contents of memory and of CXL messages, the register shells of the PCIe and CXL
  devices and hosts, and gem5 itself beyond its event queue, port protocol and layers.

`PROJECT.json` lists every part with its status and the hazards that no property covers.
