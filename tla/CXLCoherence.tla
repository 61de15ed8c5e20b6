---------------------------- MODULE CXLCoherence ----------------------------
(***************************************************************************)
(* Who caches the lines of the CXL memory, in atomic mode: the host's      *)
(* caches, reading through CXL.mem, and the device's cache, whose requests *)
(* pass CXLXBar.  DCOH, the coherence engine of the device, keeps one bias *)
(* per page: in host bias the device's requests snoop the host first       *)
(* (HostBiasCheck), in device bias they do not.                            *)
(*                                                                         *)
(* An atomic access is one chain of calls, so an action is the access with *)
(* everything it calls: cache, CXLXBar, DCOH, root complex and host        *)
(* crossbar.  The host only loads from CXL memory, so its copies are clean;*)
(* the device loads, stores and evicts.                                    *)
(***************************************************************************)
EXTENDS Naturals

CONSTANTS
  Pages,            \* pages of the CXL memory, addr >> 12
  LinesPerPage      \* bound on the lines of a page that are accessed

ASSUME ConfigAssumption == LinesPerPage \in Nat \ {0}

Lines == Pages \X (1 .. LinesPerPage)
PageOf(l) == l[1]

VARIABLES
  host,             \* the state of every line in the host's caches
  dev,              \* ... and in the device's cache
  Bias_Table,       \* DCOH::Bias_Table; "none" for a page without an entry
  filter,           \* lines CXLXBar's snoop filter holds the device's cache for
  fresh             \* where the last value stored to a line is found

vars == <<host, dev, Bias_Table, filter, fresh>>

Valid(s) == s # "I"
Writable(s) == s \in {"E", "M"}
Dirty(s) == s \in {"O", "M"}

Init ==
  /\ host = [l \in Lines |-> "I"]
  /\ dev = [l \in Lines |-> "I"]
  /\ Bias_Table = [p \in Pages |-> "none"]
  /\ filter = {}
  /\ fresh = [l \in Lines |-> {"mem"}]

\* src's bytes are copied to dst.
Copy(places, src, dst) ==
  IF src \in places THEN places \cup {dst} ELSE places \ {dst}

(***************************************************************************)
(* A cache.                                                                *)
(***************************************************************************)

isInvalidate(cmd) == cmd \in {"ReadExReq", "UpgradeReq", "InvalidateReq"}
isEviction(cmd) == cmd \in {"WritebackDirty", "CleanEvict"}

\* The request a cache sends for a miss, or for a store to a line in state s
\* that is not writable.  A store of a whole line needs no data.
createMissPacket(s, needsWritable, is_whole_line_write) ==
  IF is_whole_line_write THEN "InvalidateReq"
  ELSE IF Valid(s) THEN "UpgradeReq"
  ELSE IF needsWritable THEN "ReadExReq" ELSE "ReadSharedReq"

\* The packet of a victim in state s.
evictBlock(s) == IF Dirty(s) THEN "WritebackDirty" ELSE "CleanEvict"

\* The state without the writable bit.
clearWritable(s) == IF s = "M" THEN "O" ELSE IF s = "E" THEN "S" ELSE s

\* Mutant: a snooped line stays writable.
handleSnoopKeepsWritable(s, cmd) ==
  [state |-> IF isInvalidate(cmd) THEN "I" ELSE s,
   hasSharers |-> cmd = "ReadSharedReq" /\ Valid(s),
   cacheResponding |-> Dirty(s) /\ ~ isEviction(cmd),
   blockCached |-> isEviction(cmd) /\ Valid(s)]

\* Mutant: an owned line leaves the answer to memory.
handleSnoopOwnedSilent(s, cmd) ==
  [state |-> IF isInvalidate(cmd) THEN "I"
             ELSE IF cmd = "ReadSharedReq" THEN clearWritable(s) ELSE s,
   hasSharers |-> cmd = "ReadSharedReq" /\ Valid(s),
   cacheResponding |-> s = "M" /\ ~ isEviction(cmd),
   blockCached |-> isEviction(cmd) /\ Valid(s)]

\* A line in state s is snooped: the state it is left in, and the flags that
\* the packet comes back with.
handleSnoop(s, cmd) ==
  [state |-> IF isInvalidate(cmd) THEN "I"
             ELSE IF cmd = "ReadSharedReq" THEN clearWritable(s) ELSE s,
   hasSharers |-> cmd = "ReadSharedReq" /\ Valid(s),
   cacheResponding |-> Dirty(s) /\ ~ isEviction(cmd),
   blockCached |-> isEviction(cmd) /\ Valid(s)]

\* Mutant: a line that nobody shares is filled dirty.
handleFillDirty(hasSharers) == IF hasSharers THEN "S" ELSE "M"

\* The state in which the answer to a load is stored.
handleFill(hasSharers) == IF hasSharers THEN "S" ELSE "E"

\* A store of a whole line replaces its bytes, one of a part needs the others.
updateBlockData(places, is_whole_line_write) ==
  IF is_whole_line_write \/ "dev" \in places THEN {"dev"} ELSE {}

(***************************************************************************)
(* The bias of a page.                                                     *)
(***************************************************************************)

\* A page without an entry is entered in host bias.
is_host_bias_mode(p) == Bias_Table[p] # "device"

set_bias_mode(p, bias) == [Bias_Table EXCEPT ![p] = bias]

\* The MemRd that a cache's read of the host becomes.
makeCXLPacket(cmd) ==
  CASE cmd = "ReadExReq" ->
         [meta_filed |-> "Meta0_State", meta_value |-> "Any", snp_type |-> "SnpInv"]
    [] cmd = "ReadSharedReq" ->
         [meta_filed |-> "Meta0_State", meta_value |-> "Shared", snp_type |-> "SnpData"]

\* Mutant: a shared copy is not counted as a copy.
makeCXLresponseNoShared(p, req) ==
  IF req.meta_filed = "Meta0_State" /\ req.meta_value = "Any"
  THEN set_bias_mode(p, "host") ELSE Bias_Table

\* DCOH answers a MemRd: the host takes an exclusive or a shared copy.
makeCXLresponse(p, req) ==
  IF /\ req.meta_filed = "Meta0_State"
     /\ <<req.meta_value, req.snp_type>> \in {<<"Any", "SnpInv">>, <<"Shared", "SnpData">>}
  THEN set_bias_mode(p, "host") ELSE Bias_Table

\* The meta value of the MemRdFwd the host answers a check with.  RdOwn,
\* RdShared and RdAny set one each, which the snoop's outcome replaces.
checkCoherence(hasSharers) == IF hasSharers THEN "Shared" ELSE "Invalied"

(***************************************************************************)
(* CXLXBar: a request of the device's cache.                               *)
(***************************************************************************)

\* A request in host bias goes to the host: hostSend sends it, the root
\* complex snoops the host's caches, and the answer sets the page's bias.
HostBiasCheck(l, cmd, hasSharers) ==
  LET snp == handleSnoop(host[l], cmd)
      shared == hasSharers \/ snp.hasSharers
  IN  [host |-> [host EXCEPT ![l] = snp.state],
       bias |-> set_bias_mode(PageOf(l), IF checkCoherence(shared) = "Invalied"
                                         THEN "device" ELSE "host"),
       hasSharers |-> shared,
       blockCached |-> snp.blockCached]

\* The start of recvAtomicBackdoor at port 1.
CheckBias(l, cmd, hasSharers) ==
  IF is_host_bias_mode(PageOf(l)) THEN HostBiasCheck(l, cmd, hasSharers)
  ELSE [host |-> host, bias |-> Bias_Table,
        hasSharers |-> hasSharers, blockCached |-> FALSE]

\* Mutant: a flag that the host's snoop left is taken for the device's.
lookupRequestDrops(l, cmd, blockCached) ==
  IF isEviction(cmd) \/ cmd = "UpgradeReq" THEN filter \ {l} ELSE filter \cup {l}

\* The snoop filter after a request: an eviction takes the holder out unless
\* the packet says that the line is still cached.
lookupRequest(l, cmd, blockCached) ==
  IF ~ isEviction(cmd) THEN filter \cup {l}
  ELSE IF blockCached THEN filter ELSE filter \ {l}

(***************************************************************************)
(* The accesses.  Hits that change nothing are left out.                   *)
(***************************************************************************)

\* The host loads a line it does not cache: membus and root complex send a
\* MemRd, DCOH sets the bias and reads at port 0 of CXLXBar, which snoops the
\* device's cache if the filter has the line.
HostLoad(l) ==
  LET cmd == createMissPacket(host[l], FALSE, FALSE)
      snp == handleSnoop(IF l \in filter THEN dev[l] ELSE "I", cmd)
  IN  /\ ~ Valid(host[l])
      /\ Bias_Table' = makeCXLresponse(PageOf(l), makeCXLPacket(cmd))
      /\ dev' = [dev EXCEPT ![l] = IF l \in filter THEN snp.state ELSE @]
      /\ host' = [host EXCEPT ![l] = handleFill(snp.hasSharers)]
      /\ fresh' = [fresh EXCEPT ![l] =
                     Copy(@, IF snp.cacheResponding THEN "dev" ELSE "mem", "host")]
      /\ UNCHANGED filter

\* The host evicts a clean line; the host crossbar sinks the CleanEvict.
HostEvict(l) ==
  /\ Valid(host[l])
  /\ host' = [host EXCEPT ![l] = "I"]
  /\ fresh' = [fresh EXCEPT ![l] = @ \ {"host"}]
  /\ UNCHANGED <<dev, Bias_Table, filter>>

\* The device loads a line it does not cache.
DevLoad(l) ==
  LET cmd == createMissPacket(dev[l], FALSE, FALSE)
      chk == CheckBias(l, cmd, FALSE)
  IN  /\ ~ Valid(dev[l])
      /\ host' = chk.host
      /\ Bias_Table' = chk.bias
      /\ filter' = lookupRequest(l, cmd, chk.blockCached)
      /\ dev' = [dev EXCEPT ![l] = handleFill(chk.hasSharers)]
      /\ fresh' = [fresh EXCEPT ![l] = Copy(@, "mem", "dev")]

\* The device stores to a line it can write without asking.
DevStoreHit(l, is_whole_line_write) ==
  /\ dev[l] = "E"
  /\ dev' = [dev EXCEPT ![l] = "M"]
  /\ fresh' = [fresh EXCEPT ![l] = updateBlockData(@, is_whole_line_write)]
  /\ UNCHANGED <<host, Bias_Table, filter>>

\* ... and to one it cannot: it reads the line; or it asks for no data, which
\* CXLXBar, the point of coherency, answers itself.
DevStoreMiss(l, is_whole_line_write) ==
  LET cmd == createMissPacket(dev[l], TRUE, is_whole_line_write)
      chk == CheckBias(l, cmd, FALSE)
      filled == IF cmd = "ReadExReq" THEN Copy(fresh[l], "mem", "dev") ELSE fresh[l]
  IN  /\ ~ Writable(dev[l])
      /\ host' = chk.host
      /\ Bias_Table' = chk.bias
      /\ filter' = lookupRequest(l, cmd, chk.blockCached)
      /\ dev' = [dev EXCEPT ![l] = "M"]
      /\ fresh' = [fresh EXCEPT ![l] = updateBlockData(filled, is_whole_line_write)]

\* The device evicts a line.  A WritebackDirty of an owned line says that it
\* has sharers; a CleanEvict says nothing of them.
DevEvict(l) ==
  LET cmd == evictBlock(dev[l])
      chk == CheckBias(l, cmd, dev[l] = "O")
  IN  /\ Valid(dev[l])
      /\ host' = chk.host
      /\ Bias_Table' = chk.bias
      /\ filter' = lookupRequest(l, cmd, chk.blockCached)
      /\ dev' = [dev EXCEPT ![l] = "I"]
      /\ fresh' = [fresh EXCEPT ![l] =
                     (IF Dirty(dev[l]) THEN Copy(@, "dev", "mem") ELSE @) \ {"dev"}]

Next ==
  \E l \in Lines :
    \/ HostLoad(l)
    \/ HostEvict(l)
    \/ DevLoad(l)
    \/ \E is_whole_line_write \in BOOLEAN : DevStoreHit(l, is_whole_line_write)
    \/ \E is_whole_line_write \in BOOLEAN : DevStoreMiss(l, is_whole_line_write)
    \/ DevEvict(l)

Spec == Init /\ [][Next]_vars

-----------------------------------------------------------------------------
(* Properties. *)

\* The host's copies are clean, the device's may be in any state.
TypeOK ==
  /\ host \in [Lines -> {"I", "S", "E"}]
  /\ dev \in [Lines -> {"I", "S", "E", "O", "M"}]
  /\ Bias_Table \in [Pages -> {"none", "host", "device"}]
  /\ filter \in SUBSET Lines
  /\ fresh \in [Lines -> SUBSET {"host", "dev", "mem"}]

\* Is the bias table right about a line?  It is trusted where the host is not
\* snooped: while a page is in device bias the host caches no line of it.
BiasIsSafe(l) == Bias_Table[PageOf(l)] = "device" => ~ Valid(host[l])

\* Every copy that a load can hit, and memory when the device has no dirty
\* copy, holds the last value the device stored.
Fresh(l) ==
  /\ Valid(host[l]) => "host" \in fresh[l]
  /\ Valid(dev[l]) => "dev" \in fresh[l]
  /\ ~ Dirty(dev[l]) => "mem" \in fresh[l]

\* A side that may store without asking is the only one with a copy.
Alone(l) ==
  /\ Writable(dev[l]) => ~ Valid(host[l])
  /\ Writable(host[l]) => ~ Valid(dev[l])

\* The data of a line rests on the bias table alone: no load hits a stale copy of
\* it as long as the table is right about this line, whatever is done to the other
\* lines of its page.  No snoop that is filtered out in CXLXBar, no transfer
\* between caches and no eviction breaks it (recvAtomicBackdoor, hostSend).
CopiesFresh == \A l \in Lines : []BiasIsSafe(l) => []Fresh(l)

\* So does the right to store: as long as the table is right about a line, the
\* side that holds it exclusive or modified has the only copy.
SingleWriter == \A l \in Lines : []BiasIsSafe(l) => []Alone(l)

\* "The host drops E or S from its cache and holds the line in I: the device can
\* clean its snoop filter or bias table" (makeCXLresponse): device bias means that
\* the host caches no line of the page.
DeviceBiasIsSafe == \A l \in Lines : BiasIsSafe(l)

\* The table becomes wrong about a line in two ways only: by the check of another
\* line of the page (set_bias_mode knows pages), or by the check of an eviction of
\* the line by the device.  A load of the host, and a load or a store of the device
\* to the line itself, leave it right: hostSend and makeCXLresponse set the bias
\* from what the snoop of the host found and from what the host was given.
WrongBiasHasCause ==
  [][\A l \in Lines :
       BiasIsSafe(l) /\ ~ BiasIsSafe(l)' =>
         \/ \E m \in Lines \ {l} : PageOf(m) = PageOf(l) /\ dev'[m] # dev[m]
         \/ Valid(dev[l]) /\ ~ Valid(dev'[l])]_vars

\* The snoop filter is trusted where the device's cache is not snooped: it
\* knows every line that the device caches.
FilterCoversDevice == \A l \in Lines : Valid(dev[l]) => l \in filter
=============================================================================
