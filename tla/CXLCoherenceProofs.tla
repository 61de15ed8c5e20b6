------------------------- MODULE CXLCoherenceProofs -------------------------
(***************************************************************************)
(* Proofs about CXLCoherence, for every set of pages.                      *)
(***************************************************************************)
EXTENDS CXLCoherence, TLAPS

HostStates == {"I", "S", "E"}
DevStates == {"I", "S", "E", "O", "M"}

\* A line's page is a page.
LEMMA PageOfLine ==
  ASSUME NEW l \in Lines
  PROVE  PageOf(l) \in Pages
BY DEF Lines, PageOf

\* A snoop of a clean copy leaves a clean copy, and nothing after a request
\* that invalidates.
LEMMA SnoopHost ==
  ASSUME NEW s \in HostStates, NEW cmd
  PROVE  /\ handleSnoop(s, cmd).state \in {"I", "S", s}
         /\ s = "I" => handleSnoop(s, cmd).state = "I"
         /\ isInvalidate(cmd) => handleSnoop(s, cmd).state = "I"
         /\ cmd = "ReadSharedReq" => handleSnoop(s, cmd).state # "E"
BY DEF HostStates, handleSnoop, clearWritable, isInvalidate

\* What a request of the device does to the host's copy and to the bias.
LEMMA CheckBiasEffect ==
  ASSUME TypeOK, NEW l \in Lines, NEW cmd, NEW hasSharers \in BOOLEAN
  PROVE  LET chk == CheckBias(l, cmd, hasSharers)
         IN  /\ chk.host \in [Lines -> HostStates]
             /\ \A m \in Lines : m # l => chk.host[m] = host[m]
             /\ chk.bias \in [Pages -> {"none", "host", "device"}]
             /\ \A p \in Pages : p # PageOf(l) => chk.bias[p] = Bias_Table[p]
  <1> DEFINE chk == CheckBias(l, cmd, hasSharers)
  <1>1. PageOf(l) \in Pages
    BY PageOfLine
  <1>2. host[l] \in HostStates
    BY DEF TypeOK, HostStates
  <1>3. handleSnoop(host[l], cmd).state \in HostStates
    BY <1>2, SnoopHost DEF HostStates
  <1>4. CASE is_host_bias_mode(PageOf(l))
    <2>1. /\ chk.host = [host EXCEPT ![l] = handleSnoop(host[l], cmd).state]
          /\ \E b \in {"host", "device"} : chk.bias = [Bias_Table EXCEPT ![PageOf(l)] = b]
      BY <1>4, Zenon DEF CheckBias, HostBiasCheck, set_bias_mode
    <2> QED
      BY <2>1, <1>1, <1>3 DEF TypeOK, HostStates
  <1>5. CASE ~ is_host_bias_mode(PageOf(l))
    BY <1>5 DEF CheckBias, TypeOK, HostStates
  <1> QED
    BY <1>4, <1>5

\* Copies and stores move data between the three places.
LEMMA Places ==
  ASSUME NEW places \in SUBSET {"host", "dev", "mem"},
         NEW src \in {"host", "dev", "mem"}, NEW dst \in {"host", "dev", "mem"},
         NEW whole \in BOOLEAN
  PROVE  /\ Copy(places, src, dst) \in SUBSET {"host", "dev", "mem"}
         /\ updateBlockData(places, whole) \in SUBSET {"host", "dev", "mem"}
BY DEF Copy, updateBlockData

\* The snoop filter after a request of the device's cache.
LEMMA FilterEffect ==
  ASSUME TypeOK, NEW l \in Lines, NEW cmd, NEW blockCached
  PROVE  /\ lookupRequest(l, cmd, blockCached) \in SUBSET Lines
         /\ \A m \in Lines : m # l =>
              (m \in lookupRequest(l, cmd, blockCached) <=> m \in filter)
         /\ ~ isEviction(cmd) => l \in lookupRequest(l, cmd, blockCached)
BY DEF lookupRequest, TypeOK

\* The request of a miss is no eviction; that of a store invalidates.
LEMMA MissPacket ==
  ASSUME NEW s \in DevStates, NEW whole \in BOOLEAN
  PROVE  /\ ~ isEviction(createMissPacket(s, FALSE, FALSE))
         /\ s = "I" => createMissPacket(s, FALSE, FALSE) = "ReadSharedReq"
         /\ ~ isEviction(createMissPacket(s, TRUE, whole))
         /\ isInvalidate(createMissPacket(s, TRUE, whole))
BY DEF createMissPacket, isEviction, isInvalidate, Valid

\* The part of the invariant that needs no assumption on the accesses: types,
\* and that CXLXBar's snoop filter knows the lines of the device's cache.
FilterInv == TypeOK /\ FilterCoversDevice

LEMMA FilterInvInit == Init => FilterInv
BY DEF Init, FilterInv, TypeOK, FilterCoversDevice, Valid

LEMMA FilterInvNext == FilterInv /\ [Next]_vars => FilterInv'
  <1> SUFFICES ASSUME FilterInv, [Next]_vars PROVE FilterInv'
    OBVIOUS
  <1> USE DEF FilterInv
  <1>1. ASSUME NEW l \in Lines, HostLoad(l) PROVE FilterInv'
    <2>1. PageOf(l) \in Pages /\ dev[l] \in DevStates
      BY PageOfLine DEF TypeOK, DevStates
    <2>2. Bias_Table' \in [Pages -> {"none", "host", "device"}]
      BY <1>1, <2>1, Zenon DEF HostLoad, makeCXLresponse, set_bias_mode, TypeOK
    <2>3. \E s \in DevStates : /\ dev' = [dev EXCEPT ![l] = s]
                               /\ Valid(s) => Valid(dev[l])
      BY <1>1, <2>1, Zenon DEF HostLoad, handleSnoop, clearWritable, DevStates, Valid
    <2>4. \E s \in HostStates : host' = [host EXCEPT ![l] = s]
      BY <1>1, Zenon DEF HostLoad, handleFill, HostStates
    <2>5. PICK src \in {"dev", "mem"} : fresh' = [fresh EXCEPT ![l] = Copy(fresh[l], src, "host")]
      BY <1>1, Zenon DEF HostLoad
    <2>6. Copy(fresh[l], src, "host") \in SUBSET {"host", "dev", "mem"}
      BY Places, Zenon DEF TypeOK
    <2>7. fresh' \in [Lines -> SUBSET {"host", "dev", "mem"}]
      BY <2>5, <2>6 DEF TypeOK
    <2> QED
      BY <1>1, <2>2, <2>3, <2>4, <2>7, ZenonT(40) DEF HostLoad, TypeOK, FilterCoversDevice, HostStates, DevStates
  <1>2. ASSUME NEW l \in Lines, HostEvict(l) PROVE FilterInv'
    BY <1>2 DEF HostEvict, TypeOK, FilterCoversDevice
  <1>3. ASSUME NEW l \in Lines, DevLoad(l) PROVE FilterInv'
    <2> DEFINE cmd == createMissPacket(dev[l], FALSE, FALSE)
               chk == CheckBias(l, cmd, FALSE)
    <2>1. ~ isEviction(cmd)
      BY MissPacket, Zenon DEF TypeOK, DevStates
    <2>2. /\ host' = chk.host
          /\ Bias_Table' = chk.bias
          /\ filter' = lookupRequest(l, cmd, chk.blockCached)
          /\ dev' = [dev EXCEPT ![l] = handleFill(chk.hasSharers)]
          /\ fresh' = [fresh EXCEPT ![l] = Copy(fresh[l], "mem", "dev")]
      BY <1>3 DEF DevLoad
    <2> HIDE DEF cmd, chk
    <2>3. /\ host' \in [Lines -> HostStates]
          /\ Bias_Table' \in [Pages -> {"none", "host", "device"}]
      BY <2>2, CheckBiasEffect, Zenon DEF chk
    <2>4. /\ filter' \in SUBSET Lines
          /\ filter \cup {l} \subseteq filter'
      BY <2>1, <2>2, FilterEffect DEF TypeOK
    <2>5. fresh' \in [Lines -> SUBSET {"host", "dev", "mem"}]
      BY <2>2, Places, ZenonT(40) DEF TypeOK
    <2>6. \E s \in DevStates : dev' = [dev EXCEPT ![l] = s]
      BY <2>2, ZenonT(40) DEF handleFill, DevStates
    <2> QED
      BY <2>3, <2>4, <2>5, <2>6 DEF TypeOK, FilterCoversDevice, HostStates, DevStates
  <1>4. ASSUME NEW l \in Lines, NEW whole \in BOOLEAN, DevStoreHit(l, whole) PROVE FilterInv'
    <2>1. updateBlockData(fresh[l], whole) \in SUBSET {"host", "dev", "mem"}
      BY Places DEF TypeOK
    <2> QED
      BY <1>4, <2>1 DEF DevStoreHit, TypeOK, FilterCoversDevice, Valid
  <1>5. ASSUME NEW l \in Lines, NEW whole \in BOOLEAN, DevStoreMiss(l, whole) PROVE FilterInv'
    <2> DEFINE cmd == createMissPacket(dev[l], TRUE, whole)
               chk == CheckBias(l, cmd, FALSE)
               filled == IF cmd = "ReadExReq" THEN Copy(fresh[l], "mem", "dev") ELSE fresh[l]
    <2>1. ~ isEviction(cmd)
      BY MissPacket, Zenon DEF TypeOK, DevStates
    <2>2. /\ host' = chk.host
          /\ Bias_Table' = chk.bias
          /\ filter' = lookupRequest(l, cmd, chk.blockCached)
          /\ dev' = [dev EXCEPT ![l] = "M"]
          /\ fresh' = [fresh EXCEPT ![l] = updateBlockData(filled, whole)]
      BY <1>5 DEF DevStoreMiss
    <2> HIDE DEF cmd, chk
    <2>3. /\ host' \in [Lines -> HostStates]
          /\ Bias_Table' \in [Pages -> {"none", "host", "device"}]
      BY <2>2, CheckBiasEffect, Zenon DEF chk
    <2>4. /\ filter' \in SUBSET Lines
          /\ filter \cup {l} \subseteq filter'
      BY <2>1, <2>2, FilterEffect DEF TypeOK
    <2>5. filled \in SUBSET {"host", "dev", "mem"}
      BY Places DEF TypeOK
    <2>6. updateBlockData(filled, whole) \in SUBSET {"host", "dev", "mem"}
      BY <2>5, Places
    <2> QED
      BY <2>2, <2>3, <2>4, <2>6 DEF TypeOK, FilterCoversDevice, HostStates
  <1>6. ASSUME NEW l \in Lines, DevEvict(l) PROVE FilterInv'
    <2> DEFINE cmd == evictBlock(dev[l])
               chk == CheckBias(l, cmd, dev[l] = "O")
               kept == (IF Dirty(dev[l]) THEN Copy(fresh[l], "dev", "mem") ELSE fresh[l]) \ {"dev"}
    <2>1. /\ host' = chk.host
          /\ Bias_Table' = chk.bias
          /\ filter' = lookupRequest(l, cmd, chk.blockCached)
          /\ dev' = [dev EXCEPT ![l] = "I"]
          /\ fresh' = [fresh EXCEPT ![l] = kept]
      BY <1>6 DEF DevEvict
    <2>2. kept \in SUBSET {"host", "dev", "mem"}
      BY Places, Zenon DEF TypeOK
    <2> HIDE DEF cmd, chk, kept
    <2>3. /\ host' \in [Lines -> HostStates]
          /\ Bias_Table' \in [Pages -> {"none", "host", "device"}]
      BY <2>1, CheckBiasEffect, Zenon DEF chk
    <2>4. /\ filter' \in SUBSET Lines
          /\ \A m \in Lines : m # l /\ m \in filter => m \in filter'
      BY <2>1, FilterEffect
    <2> QED
      BY <2>1, <2>2, <2>3, <2>4 DEF TypeOK, FilterCoversDevice, HostStates, Valid
  <1>7. CASE UNCHANGED vars
    BY <1>7 DEF vars, TypeOK, FilterCoversDevice
  <1> QED
    BY <1>1, <1>2, <1>3, <1>4, <1>5, <1>6, <1>7 DEF Next

\* A line in the device's cache is in CXLXBar's snoop filter, for any accesses
\* and any number of lines per page: the blockCached flag that a host copy
\* leaves on an eviction can keep a line in the filter, never take one out.
THEOREM FilterSound == Spec => []FilterCoversDevice
  <1>1. FilterInv => FilterCoversDevice
    BY DEF FilterInv
  <1> QED
    BY <1>1, FilterInvInit, FilterInvNext, PTL DEF Spec

-----------------------------------------------------------------------------
(***************************************************************************)
(* Coherence of a line, as long as the bias table is right about it.  A    *)
(* step for another line changes nothing of this one but, perhaps, the     *)
(* bias of its page.                                                       *)
(***************************************************************************)

Coherent(l) == Fresh(l) /\ Alone(l)

\* The check of a load: the device gets an exclusive copy only when the host
\* has none, and the page leaves host bias only then.
LEMMA CheckLoad ==
  ASSUME TypeOK, NEW l \in Lines, BiasIsSafe(l),
         NEW chk, chk = CheckBias(l, "ReadSharedReq", FALSE)
  PROVE  /\ chk.host[l] # "E"
         /\ Valid(chk.host[l]) => Valid(host[l])
         /\ handleFill(chk.hasSharers) = "E" => ~ Valid(chk.host[l])
         /\ chk.bias[PageOf(l)] = "device" => ~ Valid(chk.host[l])
  <1>1. /\ PageOf(l) \in Pages
        /\ host[l] \in HostStates
        /\ Bias_Table[PageOf(l)] = "device" => ~ Valid(host[l])
    BY PageOfLine DEF TypeOK, HostStates, BiasIsSafe
  <1>2. CASE is_host_bias_mode(PageOf(l))
    <2> DEFINE snp == handleSnoop(host[l], "ReadSharedReq")
    <2>1. /\ snp.state # "E"
          /\ Valid(snp.state) <=> Valid(host[l])
          /\ snp.hasSharers = Valid(host[l])
      BY <1>1 DEF handleSnoop, clearWritable, isInvalidate, Valid, HostStates
    <2>2. /\ chk.host[l] = snp.state
          /\ chk.hasSharers = snp.hasSharers
          /\ chk.bias[PageOf(l)] = IF snp.hasSharers THEN "host" ELSE "device"
      BY <1>1, <1>2, <2>1, Zenon DEF CheckBias, HostBiasCheck, set_bias_mode, checkCoherence, TypeOK, Valid
    <2> QED
      BY <2>1, <2>2, Zenon DEF handleFill
  <1>3. CASE ~ is_host_bias_mode(PageOf(l))
    BY <1>1, <1>3, Zenon DEF CheckBias, is_host_bias_mode, Valid
  <1> QED
    BY <1>2, <1>3, Zenon

\* The check of a store leaves the host no copy.
LEMMA CheckStore ==
  ASSUME TypeOK, NEW l \in Lines, BiasIsSafe(l), NEW cmd, isInvalidate(cmd),
         NEW chk, chk = CheckBias(l, cmd, FALSE)
  PROVE  ~ Valid(chk.host[l])
  <1>1. /\ host[l] \in HostStates
        /\ Bias_Table[PageOf(l)] = "device" => ~ Valid(host[l])
    BY DEF TypeOK, HostStates, BiasIsSafe
  <1>2. CASE is_host_bias_mode(PageOf(l))
    <2>1. chk.host = [host EXCEPT ![l] = handleSnoop(host[l], cmd).state]
      BY <1>2 DEF CheckBias, HostBiasCheck
    <2> QED
      BY <1>1, <2>1, SnoopHost, ZenonT(40) DEF TypeOK, Valid
  <1>3. CASE ~ is_host_bias_mode(PageOf(l))
    BY <1>1, <1>3 DEF CheckBias, is_host_bias_mode
  <1> QED
    BY <1>2, <1>3, Zenon

\* The check of an eviction leaves the host its copy.
LEMMA CheckEvict ==
  ASSUME TypeOK, NEW l \in Lines, NEW cmd, isEviction(cmd), NEW hasSharers \in BOOLEAN
  PROVE  CheckBias(l, cmd, hasSharers).host[l] = host[l]
  <1>1. handleSnoop(host[l], cmd).state = host[l]
    BY DEF handleSnoop, isEviction, isInvalidate
  <1> QED
    BY <1>1 DEF CheckBias, HostBiasCheck, TypeOK

\* A step for another line leaves the copies of this one alone.
LEMMA OtherLine ==
  ASSUME NEW l \in Lines, Coherent(l),
         host'[l] = host[l], dev'[l] = dev[l], fresh'[l] = fresh[l]
  PROVE  Coherent(l)'
BY DEF Coherent, Fresh, Alone

LEMMA CoherentInit ==
  ASSUME NEW l \in Lines
  PROVE  Init => Coherent(l)
BY DEF Init, Coherent, Fresh, Alone, Valid, Dirty, Writable

\* What is done to line l in one step.
StepOf(l) ==
  \/ HostLoad(l)
  \/ HostEvict(l)
  \/ DevLoad(l)
  \/ \E whole \in BOOLEAN : DevStoreHit(l, whole)
  \/ \E whole \in BOOLEAN : DevStoreMiss(l, whole)
  \/ DevEvict(l)

\* It leaves the copies of every other line and the bias of other pages alone.
LEMMA OthersUntouched ==
  ASSUME TypeOK, NEW l \in Lines, StepOf(l)
  PROVE  /\ \A m \in Lines \ {l} : /\ host'[m] = host[m]
                                   /\ dev'[m] = dev[m]
                                   /\ fresh'[m] = fresh[m]
         /\ \A p \in Pages \ {PageOf(l)} : Bias_Table'[p] = Bias_Table[p]
  <1>1. CASE HostLoad(l)
    BY <1>1 DEF HostLoad, makeCXLresponse, set_bias_mode, TypeOK
  <1>2. CASE HostEvict(l)
    BY <1>2 DEF HostEvict, TypeOK
  <1>3. ASSUME NEW cmd, NEW shared \in BOOLEAN,
               host' = CheckBias(l, cmd, shared).host,
               Bias_Table' = CheckBias(l, cmd, shared).bias
        PROVE  /\ \A m \in Lines \ {l} : host'[m] = host[m]
               /\ \A p \in Pages \ {PageOf(l)} : Bias_Table'[p] = Bias_Table[p]
    <2>1. /\ \A m \in Lines : m # l => CheckBias(l, cmd, shared).host[m] = host[m]
          /\ \A p \in Pages : p # PageOf(l) => CheckBias(l, cmd, shared).bias[p] = Bias_Table[p]
      BY CheckBiasEffect, Zenon
    <2> QED
      BY <1>3, <2>1, Zenon
  <1>4. CASE DevLoad(l)
    <2>1. /\ \A m \in Lines \ {l} : host'[m] = host[m]
          /\ \A p \in Pages \ {PageOf(l)} : Bias_Table'[p] = Bias_Table[p]
      BY <1>3, <1>4, Zenon DEF DevLoad
    <2>2. \E s, t : dev' = [dev EXCEPT ![l] = s] /\ fresh' = [fresh EXCEPT ![l] = t]
      BY <1>4, Zenon DEF DevLoad
    <2> QED
      BY <2>1, <2>2 DEF TypeOK
  <1>5. ASSUME NEW whole \in BOOLEAN, DevStoreHit(l, whole)
        PROVE  /\ \A m \in Lines \ {l} : /\ host'[m] = host[m]
                                         /\ dev'[m] = dev[m]
                                         /\ fresh'[m] = fresh[m]
               /\ Bias_Table' = Bias_Table
    BY <1>5 DEF DevStoreHit, TypeOK
  <1>6. ASSUME NEW whole \in BOOLEAN, DevStoreMiss(l, whole)
        PROVE  /\ \A m \in Lines \ {l} : /\ host'[m] = host[m]
                                         /\ dev'[m] = dev[m]
                                         /\ fresh'[m] = fresh[m]
               /\ \A p \in Pages \ {PageOf(l)} : Bias_Table'[p] = Bias_Table[p]
    <2>1. /\ \A m \in Lines \ {l} : host'[m] = host[m]
          /\ \A p \in Pages \ {PageOf(l)} : Bias_Table'[p] = Bias_Table[p]
      BY <1>3, <1>6, Zenon DEF DevStoreMiss
    <2>2. \E s, t : dev' = [dev EXCEPT ![l] = s] /\ fresh' = [fresh EXCEPT ![l] = t]
      BY <1>6, Zenon DEF DevStoreMiss
    <2> QED
      BY <2>1, <2>2 DEF TypeOK
  <1>7. CASE DevEvict(l)
    <2>0. (dev[l] = "O") \in BOOLEAN
      OBVIOUS
    <2>1. /\ \A m \in Lines \ {l} : host'[m] = host[m]
          /\ \A p \in Pages \ {PageOf(l)} : Bias_Table'[p] = Bias_Table[p]
      BY <1>3, <1>7, <2>0, Zenon DEF DevEvict
    <2>2. \E s, t : dev' = [dev EXCEPT ![l] = s] /\ fresh' = [fresh EXCEPT ![l] = t]
      BY <1>7, Zenon DEF DevEvict
    <2> QED
      BY <2>1, <2>2 DEF TypeOK
  <1> QED
    BY <1>1, <1>2, <1>4, <1>5, <1>6, <1>7, Zenon DEF StepOf

\* A step for the line itself.
LEMMA OwnStep ==
  ASSUME FilterInv, NEW l \in Lines, StepOf(l), BiasIsSafe(l), Coherent(l)
  PROVE  Coherent(l)'
  <1> USE DEF FilterInv
  <1>0. /\ PageOf(l) \in Pages
        /\ host[l] \in HostStates
        /\ dev[l] \in DevStates
        /\ Valid(dev[l]) => l \in filter
        /\ Coherent(l)
    BY PageOfLine DEF TypeOK, HostStates, DevStates, FilterCoversDevice
  <1>1. ASSUME HostLoad(l) PROVE Coherent(l)'
    <2> DEFINE snp == handleSnoop(dev[l], "ReadSharedReq")
    <2>1. /\ createMissPacket(host[l], FALSE, FALSE) = "ReadSharedReq"
          /\ ~ Valid(host[l])
      BY <1>1 DEF HostLoad, createMissPacket, Valid
    <2>3. /\ dev' = [dev EXCEPT ![l] = snp.state]
          /\ host' = [host EXCEPT ![l] = handleFill(snp.hasSharers)]
          /\ fresh' = [fresh EXCEPT ![l] =
                         Copy(fresh[l], IF snp.cacheResponding THEN "dev" ELSE "mem", "host")]
      <3>1. CASE l \in filter
        BY <1>1, <2>1, <3>1, Zenon DEF HostLoad
      <3>2. CASE l \notin filter
        <4>1. dev[l] = "I"
          BY <1>0, <3>2 DEF Valid
        <4>2. snp.state = "I"
          BY <4>1 DEF handleSnoop, clearWritable, isInvalidate
        <4> HIDE DEF snp
        <4>3. snp = handleSnoop("I", "ReadSharedReq")
          BY <4>1 DEF snp
        <4> QED
          BY <1>1, <2>1, <3>2, <4>1, <4>2, <4>3, Zenon DEF HostLoad, TypeOK
      <3> QED
        BY <3>1, <3>2
    <2>4. /\ snp.state = clearWritable(dev[l])
          /\ snp.hasSharers = Valid(dev[l])
          /\ snp.cacheResponding = Dirty(dev[l])
      BY DEF handleSnoop, isInvalidate, isEviction, Dirty, Valid
    <2> HIDE DEF snp
    <2>5. /\ dev'[l] = clearWritable(dev[l])
          /\ host'[l] = IF Valid(dev[l]) THEN "S" ELSE "E"
          /\ fresh'[l] = Copy(fresh[l], IF Dirty(dev[l]) THEN "dev" ELSE "mem", "host")
      BY <1>0, <2>3, <2>4 DEF TypeOK, handleFill
    <2>6. "host" \in fresh'[l] /\ fresh[l] \subseteq fresh'[l]
      BY <1>0, <2>5 DEF Coherent, Fresh, Alone, Copy, Dirty, Valid
    <2> QED
      BY <1>0, <2>5, <2>6 DEF Coherent, Fresh, Alone, clearWritable, Valid, Dirty, Writable, DevStates
  <1>2. ASSUME HostEvict(l) PROVE Coherent(l)'
    BY <1>0, <1>2 DEF HostEvict, TypeOK, Coherent, Fresh, Alone, Valid, Dirty, Writable
  <1>3. ASSUME DevLoad(l) PROVE Coherent(l)'
    <2> DEFINE chk == CheckBias(l, "ReadSharedReq", FALSE)
    <2>1. /\ createMissPacket(dev[l], FALSE, FALSE) = "ReadSharedReq"
          /\ ~ Valid(dev[l])
      BY <1>3 DEF DevLoad, createMissPacket, Valid
    <2>2. /\ host' = chk.host
          /\ dev' = [dev EXCEPT ![l] = handleFill(chk.hasSharers)]
          /\ fresh' = [fresh EXCEPT ![l] = Copy(fresh[l], "mem", "dev")]
      BY <1>3, <2>1, Zenon DEF DevLoad
    <2> HIDE DEF chk
    <2>4. /\ host'[l] # "E"
          /\ Valid(host'[l]) => Valid(host[l])
          /\ handleFill(chk.hasSharers) = "E" => ~ Valid(host'[l])
      BY <2>2, CheckLoad, Zenon DEF chk
    <2>5. /\ dev'[l] \in {"S", "E"}
          /\ dev'[l] = handleFill(chk.hasSharers)
          /\ fresh'[l] = fresh[l] \cup {"dev"}
      BY <1>0, <2>1, <2>2 DEF TypeOK, handleFill, Copy, Coherent, Fresh, Alone, Valid, Dirty
    <2>6. host'[l] \in HostStates
      BY <2>2, CheckBiasEffect, Zenon DEF chk
    <2> QED
      BY <1>0, <2>1, <2>4, <2>5, <2>6 DEF Coherent, Fresh, Alone, Valid, Dirty, Writable, HostStates
  <1>4. ASSUME NEW whole \in BOOLEAN, DevStoreHit(l, whole) PROVE Coherent(l)'
    BY <1>0, <1>4 DEF DevStoreHit, updateBlockData, TypeOK, Coherent, Fresh, Alone, Valid, Dirty, Writable
  <1>5. ASSUME NEW whole \in BOOLEAN, DevStoreMiss(l, whole) PROVE Coherent(l)'
    <2> DEFINE cmd == createMissPacket(dev[l], TRUE, whole)
               chk == CheckBias(l, cmd, FALSE)
               filled == IF cmd = "ReadExReq" THEN Copy(fresh[l], "mem", "dev") ELSE fresh[l]
    <2>1. /\ host' = chk.host
          /\ dev' = [dev EXCEPT ![l] = "M"]
          /\ fresh' = [fresh EXCEPT ![l] = updateBlockData(filled, whole)]
      BY <1>5 DEF DevStoreMiss
    <2>2. updateBlockData(filled, whole) = {"dev"}
      BY <1>0 DEF createMissPacket, updateBlockData, Copy, Coherent, Fresh, Alone, Valid, Dirty
    <2>3. isInvalidate(cmd)
      BY <1>0, MissPacket, Zenon
    <2> HIDE DEF cmd, chk, filled
    <2>5. ~ Valid(host'[l])
      BY <2>1, <2>3, CheckStore, Zenon DEF chk
    <2>6. dev'[l] = "M" /\ fresh'[l] = {"dev"}
      BY <2>1, <2>2 DEF TypeOK
    <2> QED
      BY <2>5, <2>6 DEF Coherent, Fresh, Alone, Valid, Dirty, Writable
  <1>6. ASSUME DevEvict(l) PROVE Coherent(l)'
    <2> DEFINE cmd == evictBlock(dev[l])
               shared == dev[l] = "O"
               kept == (IF Dirty(dev[l]) THEN Copy(fresh[l], "dev", "mem") ELSE fresh[l]) \ {"dev"}
    <2>1. /\ host' = CheckBias(l, cmd, shared).host
          /\ dev' = [dev EXCEPT ![l] = "I"]
          /\ fresh' = [fresh EXCEPT ![l] = kept]
          /\ Valid(dev[l])
      BY <1>6 DEF DevEvict
    <2>2. /\ "mem" \in kept
          /\ "host" \in fresh[l] => "host" \in kept
      BY <1>0, <2>1 DEF Copy, Coherent, Fresh, Dirty
    <2>3. isEviction(cmd)
      BY DEF evictBlock, isEviction
    <2>4. shared \in BOOLEAN
      OBVIOUS
    <2> HIDE DEF cmd, shared, kept
    <2>5. host'[l] = host[l]
      BY <2>1, <2>3, <2>4, CheckEvict, Zenon
    <2>6. dev'[l] = "I" /\ fresh'[l] = kept
      BY <2>1 DEF TypeOK
    <2> QED
      BY <1>0, <2>2, <2>5, <2>6 DEF Coherent, Fresh, Alone, Valid, Dirty, Writable
  <1> QED
    BY <1>1, <1>2, <1>3, <1>4, <1>5, <1>6 DEF StepOf

\* A line stays coherent in a step that starts with the table right about it.
LEMMA CoherentNext ==
  ASSUME FilterInv, [Next]_vars, NEW l \in Lines, BiasIsSafe(l), Coherent(l)
  PROVE  Coherent(l)'
  <1>1. CASE UNCHANGED vars
    BY <1>1 DEF vars, Coherent, Fresh, Alone
  <1>2. ASSUME NEW m \in Lines, StepOf(m) PROVE Coherent(l)'
    <2>1. CASE m = l
      BY <1>2, <2>1, OwnStep
    <2>2. CASE m # l
      BY <1>2, <2>2, OthersUntouched, OtherLine, Zenon DEF FilterInv
    <2> QED
      BY <2>1, <2>2
  <1> QED
    BY <1>1, <1>2 DEF Next, StepOf

\* For any set of pages and any number of lines per page: no load hits a stale copy
\* of a line as long as the bias table is right about that line.
THEOREM CopiesStayFresh == Spec => CopiesFresh
  <1> SUFFICES ASSUME NEW l \in Lines
               PROVE  Spec => ([]BiasIsSafe(l) => []Fresh(l))
    BY DEF CopiesFresh
  <1>1. Init => FilterInv /\ Coherent(l)
    BY FilterInvInit, CoherentInit
  <1>2. FilterInv /\ [Next]_vars => FilterInv'
    BY FilterInvNext
  <1>3. FilterInv /\ BiasIsSafe(l) /\ Coherent(l) /\ [Next]_vars => Coherent(l)'
    BY CoherentNext
  <1>4. Coherent(l) => Fresh(l)
    BY DEF Coherent
  <1> QED
    BY <1>1, <1>2, <1>3, <1>4, PTL DEF Spec

\* Under the same condition, the side that can store without asking has the only
\* copy.
THEOREM WritersAreAlone == Spec => SingleWriter
  <1> SUFFICES ASSUME NEW l \in Lines
               PROVE  Spec => ([]BiasIsSafe(l) => []Alone(l))
    BY DEF SingleWriter
  <1>1. Init => FilterInv /\ Coherent(l)
    BY FilterInvInit, CoherentInit
  <1>2. FilterInv /\ [Next]_vars => FilterInv'
    BY FilterInvNext
  <1>3. FilterInv /\ BiasIsSafe(l) /\ Coherent(l) /\ [Next]_vars => Coherent(l)'
    BY CoherentNext
  <1>4. Coherent(l) => Alone(l)
    BY DEF Coherent
  <1> QED
    BY <1>1, <1>2, <1>3, <1>4, PTL DEF Spec

\* A step for line l that does not evict it from the device's cache leaves the
\* table right about l.
LEMMA OwnStepKeepsBias ==
  ASSUME TypeOK, NEW l \in Lines, StepOf(l), BiasIsSafe(l), ~ DevEvict(l)
  PROVE  BiasIsSafe(l)'
  <1>0. PageOf(l) \in Pages /\ dev[l] \in DevStates
    BY PageOfLine DEF TypeOK, DevStates
  <1>1. CASE HostLoad(l)
    <2>1. createMissPacket(host[l], FALSE, FALSE) = "ReadSharedReq"
      BY <1>1 DEF HostLoad, createMissPacket, Valid
    <2>2. Bias_Table' = [Bias_Table EXCEPT ![PageOf(l)] = "host"]
      BY <1>1, <2>1 DEF HostLoad, makeCXLresponse, makeCXLPacket, set_bias_mode
    <2> QED
      BY <1>0, <2>2 DEF BiasIsSafe, TypeOK
  <1>2. CASE HostEvict(l)
    BY <1>2 DEF HostEvict, BiasIsSafe, TypeOK, Valid
  <1>3. CASE DevLoad(l)
    <2>1. createMissPacket(dev[l], FALSE, FALSE) = "ReadSharedReq"
      BY <1>3 DEF DevLoad, createMissPacket, Valid
    <2>2. /\ host' = CheckBias(l, "ReadSharedReq", FALSE).host
          /\ Bias_Table' = CheckBias(l, "ReadSharedReq", FALSE).bias
      BY <1>3, <2>1, Zenon DEF DevLoad
    <2> QED
      BY <2>2, CheckLoad, Zenon DEF BiasIsSafe
  <1>4. ASSUME NEW whole \in BOOLEAN, DevStoreHit(l, whole) PROVE BiasIsSafe(l)'
    BY <1>4 DEF DevStoreHit, BiasIsSafe
  <1>5. ASSUME NEW whole \in BOOLEAN, DevStoreMiss(l, whole) PROVE BiasIsSafe(l)'
    <2>1. isInvalidate(createMissPacket(dev[l], TRUE, whole))
      BY <1>0, MissPacket, Zenon
    <2>2. host' = CheckBias(l, createMissPacket(dev[l], TRUE, whole), FALSE).host
      BY <1>5, Zenon DEF DevStoreMiss
    <2> QED
      BY <2>1, <2>2, CheckStore, Zenon DEF BiasIsSafe
  <1> QED
    BY <1>1, <1>2, <1>3, <1>4, <1>5, Zenon DEF StepOf

\* A step for line l changes the state of l in the device's cache, or the bias of
\* no page to the device's.
LEMMA BiasMovesWithCopy ==
  ASSUME TypeOK, NEW l \in Lines, StepOf(l)
  PROVE  \/ dev'[l] # dev[l]
         \/ Bias_Table'[PageOf(l)] = "host"
         \/ Bias_Table' = Bias_Table
  <1>0. PageOf(l) \in Pages
    BY PageOfLine
  <1>1. CASE HostLoad(l)
    BY <1>0, <1>1 DEF HostLoad, makeCXLresponse, set_bias_mode, TypeOK
  <1>2. CASE HostEvict(l)
    BY <1>2 DEF HostEvict
  <1>3. CASE DevLoad(l)
    BY <1>3 DEF DevLoad, handleFill, Valid, TypeOK
  <1>4. ASSUME NEW whole \in BOOLEAN, DevStoreHit(l, whole) PROVE Bias_Table' = Bias_Table
    BY <1>4 DEF DevStoreHit
  <1>5. ASSUME NEW whole \in BOOLEAN, DevStoreMiss(l, whole) PROVE dev'[l] # dev[l]
    BY <1>5 DEF DevStoreMiss, Writable, TypeOK
  <1>6. CASE DevEvict(l)
    BY <1>6 DEF DevEvict, Valid, TypeOK
  <1> QED
    BY <1>1, <1>2, <1>3, <1>4, <1>5, <1>6, Zenon DEF StepOf

\* The bias table becomes wrong about a line only by the check of another line of
\* its page or by an eviction of the line, for any number of pages and lines.
THEOREM WrongBiasIsPagesOrEvictions == Spec => WrongBiasHasCause
  <1> DEFINE Cause(l) == \/ \E m \in Lines \ {l} : PageOf(m) = PageOf(l) /\ dev'[m] # dev[m]
                         \/ Valid(dev[l]) /\ ~ Valid(dev'[l])
             Step == \A l \in Lines : BiasIsSafe(l) /\ ~ BiasIsSafe(l)' => Cause(l)
  <1>1. ASSUME FilterInv, [Next]_vars PROVE [Step]_vars
    <2> SUFFICES ASSUME NEW k \in Lines, StepOf(k), NEW l \in Lines,
                        BiasIsSafe(l), ~ BiasIsSafe(l)'
                 PROVE  Cause(l)
      BY <1>1 DEF Next, StepOf
    <2>0. TypeOK
      BY <1>1 DEF FilterInv
    <2>1. CASE k = l
      <3>1. DevEvict(l)
        BY <2>0, <2>1, OwnStepKeepsBias
      <3> QED
        BY <2>0, <3>1 DEF DevEvict, Valid, TypeOK
    <2>2. CASE k # l
      <3>1. host'[l] = host[l]
        BY <2>0, <2>2, OthersUntouched
      <3>2. Bias_Table'[PageOf(l)] # Bias_Table[PageOf(l)] /\ Bias_Table'[PageOf(l)] = "device"
        BY <3>1 DEF BiasIsSafe
      <3>3. PageOf(k) = PageOf(l)
        BY <2>0, <3>2, OthersUntouched, PageOfLine
      <3>4. dev'[k] # dev[k]
        BY <2>0, <3>2, <3>3, BiasMovesWithCopy
      <3> QED
        BY <2>2, <3>3, <3>4
    <2> QED
      BY <2>1, <2>2
  <1>2. Spec => [][Step]_vars
    BY <1>1, FilterInvInit, FilterInvNext, PTL DEF Spec
  <1> QED
    BY <1>2 DEF WrongBiasHasCause

\* The states of the copies, the bias table and CXLXBar's snoop filter stay in
\* their types.
THEOREM TypeCorrect == Spec => []TypeOK
  <1>1. Init => FilterInv
    BY FilterInvInit
  <1>2. FilterInv /\ [Next]_vars => FilterInv'
    BY FilterInvNext
  <1>3. FilterInv => TypeOK
    BY DEF FilterInv
  <1> QED
    BY <1>1, <1>2, <1>3, PTL DEF Spec
=============================================================================
