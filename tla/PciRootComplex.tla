--------------------------- MODULE PciRootComplex ---------------------------
(***************************************************************************)
(* The PCI-PCI bridge registers of the root complex (class config_class of *)
(* src/gem5/src/mem/PciBridge.{cc,hh}) composed with its timing path       *)
(* (module PciBridge).  The operating system programs the windows of each  *)
(* link one register at a time; the writes that may change a window set a  *)
(* flag, and a write with the flag set announces the windows to the host   *)
(* anew; and the windows are what getMasterPort routes by.  In PciBridge a *)
(* request comes with the port its address selects.  Here it comes with an *)
(* address, and the registers select the port.                             *)
(*                                                                         *)
(* An address is a number of naturally aligned units, the granularity of   *)
(* the windows, PAGE of them for each value of an upper register: page 0   *)
(* is the memory space below 4 GB, page IOPage the I/O space.              *)
(***************************************************************************)
EXTENDS PciBridge

CONSTANTS
  PAGE,             \* the units that a base or limit register counts
  IOPage,           \* IOBaseUpper and IOLimitUpper, which are never written
  UINT16,           \* 2^16, the values of a uint16_t
  Dram,             \* the addresses of the memory of the host
  DramBase,         \* the first of them, a number in recvTimingReq
  Hdm,              \* the memory of the CXL device, at a fixed place
  CXLRegs,          \* the registers of the CXL device, a number as well
  Plans             \* the assignments that the operating system may choose

Windows == {"mem", "pref", "io"}

\* What an operating system writes to the registers of one window.
Window == [base: 0 .. PAGE - 1, limit: 0 .. PAGE - 1,
           baseUpper: Nat, limitUpper: Nat]

\* A window that is not used: its base is above its limit.
Disabled(w) == LET u == IF w = "io" THEN IOPage ELSE 0
               IN  [base |-> PAGE - 1, limit |-> 0,
                    baseUpper |-> u, limitUpper |-> u]

getBase(r) == r.baseUpper * PAGE + r.base

\* The upper half of the prefetchable limit is a register of 32 bits that
\* getPrefetchableMemoryLimit reads into 16; the base keeps all of its own.
getLimit(w, r) ==
  (IF w = "pref" THEN r.limitUpper % UINT16 ELSE r.limitUpper) * PAGE + r.limit

\* The addresses that a plan gives to a link.
Given(l) == UNION {getBase(l.win[w]) .. getLimit(w, l.win[w]) : w \in Windows}

\* A plan gives each link three windows, and the device below it BARs inside
\* them; I/O windows are in the I/O space, and prefetchable windows end below
\* 2^48, beyond which their limit loses bits.  What one link has no other link
\* has, nor the memory of the host, and only the link of the CXL device may
\* have the addresses of that device, which claims them in any case.
ASSUME PlanAssumption ==
  /\ PAGE \in Nat \ {0, 1}
  /\ IOPage \in Nat \ {0}
  /\ UINT16 \in Nat \ {0}
  /\ Dram \subseteq Nat /\ DramBase \in Dram
  /\ Hdm \subseteq Nat /\ CXLRegs \in Nat
  /\ (Hdm \cup {CXLRegs}) \cap Dram = {}
  /\ \A pl \in Plans :
       /\ pl \in [Links -> [win: [Windows -> Window], bars: SUBSET Nat]]
       /\ \A i \in Links :
            /\ pl[i].win["mem"].baseUpper = 0
            /\ pl[i].win["mem"].limitUpper = 0
            /\ pl[i].win["io"].baseUpper = IOPage
            /\ pl[i].win["io"].limitUpper = IOPage
            /\ pl[i].win["pref"].limitUpper < UINT16
            /\ \A w \in Windows : getBase(pl[i].win[w]) # 0
            /\ pl[i].bars \subseteq Given(pl[i])
            /\ Given(pl[i]) \cap Dram = {}
            /\ i # CXLLink => Given(pl[i]) \cap (Hdm \cup {CXLRegs}) = {}
            /\ \A j \in Links \ {i} : Given(pl[i]) \cap Given(pl[j]) = {}

VARIABLES
  conf,             \* conf[i]: the registers of the windows of link i
  bars,             \* bars[i]: the addresses the device below link i claims
  told,             \* the addresses last announced to the host by slavePort
  plan,             \* the assignment the operating system is writing
  booted            \* has it finished, and do the drivers run?

configVars == <<conf, bars, told, plan, booted>>
rootVars == <<b, peer, aborted, conf, bars, told, plan, booted>>

-----------------------------------------------------------------------------
(***************************************************************************)
(* The registers, and the operators that read them.                        *)
(***************************************************************************)
Registers == [base: 0 .. PAGE - 1, limit: 0 .. PAGE - 1,
              baseUpper: Nat, limitUpper: Nat,
              validBase: BOOLEAN, validLimit: BOOLEAN]

\* After initialize_ports only the upper I/O registers are not 0.
NewRegisters(w) ==
  [base |-> 0, limit |-> 0, baseUpper |-> Disabled(w).baseUpper,
   limitUpper |-> Disabled(w).limitUpper,
   validBase |-> FALSE, validLimit |-> FALSE]

NewConfig == [w \in Windows |-> NewRegisters(w)]

Programmed(r) == r.validBase /\ r.validLimit

\* fill_ranges: the windows of one link that the host is told of.  The BARs
\* of the bridge itself have size 0.
fill_ranges(c) ==
  UNION {getBase(c[w]) .. getLimit(w, c[w]) :
           w \in {v \in Windows : Programmed(c[v]) /\ getBase(c[v]) # 0}}

\* getAddrRanges of slavePort.
getAddrRanges(c) == UNION {fill_ranges(c[i]) : i \in Links}

\* Mutant: the prefetchable window is forgotten.
decodesMemIO(c, a) ==
  \E w \in Windows \ {"pref"} :
    getBase(c[w]) # 0 /\ a \in getBase(c[w]) .. getLimit(w, c[w])

\* Does getMasterPort find address a in a window of this link?  It does not
\* ask whether the window was ever programmed.
decodes(c, a) ==
  \E w \in Windows :
    getBase(c[w]) # 0 /\ a \in getBase(c[w]) .. getLimit(w, c[w])

First(S) == CHOOSE i \in S : \A j \in S : i <= j

\* Mutant: what nobody claims goes down the first link.
portOfDown(c, d, a) ==
  LET inWindow == {i \in Links : decodes(c[i], a)}
      inBar == {i \in Links : a \in d[i]}
  IN  IF inWindow # {} THEN First(inWindow)
      ELSE IF inBar # {} THEN First(inBar)
      ELSE First(Links)

\* PciBridge::getMasterPort(Addr): the first link with a window for the
\* address, or else the first whose device claims it, or else masterPort_DMA.
portOf(c, d, a) ==
  LET inWindow == {i \in Links : decodes(c[i], a)}
      inBar == {i \in Links : a \in d[i]}
  IN  IF inWindow # {} THEN First(inWindow)
      ELSE IF inBar # {} THEN First(inBar)
      ELSE Host

\* getAddrRanges of the device below link i: its BARs, which have these
\* addresses.  The CXL device has no BARs and always claims the same.
Claims(i, addrs) == IF i = CXLLink THEN Hdm \cup {CXLRegs} ELSE addrs

\* The registers of a window that writeConfig knows: one field each, or two
\* with an access of twice the size.
Fields(w) ==
  {"base", "limit", "both"}
    \cup (IF w = "mem" THEN {} ELSE {"baseUpper", "limitUpper"})
    \cup (IF w = "io" THEN {"uppers"} ELSE {})

\* What the switch of writeConfig stores.  The upper I/O registers keep their
\* value: the assignments to them are commented out.
written(r, w, f, v) ==
  [base |-> IF f \in {"base", "both"} THEN v.base ELSE r.base,
   limit |-> IF f \in {"limit", "both"} THEN v.limit ELSE r.limit,
   baseUpper |-> IF w = "pref" /\ f = "baseUpper"
                 THEN v.baseUpper ELSE r.baseUpper,
   limitUpper |-> IF w = "pref" /\ f = "limitUpper"
                  THEN v.limitUpper ELSE r.limitUpper,
   validBase |-> r.validBase \/ f \in {"base", "both", "baseUpper", "uppers"},
   validLimit |-> r.validLimit \/ f \in {"limit", "both", "limitUpper", "uppers"}]

\* Mutant: the branches of the upper prefetchable registers forget the flag.
flagLower(w, f) ==
  \/ f \in {"base", "limit", "both"}
  \/ w = "io" /\ f \in {"baseUpper", "limitUpper", "uppers"}

\* The branches of the switch that set flag, each by an assignment of its own:
\* those of the lower registers, alone or together, of the upper prefetchable
\* registers, and of the upper I/O registers although they store nothing.
flag(w, f) ==
  \/ f \in {"base", "limit", "both"}
  \/ w = "pref" /\ f \in {"baseUpper", "limitUpper"}
  \/ w = "io" /\ f \in {"baseUpper", "limitUpper", "uppers"}

-----------------------------------------------------------------------------
(***************************************************************************)
(* The steps.                                                              *)
(***************************************************************************)
RootInit ==
  /\ Init
  /\ plan \in Plans
  /\ conf = [i \in Links |-> NewConfig]
  /\ bars = [i \in Links |-> Claims(i, {})]
  /\ told = getAddrRanges(conf)
  /\ booted = FALSE

\* Every register of link i was written and holds its final value.
Done(i) ==
  \A w \in Windows :
    /\ Programmed(conf[i][w])
    /\ conf[i][w].base = plan[i].win[w].base
    /\ conf[i][w].limit = plan[i].win[w].limit
    /\ conf[i][w].baseUpper = plan[i].win[w].baseUpper
    /\ conf[i][w].limitUpper = plan[i].win[w].limitUpper

\* The operating system writes a register of link i, the final value or the
\* one that disables the window, in any order, one link at a time.
WriteConfig(i, w, f, v) ==
  /\ ~ booted
  /\ \A j \in Links \ {i} : conf[j] = NewConfig \/ Done(j)
  /\ conf' = [conf EXCEPT ![i][w] = written(@, w, f, v)]
  /\ told' = IF flag(w, f) THEN getAddrRanges(conf') ELSE told
  /\ UNCHANGED <<b, peer, aborted, bars, plan, booted>>

\* A write, at any time, to a register of a bridge that is none of a window.
\* The two BARs, of size 0, set the flag unless the value asks for the size;
\* bus numbers, command, status, control, interrupt line, ROM, the PCIe
\* capability and what is not writable do not.
WriteOther(ranges) ==
  /\ told' = IF ranges THEN getAddrRanges(conf) ELSE told
  /\ UNCHANGED <<b, peer, aborted, conf, bars, plan, booted>>

\* The BARs of the device below link i are written: masterPorti is told of the
\* ranges of the device, and updateRanges passes it on.
RecvRangeChange(i) ==
  /\ ~ booted
  /\ bars' = [bars EXCEPT ![i] = Claims(i, plan[i].bars)]
  /\ told' = getAddrRanges(conf)
  /\ UNCHANGED <<b, peer, aborted, conf, plan, booted>>

StartDrivers ==
  /\ ~ booted
  /\ \A i \in Links : Done(i) /\ bars[i] = Claims(i, plan[i].bars)
  /\ booted' = TRUE
  /\ UNCHANGED <<b, peer, aborted, conf, bars, told, plan>>

\* The addresses of the requests of type t that the peer of slave port s
\* makes.  The host uses the addresses that devices claim, and sends here what
\* it was told and, untold, the accesses to the CXL device; DMA, CXL.cache
\* requests and snoops are for the memory of the host, coherence checks for
\* that of the device.
Aims(s, t) ==
  {a \in told \cup Dram \cup Hdm \cup {CXLRegs} :
    \/ /\ s = Host /\ t = "Default"
       /\ \E i \in Links : a \in bars[i] /\ (a \in told \/ i = CXLLink)
    \/ s = Host /\ t = "CXLcacheH2DReq" /\ a \in Dram
    \/ s \in Links /\ t = "Default" /\ a \in Dram
    \/ s = CXLLink /\ t = "CXLcache" /\ a \in Dram
    \/ s = CXLLink /\ t = "HostBiasCheck" /\ a \in Hdm}

\* Mutant: as Access, of a bridge that looks for the windows of the other
\* links only, and so sends nothing back down the link it came from.
AccessNotBack(s, r, t, a, needsResponse) ==
  /\ booted
  /\ LET d == portOf(conf, bars, a)
     IN  RecvReq(s, r, <<t, IF d = s THEN Host ELSE d, needsResponse>>)
  /\ UNCHANGED configVars

Access(s, r, t, a, needsResponse) ==
  /\ booted
  /\ RecvReq(s, r, <<t, portOf(conf, bars, a), needsResponse>>)
  /\ UNCHANGED configVars

RootNext ==
  \/ \E i \in Links, w \in Windows : \E f \in Fields(w) :
       \E v \in {plan[i].win[w], Disabled(w)} : WriteConfig(i, w, f, v)
  \/ \E ranges \in BOOLEAN : WriteOther(ranges)
  \/ \E i \in Links : RecvRangeChange(i)
  \/ StartDrivers
  \/ \E s \in Ports, r \in Reqs : \E t \in Traffic :
       \E a \in Aims(s, t), n \in Needs(s, t) : Access(s, r, t, a, n)
  \/ Progress /\ UNCHANGED configVars

RootSpec == RootInit /\ [][RootNext]_rootVars

-----------------------------------------------------------------------------
(***************************************************************************)
(* Properties.                                                             *)
(***************************************************************************)

\* Whatever the order in which the registers were written, and whatever else
\* was written between, when the drivers run each address that a device claims
\* selects the link of that device, and the host was told of it ("send a range
\* change when any of the bridge limit/BAR registers are changed",
\* writeConfig): no branch that moves a window leaves the host with the window
\* it had before.  The memory of the CXL device is at a fixed place instead.
DevicesReachable ==
  booted => \A i \in Links : \A a \in bars[i] :
              /\ portOf(conf, bars, a) = i
              /\ a \in told \/ i = CXLLink

\* The announcement and the decoding are written twice, in fill_ranges and in
\* getMasterPort, and only one of them asks whether a window was programmed.
\* Still, while the links are being programmed, an announced address selects a
\* link that announced it, or a link whose I/O window nobody has programmed
\* yet (its initial value is a window of its own).
AnnouncedIsDecoded ==
  \A a \in told :
    LET i == portOf(conf, bars, a)
    IN  /\ i \in Links
        /\ a \in fill_ranges(conf[i]) \/ ~ Programmed(conf[i]["io"])

\* recvTimingReq sends a snoop of the device to the port of one fixed address
\* and a coherence check of the host to the port of another.  When the drivers
\* run these are the link of the CXL device and masterPort_DMA, as module
\* PciBridge has it, whichever windows and claims come first in the decoding.
FixedAddressesDecode ==
  booted => /\ portOf(conf, bars, CXLRegs) = CXLLink
            /\ portOf(conf, bars, DramBase) = Host

\* The registers select the ports that module PciBridge takes for granted:
\* accesses of the host leave by a link, coherence checks are for the link of
\* the CXL device, and everything for the memory of the host leaves by
\* masterPort_DMA.
ImplementsBridge == Spec

=============================================================================
