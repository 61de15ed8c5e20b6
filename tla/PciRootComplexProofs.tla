------------------------ MODULE PciRootComplexProofs ------------------------
(***************************************************************************)
(* Proofs for module PciRootComplex: what the host is told, what the       *)
(* windows select, and that the root complex with its registers implements *)
(* the bridge of module PciBridge, whatever the plan, the number of links  *)
(* and the order of the writes.                                            *)
(***************************************************************************)
EXTENDS PciRootComplex, WellFoundedInduction, NaturalsInduction, TLAPS

(***************************************************************************)
(* The inductive invariant.  A field that was not marked valid still has   *)
(* its initial value: this is why decoding, which does not look at the     *)
(* marks, agrees with the announcement, which does.  What the host was     *)
(* last told is what the registers say now: every branch of writeConfig    *)
(* that stores to a window or marks it valid sets the flag.                *)
(***************************************************************************)
Untouched(r, w) ==
  /\ ~ r.validBase => r.base = 0 /\ (w # "io" => r.baseUpper = 0)
  /\ ~ r.validLimit => r.limit = 0 /\ (w # "io" => r.limitUpper = 0)

ToldIsCurrent == told = getAddrRanges(conf)

ConfigTyped ==
  /\ plan \in Plans
  /\ conf \in [Links -> [Windows -> Registers]]
  /\ bars \in [Links -> SUBSET Nat]
  /\ booted \in BOOLEAN

RootInv ==
  /\ ConfigTyped
  /\ \A i \in Links, w \in Windows : Untouched(conf[i][w], w)
  /\ ToldIsCurrent
  /\ booted => \A i \in Links : Done(i) /\ bars[i] = Claims(i, plan[i].bars)

-----------------------------------------------------------------------------
(***************************************************************************)
(* Lemmas on the registers.                                                *)
(***************************************************************************)

\* The addresses of a window are natural numbers.
LEMMA WindowNat ==
  ASSUME NEW w, NEW r, r.baseUpper \in Nat, r.limitUpper \in Nat,
         r.base \in 0 .. PAGE - 1, r.limit \in 0 .. PAGE - 1
  PROVE  getBase(r) \in Nat /\ getLimit(w, r) \in Nat
  <1>1. PAGE \in Nat /\ UINT16 \in Nat \ {0}
    BY PlanAssumption, Zenon
  <1>. DEFINE u == IF w = "pref" THEN r.limitUpper % UINT16 ELSE r.limitUpper
  <1>2. u \in Nat
    BY <1>1, SMT, Z3T(30)
  <1>3. getLimit(w, r) = u * PAGE + r.limit
    BY Zenon DEF getLimit
  <1>. HIDE DEF u
  <1>4. r.baseUpper * PAGE \in Nat /\ u * PAGE \in Nat
    BY <1>1, <1>2, SMT, Z3T(30)
  <1>. QED
    BY <1>1, <1>3, <1>4, SMT, Z3T(30) DEF getBase

\* A set of links has a first one.
LEMMA FirstExists ==
  ASSUME NEW S \in SUBSET Links, S # {}
  PROVE  First(S) \in S
  <1>1. S \in SUBSET Nat
    BY PortAssumption
  <1>2. \E i \in S : \A j \in S : i <= j
    <2>. DEFINE R == {ss \in Nat \X Nat : ss[1] < ss[2]}
    <2>1. IsWellFoundedOn(R, Nat)
      BY NatLessThanWellFounded, Zenon DEF OpToRel
    <2>2. \E i \in S : \A j \in S : ~ (<<j, i>> \in R)
      <3>. HIDE DEF R
      <3>. QED  BY <1>1, <2>1, WFMin, Zenon
    <2>3. PICK i \in S : \A j \in S : ~ (<<j, i>> \in R)
      BY <2>2
    <2>4. ASSUME NEW j \in S PROVE i <= j
      <3>1. i \in Nat /\ j \in Nat
        BY <1>1
      <3>2. <<j, i>> \in Nat \X Nat /\ <<j, i>>[1] = j /\ <<j, i>>[2] = i
        BY <3>1
      <3>3. ~ (j < i)
        BY <2>3, <3>2, Zenon
      <3>. QED
        BY <3>1, <3>3
    <2>. QED
      BY <2>4
  <1>. QED
    BY <1>2 DEF First

\* An address in a window of some link selects a link with such a window.
LEMMA WindowSelects ==
  ASSUME NEW c, NEW d, NEW a, NEW i \in Links, decodes(c[i], a)
  PROVE  portOf(c, d, a) \in Links /\ decodes(c[portOf(c, d, a)], a)
  <1>. DEFINE W == {j \in Links : decodes(c[j], a)}
  <1>1. W # {} /\ W \in SUBSET Links
    OBVIOUS
  <1>2. First(W) \in W
    BY <1>1, FirstExists, Zenon
  <1>3. portOf(c, d, a) = First(W)
    BY <1>1 DEF portOf
  <1>. QED
    BY <1>2, <1>3, Zenon

\* What is announced is decoded.
LEMMA AnnouncedDecodes ==
  ASSUME NEW c, NEW a, a \in fill_ranges(c)
  PROVE  decodes(c, a)
  BY DEF fill_ranges, decodes

\* What is decoded was announced, once the I/O window is programmed: a window
\* of memory that is not starts at 0 or ends there.
LEMMA DecodedAnnounced ==
  ASSUME NEW c \in [Windows -> Registers], NEW a,
         \A w \in Windows : Untouched(c[w], w),
         Programmed(c["io"]), decodes(c, a)
  PROVE  a \in fill_ranges(c)
  <1>1. PICK w \in Windows :
          getBase(c[w]) # 0 /\ a \in getBase(c[w]) .. getLimit(w, c[w])
    BY DEF decodes
  <1>2. c[w] \in Registers
    OBVIOUS
  <1>3. getBase(c[w]) \in Nat /\ getLimit(w, c[w]) \in Nat
    BY <1>2, WindowNat, Zenon DEF Registers
  <1>4. Programmed(c[w])
    <2>1. CASE w = "io"
      BY <2>1
    <2>2. CASE w # "io"
      <3>1. PAGE \in Nat /\ UINT16 \in Nat \ {0}
        BY PlanAssumption, Zenon
      <3>2. c[w].validBase
        <4>1. SUFFICES ASSUME ~ c[w].validBase PROVE FALSE
          BY <1>2, Zenon DEF Registers
        <4>2. c[w].base = 0 /\ c[w].baseUpper = 0
          BY <4>1, <2>2, Zenon DEF Untouched
        <4>. QED
          BY <4>2, <1>1, <3>1, SMT, Z3T(30) DEF getBase
      <3>3. c[w].validLimit
        <4>1. SUFFICES ASSUME ~ c[w].validLimit PROVE FALSE
          BY <1>2, SMT, Z3T(30) DEF Registers
        <4>2. c[w].limit = 0 /\ c[w].limitUpper = 0
          BY <4>1, <2>2, Zenon DEF Untouched
        <4>3. getLimit(w, c[w]) = 0
          BY <4>2, <3>1, SMT, Z3T(30) DEF getLimit
        <4>. QED
          BY <4>3, <1>1, <1>3, SMT, Z3T(30)
      <3>. QED
        BY <3>2, <3>3, Zenon DEF Programmed
    <2>. QED
      BY <2>1, <2>2, Zenon
  <1>. QED
    BY <1>1, <1>4, Zenon DEF fill_ranges

\* A write keeps the types of the registers.
LEMMA WrittenTyped ==
  ASSUME NEW r \in Registers, NEW w \in Windows, NEW f \in Fields(w),
         NEW v \in Window, Untouched(r, w)
  PROVE  written(r, w, f, v) \in Registers /\ Untouched(written(r, w, f, v), w)
  <1>1. written(r, w, f, v) \in Registers
    BY DEF written, Registers, Window
  <1>2. w # "io" => f # "uppers"
    BY DEF Fields
  <1>3. f \in {"base", "limit", "both", "baseUpper", "limitUpper", "uppers"}
    BY DEF Fields
  <1>4. Untouched(written(r, w, f, v), w)
    BY <1>2, <1>3, ZenonT(40) DEF Untouched, written, Registers, Windows
  <1>. QED
    BY <1>1, <1>4, SMT, Z3T(30)

\* A write that does not set the flag leaves the windows as they are.
LEMMA UnflaggedWrite ==
  ASSUME NEW r \in Registers, NEW w \in Windows, NEW f \in Fields(w), NEW v,
         ~ flag(w, f)
  PROVE  written(r, w, f, v) = r
  <1>1. w \in {"mem", "pref", "io"}
    BY DEF Windows
  <1>2. f \in {"base", "limit", "both"}
          \cup (IF w = "mem" THEN {} ELSE {"baseUpper", "limitUpper"})
          \cup (IF w = "io" THEN {"uppers"} ELSE {})
    BY Zenon DEF Fields
  <1>. QED
    BY <1>1, <1>2, SMT, Z3T(30) DEF flag

\* What the operating system writes are values of the registers.
LEMMA ValuesTyped ==
  ASSUME NEW p \in Plans, NEW i \in Links, NEW w \in Windows
  PROVE  p[i].win[w] \in Window /\ Disabled(w) \in Window
  BY PlanAssumption DEF Window, Disabled

\* What a device claims are addresses.
LEMMA ClaimsTyped ==
  ASSUME NEW i \in Links, NEW addrs \in SUBSET Nat
  PROVE  Claims(i, addrs) \in SUBSET Nat
  <1>1. Hdm \subseteq Nat /\ CXLRegs \in Nat
    BY PlanAssumption
  <1>2. Hdm \cup {CXLRegs} \in SUBSET Nat
    BY ONLY <1>1, Zenon
  <1>. QED
    BY ONLY <1>2, addrs \in SUBSET Nat, Zenon DEF Claims

-----------------------------------------------------------------------------
(***************************************************************************)
(* The invariant is inductive.                                             *)
(***************************************************************************)
LEMMA RootInvInit == RootInit => RootInv
  <1>. SUFFICES ASSUME RootInit PROVE RootInv
    BY SMT, Z3T(30)
  <1>1. \A w \in Windows :
          NewRegisters(w) \in Registers /\ Untouched(NewRegisters(w), w)
    BY PlanAssumption, SMT, Z3T(30) DEF NewRegisters, Registers, Untouched, Disabled
  <1>2. NewConfig \in [Windows -> Registers]
    BY <1>1 DEF NewConfig
  <1>3. ConfigTyped
    <2>1. \A i \in Links : Claims(i, {}) \in SUBSET Nat
      BY ClaimsTyped, Zenon
    <2>. QED
      BY <1>2, <2>1, Zenon DEF RootInit, ConfigTyped
  <1>4. \A i \in Links, w \in Windows : Untouched(conf[i][w], w)
    BY <1>1, Zenon DEF RootInit, NewConfig
  <1>. QED
    BY <1>3, <1>4, Zenon DEF RootInit, RootInv, ToldIsCurrent

LEMMA RootInvNext == RootInv /\ [RootNext]_rootVars => RootInv'
  <1>. SUFFICES ASSUME RootInv, [RootNext]_rootVars PROVE RootInv'
    OBVIOUS
  <1>. USE DEF RootInv, ConfigTyped, ToldIsCurrent
  <1>1. ASSUME NEW i \in Links, NEW w \in Windows, NEW f \in Fields(w),
               NEW v \in {plan[i].win[w], Disabled(w)}, WriteConfig(i, w, f, v)
        PROVE  RootInv'
    <2>. DEFINE r == written(conf[i][w], w, f, v)
    <2>1. v \in Window
      BY ValuesTyped, Zenon
    <2>2. r \in Registers /\ Untouched(r, w)
      BY <2>1, WrittenTyped, Zenon
    <2>3. conf' = [conf EXCEPT ![i] = [conf[i] EXCEPT ![w] = r]]
      BY <1>1, Zenon DEF WriteConfig
    <2>. HIDE DEF r
    <2>4. ConfigTyped'
      BY <1>1, <2>2, <2>3, SMT, Z3T(30) DEF WriteConfig
    <2>5. ASSUME NEW j \in Links, NEW u \in Windows
          PROVE  Untouched(conf'[j][u], u)
      <3>1. conf'[j][u] = IF j = i /\ u = w THEN r ELSE conf[j][u]
        BY <2>3, Zenon
      <3>. QED
        BY <3>1, <2>2, Zenon
    <2>6. ToldIsCurrent'
      <3>1. CASE flag(w, f)
        BY <1>1, <3>1, Zenon DEF WriteConfig, getAddrRanges
      <3>2. CASE ~ flag(w, f)
        <4>1. conf[i] \in [Windows -> Registers] /\ conf[i][w] \in Registers
          BY Zenon
        <4>2. r = conf[i][w]
          BY <3>2, <4>1, UnflaggedWrite, Zenon DEF r
        <4>3. conf' = conf
          BY <2>3, <4>1, <4>2, SMT, Z3T(30)
        <4>4. told' = told
          BY <1>1, <3>2, SMT, Z3T(30) DEF WriteConfig
        <4>5. told = getAddrRanges(conf)
          BY Zenon
        <4>6. getAddrRanges(conf') = getAddrRanges(conf)
          BY ONLY <4>3, Zenon
        <4>. QED
          BY ONLY <4>4, <4>5, <4>6, Zenon DEF ToldIsCurrent, getAddrRanges
      <3>. QED
        BY <3>1, <3>2, Zenon
    <2>7. ~ booted'
      BY <1>1, Zenon DEF WriteConfig
    <2>. QED
      BY <2>4, <2>5, <2>6, <2>7, ZenonT(40)
  <1>2. ASSUME NEW i \in Links, RecvRangeChange(i) PROVE RootInv'
    <2>0. plan[i].bars \in SUBSET Nat
      BY PlanAssumption, SMT, Z3T(30)
    <2>1. Claims(i, plan[i].bars) \in SUBSET Nat
      BY <2>0, ClaimsTyped, Zenon
    <2>2. ConfigTyped'
      BY <1>2, <2>1, ZenonT(40) DEF RecvRangeChange
    <2>. QED
      BY <1>2, <2>2, Zenon DEF RecvRangeChange, getAddrRanges
  <1>3. ASSUME StartDrivers PROVE RootInv'
    BY <1>3 DEF StartDrivers, Done, getAddrRanges
  <1>4. ASSUME UNCHANGED configVars PROVE RootInv'
    BY <1>4, Zenon DEF configVars, Done, getAddrRanges
  <1>5. ASSUME NEW ranges \in BOOLEAN, WriteOther(ranges) PROVE RootInv'
    <2>1. UNCHANGED configVars
      BY <1>5, Zenon DEF WriteOther, configVars
    <2>. QED
      BY <2>1, <1>4, Zenon
  <1>. QED
    BY <1>1, <1>2, <1>3, <1>4, <1>5, ZenonT(40) DEF RootNext, Access, rootVars, configVars

\* The invariant holds for ever.
THEOREM RootInvAlways == RootSpec => []RootInv
  BY RootInvInit, RootInvNext, PTL DEF RootSpec

-----------------------------------------------------------------------------
(***************************************************************************)
(* What the host is told, and what the windows select.                     *)
(***************************************************************************)

LEMMA InvDecodes == RootInv => AnnouncedIsDecoded
  <1>. SUFFICES ASSUME RootInv, NEW a \in told
                PROVE  LET i == portOf(conf, bars, a)
                       IN  /\ i \in Links
                           /\ \/ a \in fill_ranges(conf[i])
                              \/ ~ Programmed(conf[i]["io"])
    BY DEF AnnouncedIsDecoded
  <1>. DEFINE i == portOf(conf, bars, a)
  <1>1. PICK j \in Links : a \in fill_ranges(conf[j])
    BY DEF RootInv, ToldIsCurrent, getAddrRanges
  <1>2. i \in Links /\ decodes(conf[i], a)
    BY <1>1, AnnouncedDecodes, WindowSelects, Zenon
  <1>. HIDE DEF i
  <1>3. Programmed(conf[i]["io"]) => a \in fill_ranges(conf[i])
    BY <1>2, DecodedAnnounced, Zenon DEF RootInv, ConfigTyped
  <1>. QED
    BY <1>2, <1>3, Zenon DEF i

\* getMasterPort agrees with fill_ranges on every announced address, while
\* the windows are being programmed too, but for an untouched I/O window.
THEOREM AnnouncementsDecode == RootSpec => []AnnouncedIsDecoded
  BY RootInvAlways, InvDecodes, PTL

-----------------------------------------------------------------------------
(***************************************************************************)
(* The root complex implements the bridge.                                 *)
(***************************************************************************)

\* Once the drivers run, the windows are those of the plan.
LEMMA WindowsOfPlan ==
  ASSUME RootInv, booted, NEW i \in Links, NEW a, decodes(conf[i], a)
  PROVE  a \in Given(plan[i])
  <1>1. PICK w \in Windows : a \in getBase(conf[i][w]) .. getLimit(w, conf[i][w])
    BY Zenon DEF decodes
  <1>2. /\ getBase(conf[i][w]) = getBase(plan[i].win[w])
        /\ getLimit(w, conf[i][w]) = getLimit(w, plan[i].win[w])
    BY Zenon DEF RootInv, Done, getBase, getLimit
  <1>. QED
    BY <1>1, <1>2, Zenon DEF Given

\* And each of them is announced and decoded.
LEMMA PlanIsAnnounced ==
  ASSUME RootInv, booted, NEW i \in Links, NEW a \in Given(plan[i])
  PROVE  a \in told /\ decodes(conf[i], a)
  <1>1. PICK w \in Windows :
          a \in getBase(plan[i].win[w]) .. getLimit(w, plan[i].win[w])
    BY Zenon DEF Given
  <1>2. /\ getBase(conf[i][w]) = getBase(plan[i].win[w])
        /\ getLimit(w, conf[i][w]) = getLimit(w, plan[i].win[w])
        /\ Programmed(conf[i][w])
    BY Zenon DEF RootInv, Done, getBase, getLimit
  <1>3. getBase(plan[i].win[w]) # 0
    BY PlanAssumption, Zenon DEF RootInv, ConfigTyped
  <1>4. a \in fill_ranges(conf[i])
    BY <1>1, <1>2, <1>3, Zenon DEF fill_ranges
  <1>5. a \in told
    BY <1>4, Zenon DEF RootInv, ToldIsCurrent, getAddrRanges
  <1>. QED
    BY <1>4, <1>5, AnnouncedDecodes, Zenon

\* An address of the memory of the host selects masterPort_DMA.
LEMMA DramSelectsHost ==
  ASSUME RootInv, booted, NEW a \in Dram
  PROVE  portOf(conf, bars, a) = Host
  <1>1. ASSUME NEW i \in Links PROVE a \notin Given(plan[i])
    BY PlanAssumption, Zenon DEF RootInv, ConfigTyped
  <1>2. ASSUME NEW i \in Links PROVE ~ decodes(conf[i], a)
    BY <1>1, WindowsOfPlan, Zenon
  <1>3. ASSUME NEW i \in Links PROVE a \notin bars[i]
    <2>1. bars[i] = Claims(i, plan[i].bars)
      BY Zenon DEF RootInv
    <2>2. a \notin plan[i].bars
      BY <1>1, PlanAssumption, Zenon DEF RootInv, ConfigTyped
    <2>3. a \notin Hdm \cup {CXLRegs}
      BY PlanAssumption, Zenon
    <2>. QED
      BY <2>1, <2>2, <2>3, Zenon DEF Claims
  <1>. QED
    BY <1>2, <1>3, Zenon DEF portOf

\* An address of the CXL device selects its link, by a window or by the claim.
LEMMA DeviceSelectsCXLLink ==
  ASSUME RootInv, booted, NEW a \in Hdm \cup {CXLRegs}
  PROVE  portOf(conf, bars, a) = CXLLink
  <1>1. CXLLink \in Links
    BY PortAssumption, Zenon
  <1>2. ASSUME NEW i \in Links \ {CXLLink} PROVE a \notin Given(plan[i])
    BY PlanAssumption, Zenon DEF RootInv, ConfigTyped
  <1>3. CASE \E i \in Links : decodes(conf[i], a)
    <2>. DEFINE i == portOf(conf, bars, a)
    <2>1. i \in Links /\ decodes(conf[i], a)
      BY <1>3, WindowSelects, Zenon
    <2>. HIDE DEF i
    <2>2. i = CXLLink
      BY <1>2, <2>1, WindowsOfPlan, Zenon
    <2>. QED
      BY <2>2, Zenon DEF i
  <1>4. CASE ~ \E i \in Links : decodes(conf[i], a)
    <2>1. a \in bars[CXLLink]
      BY <1>1, Zenon DEF RootInv, Claims
    <2>2. ASSUME NEW i \in Links \ {CXLLink} PROVE a \notin bars[i]
      BY <1>2, PlanAssumption, Zenon DEF RootInv, ConfigTyped, Claims
    <2>3. {i \in Links : a \in bars[i]} = {CXLLink}
      BY <1>1, <2>1, <2>2, ZenonT(40)
    <2>4. First({CXLLink}) = CXLLink
      BY <1>1, FirstExists, SMT, Z3T(30)
    <2>. QED
      BY <1>4, <2>3, <2>4, ZenonT(40) DEF portOf
  <1>. QED
    BY <1>3, <1>4, Zenon

\* writeConfig, updateRanges, fill_ranges and getMasterPort together: for every
\* plan and every order of the writes, the host was told of what the devices
\* claim when their drivers run, and the claims select their links.
THEOREM DevicesAreReachable == RootSpec => []DevicesReachable
  <1>1. RootInv => DevicesReachable
    <2>. SUFFICES ASSUME RootInv, booted, NEW i \in Links, NEW a \in bars[i]
                  PROVE  /\ portOf(conf, bars, a) = i
                         /\ a \in told \/ i = CXLLink
      BY Zenon DEF DevicesReachable
    <2>1. CASE i = CXLLink
      <3>1. a \in Hdm \cup {CXLRegs}
        BY <2>1, Zenon DEF RootInv, Claims
      <3>. QED
        BY <2>1, <3>1, DeviceSelectsCXLLink, Zenon
    <2>2. CASE i # CXLLink
      <3>1. a \in Given(plan[i])
        BY <2>2, PlanAssumption, Zenon DEF RootInv, ConfigTyped, Claims
      <3>2. a \in told /\ decodes(conf[i], a)
        BY <3>1, PlanIsAnnounced, Zenon
      <3>. DEFINE j == portOf(conf, bars, a)
      <3>3. j \in Links /\ decodes(conf[j], a)
        BY <3>2, WindowSelects, Zenon
      <3>. HIDE DEF j
      <3>4. a \in Given(plan[j])
        BY <3>3, WindowsOfPlan, Zenon
      <3>5. ASSUME j # i PROVE FALSE
        <4>1. plan \in Plans
          BY Zenon DEF RootInv, ConfigTyped
        <4>2. Given(plan[i]) \cap Given(plan[j]) = {}
          BY <3>3, <3>5, <4>1, PlanAssumption, Zenon
        <4>. QED
          BY <3>1, <3>4, <4>2, Zenon
      <3>. QED
        BY <3>2, <3>5, Zenon DEF j
    <2>. QED
      BY <2>1, <2>2, Zenon
  <1>. QED
    BY <1>1, RootInvAlways, PTL

\* The fixed addresses in recvTimingReq select the ports they are meant to, for
\* every plan, once the windows are programmed.
THEOREM FixedAddressesSelect == RootSpec => []FixedAddressesDecode
  <1>1. RootInv => FixedAddressesDecode
    <2>. SUFFICES ASSUME RootInv, booted
                  PROVE  /\ portOf(conf, bars, CXLRegs) = CXLLink
                         /\ portOf(conf, bars, DramBase) = Host
      BY Zenon DEF FixedAddressesDecode
    <2>1. DramBase \in Dram
      BY PlanAssumption, Zenon
    <2>. QED
      BY <2>1, DeviceSelectsCXLLink, DramSelectsHost, Zenon
  <1>. QED
    BY <1>1, RootInvAlways, PTL

\* A request of the host, a device or the CXL device comes with the port that
\* module PciBridge gives it.
LEMMA AimsAreOffers ==
  ASSUME RootInv, booted, NEW s \in Ports, NEW t \in Traffic, NEW a \in Aims(s, t),
         NEW n \in Needs(s, t)
  PROVE  <<t, portOf(conf, bars, a), n>> \in Offers(s)
  <1>1. t \in Types /\ n \in BOOLEAN
    BY TrafficAssumption, Zenon DEF Types, Needs
  <1>. DEFINE d == portOf(conf, bars, a)
              o == <<t, d, n>>
  <1>0. o[1] = t /\ o[2] = d /\ o[3] = n
    OBVIOUS
  <1>5. d \in Ports => o \in Types \X Ports \X BOOLEAN
    BY <1>1, Zenon
  <1>. HIDE DEF o, d
  <1>2. CASE /\ s = Host /\ t = "Default"
             /\ \E i \in Links : a \in bars[i] /\ (a \in told \/ i = CXLLink)
    <2>0. a \in told \cup Hdm \cup {CXLRegs}
      BY <1>2, PortAssumption, Zenon DEF RootInv, Claims
    <2>1. portOf(conf, bars, a) \in Links
      BY <2>0, InvDecodes, DeviceSelectsCXLLink, PortAssumption, SMT, Z3T(30)
      DEF AnnouncedIsDecoded
    <2>. QED
      BY <1>0, <1>2, <1>5, <2>1, ZenonT(40) DEF Offers, Ports, d, o
  <1>3. CASE a \in Dram /\ \/ s = Host /\ t = "CXLcacheH2DReq"
                           \/ s \in Links /\ t = "Default"
                           \/ s = CXLLink /\ t = "CXLcache"
    <2>1. portOf(conf, bars, a) = Host
      BY <1>3, DramSelectsHost, Zenon
    <2>. QED
      BY <1>0, <1>3, <1>5, <2>1, ZenonT(40) DEF Offers, Ports, d, o
  <1>4. CASE s = CXLLink /\ t = "HostBiasCheck" /\ a \in Hdm
    <2>1. portOf(conf, bars, a) = CXLLink
      BY <1>4, DeviceSelectsCXLLink, Zenon
    <2>. QED
      BY <1>0, <1>4, <1>5, <2>1, PortAssumption, ZenonT(40) DEF Offers, Ports, d, o
  <1>. QED
    BY <1>2, <1>3, <1>4, Zenon DEF Aims

LEMMA StepImplements == RootInv /\ [RootNext]_rootVars => [Next]_vars
  <1>. SUFFICES ASSUME RootInv, [RootNext]_rootVars PROVE [Next]_vars
    OBVIOUS
  <1>1. ASSUME NEW s \in Ports, NEW r \in Reqs, NEW t \in Traffic,
               NEW a \in Aims(s, t), NEW n \in Needs(s, t),
               Access(s, r, t, a, n)
        PROVE  Next
    <2>1. <<t, portOf(conf, bars, a), n>> \in Offers(s)
      BY <1>1, AimsAreOffers, Zenon DEF Access
    <2>2. RecvReq(s, r, <<t, portOf(conf, bars, a), n>>)
      BY <1>1, Zenon DEF Access
    <2>. QED
      BY <2>1, <2>2, Zenon DEF Next
  <1>2. Progress => Next
    BY DEF Next
  <1>3. ASSUME NEW i \in Links, NEW w \in Windows, NEW f \in Fields(w), NEW v,
               WriteConfig(i, w, f, v)
        PROVE  UNCHANGED vars
    BY <1>3, Zenon DEF WriteConfig, vars
  <1>4. ASSUME NEW i \in Links, RecvRangeChange(i) PROVE UNCHANGED vars
    BY <1>4, SMT, Z3T(30) DEF RecvRangeChange, vars
  <1>5. StartDrivers => UNCHANGED vars
    BY DEF StartDrivers, vars
  <1>6. UNCHANGED rootVars => UNCHANGED vars
    BY DEF rootVars, vars
  <1>7. ASSUME NEW ranges, WriteOther(ranges) PROVE UNCHANGED vars
    BY <1>7, Zenon DEF WriteOther, vars
  <1>. QED
    BY <1>1, <1>2, <1>3, <1>4, <1>5, <1>6, <1>7, ZenonT(40) DEF RootNext

\* The root complex whose registers select the ports implements the bridge
\* whose requests come with their port: what is proved of module PciBridge
\* holds of it, with the registers written by software in any order.
THEOREM RootImplementsBridge == RootSpec => ImplementsBridge
  <1>1. RootInit => Init
    BY DEF RootInit
  <1>. QED
    BY <1>1, RootInvAlways, StepImplements, PTL DEF RootSpec, ImplementsBridge, Spec

=============================================================================
