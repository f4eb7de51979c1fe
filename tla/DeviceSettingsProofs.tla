------------------------- MODULE DeviceSettingsProofs -------------------------
(* Proofs about DeviceSettings, for all machines, packets and values.        *)
EXTENDS DeviceSettings, TLAPS

-------------------------------------------------------------------------------
\* The encodings of the Curve Optimizer.

\* What the Curve Optimizer is sent is what it is meant to take, and for the
\* core it is meant for (CurveOptimizerAll, CurveOptimizerCore).
THEOREM CurveOptimizerRoundTrip ==
  ASSUME NEW offt \in Offsets, NEW cpu \in Nat
  PROVE  /\ Signed(CurveOptimizerAll(offt), 1048576) = offt
         /\ Signed(CurveOptimizerCore(cpu, offt), 65536) = offt
         /\ CurveOptimizerCore(cpu, offt) \div 1048576 = cpu
<1>0. offt \in Int /\ -32768 <= offt /\ offt <= 32767
  <2>1. OffsetBound \in Nat
    BY DEF OffsetBound
  <2>2. offt \in Int /\ -OffsetBound <= offt /\ offt <= OffsetBound - 1
    BY <2>1 DEF Offsets
  <2> QED BY <2>2 DEF OffsetBound
<1>1. Signed(CurveOptimizerAll(offt), 1048576) = offt
  <2>1. CASE offt = 0
    BY <2>1 DEF Signed, CurveOptimizerAll, CurveOptimizerBase
  <2>2. CASE offt < 0
    <3>1. CurveOptimizerAll(offt) = 1048576 + offt
      BY <1>0, <2>2 DEF CurveOptimizerAll, CurveOptimizerBase
    <3>2. (1048576 + offt) % 1048576 = 1048576 + offt
      BY <1>0, <2>2
    <3> QED BY <1>0, <2>2, <3>1, <3>2 DEF Signed
  <2>3. CASE offt > 0
    <3>1. CurveOptimizerAll(offt) = offt
      BY <1>0, <2>3 DEF CurveOptimizerAll
    <3>2. offt % 1048576 = offt
      BY <1>0, <2>3
    <3> QED BY <1>0, <2>3, <3>1, <3>2 DEF Signed
  <2> QED BY <1>0, <2>1, <2>2, <2>3
<1>2. (cpu * 1048576 + (offt % 65536)) % 65536 = offt % 65536
  <2>1. offt % 65536 \in Int /\ 0 <= offt % 65536 /\ offt % 65536 < 65536
    BY <1>0
  <2>2. cpu * 1048576 = (cpu * 16) * 65536 /\ cpu * 16 \in Int
    OBVIOUS
  <2>3. ASSUME NEW k \in Int, NEW l \in Int, 0 <= l, l < 65536
        PROVE  (k * 65536 + l) % 65536 = l
    BY <2>3
  <2> QED BY <2>1, <2>2, <2>3
<1>3. offt % 65536 = IF offt >= 0 THEN offt ELSE offt + 65536
  BY <1>0
<1>4. Signed(CurveOptimizerCore(cpu, offt), 65536) =
        IF 2 * (offt % 65536) < 65536 THEN offt % 65536 ELSE (offt % 65536) - 65536
  BY <1>2 DEF Signed, CurveOptimizerCore
<1>5. Signed(CurveOptimizerCore(cpu, offt), 65536) = offt
  BY <1>0, <1>3, <1>4
<1>6. CurveOptimizerCore(cpu, offt) \div 1048576 = cpu
  <2>1. offt % 65536 \in Int /\ 0 <= offt % 65536 /\ offt % 65536 < 65536
    BY <1>0
  <2>2. ASSUME NEW l \in Int, 0 <= l, l < 65536
        PROVE  (cpu * 1048576 + l) \div 1048576 = cpu
    BY <2>2
  <2> QED BY <2>1, <2>2 DEF CurveOptimizerCore
<1> QED BY <1>1, <1>5, <1>6

-------------------------------------------------------------------------------
\* Values that registers have room for.

\* A register of eighths holds less than 125 thousandths less than it is sent.
LEMMA EighthsFit ==
  ASSUME NEW v \in Int
  PROVE  InEighths(v) \in Int /\ InEighths(v) <= v /\ v < InEighths(v) + 125
BY DEF InEighths

\* A request loses less than a tenth of a time it is sent
\* (USecToRawHWPActivityWindow).
LEMMA ActivityWindowFits ==
  ASSUME NEW us \in Int, 0 <= us, us <= LongestWindow
  PROVE  /\ ActivityWindow(us) \in Int
         /\ \/ ActivityWindow(us) = us
            \/ ActivityWindow(us) <= us /\ 10 * (us - ActivityWindow(us)) < us
<1>0. us \in Int /\ 0 <= us /\ us <= 1279999999
  BY DEF LongestWindow
<1> DEFINE Least(t) == us \div t < 128 /\ \A u \in Tens : us \div u < 128 => t <= u
           kept == CHOOSE t \in Tens : Least(t)
<1>1. \E t \in Tens : Least(t)
  <2>1. us \div 10000000 < 128
    BY <1>0
  <2>2. CASE us \div 1 < 128
    BY <2>2 DEF Tens
  <2>3. CASE ~(us \div 1 < 128) /\ us \div 10 < 128
    BY <2>3 DEF Tens
  <2>4. CASE ~(us \div 1 < 128) /\ ~(us \div 10 < 128) /\ us \div 100 < 128
    BY <2>4 DEF Tens
  <2>5. CASE /\ ~(us \div 1 < 128) /\ ~(us \div 10 < 128) /\ ~(us \div 100 < 128)
             /\ us \div 1000 < 128
    BY <2>5 DEF Tens
  <2>6. CASE /\ ~(us \div 1 < 128) /\ ~(us \div 10 < 128) /\ ~(us \div 100 < 128)
             /\ ~(us \div 1000 < 128) /\ us \div 10000 < 128
    BY <2>6 DEF Tens
  <2>7. CASE /\ ~(us \div 1 < 128) /\ ~(us \div 10 < 128) /\ ~(us \div 100 < 128)
             /\ ~(us \div 1000 < 128) /\ ~(us \div 10000 < 128) /\ us \div 100000 < 128
    BY <2>7 DEF Tens
  <2>8. CASE /\ ~(us \div 1 < 128) /\ ~(us \div 10 < 128) /\ ~(us \div 100 < 128)
             /\ ~(us \div 1000 < 128) /\ ~(us \div 10000 < 128) /\ ~(us \div 100000 < 128)
             /\ us \div 1000000 < 128
    BY <2>8 DEF Tens
  <2>9. CASE /\ ~(us \div 1 < 128) /\ ~(us \div 10 < 128) /\ ~(us \div 100 < 128)
             /\ ~(us \div 1000 < 128) /\ ~(us \div 10000 < 128) /\ ~(us \div 100000 < 128)
             /\ ~(us \div 1000000 < 128)
    BY <2>1, <2>9 DEF Tens
  <2> QED BY <2>2, <2>3, <2>4, <2>5, <2>6, <2>7, <2>8, <2>9
<1>2. kept \in Tens /\ Least(kept)
  BY <1>1
<1>3. ActivityWindow(us) = us - (us % kept)
  BY DEF ActivityWindow
<1> HIDE DEF kept
<1>4. kept = 1 \/ ~(us \div (kept \div 10) < 128)
  <2>1. kept = 1 \/ kept \div 10 \in Tens
    BY <1>2 DEF Tens
  <2>2. kept = 1 \/ ~(kept <= kept \div 10)
    BY <1>2 DEF Tens
  <2> QED BY <1>2, <2>1, <2>2
<1>5. CASE kept = 1
  BY <1>0, <1>3, <1>5
<1>6. ASSUME NEW t \in {1, 10, 100, 1000, 10000, 100000, 1000000}, kept = 10 * t
      PROVE  /\ us - (us % kept) \in Int
             /\ us - (us % kept) <= us /\ 10 * (us - (us - (us % kept))) < us
  <2>1. ~(us \div t < 128)
    BY <1>4, <1>6
  <2>2. us >= 128 * t /\ t \in Int
    BY <1>0, <2>1
  <2>3. us % kept \in Int /\ 0 <= us % kept /\ us % kept < 10 * t
    BY <1>0, <1>6
  <2> QED BY <1>0, <2>2, <2>3
<1> QED BY <1>2, <1>3, <1>5, <1>6 DEF Tens

USE NoValueAssumption

-------------------------------------------------------------------------------
\* Places.

\* What the proofs need to know about rows, and about places.
Facts(x) ==
    /\ x.stage \in Nat
    /\ x.slot = "cpuOnlineStatus" => x.stage = 10
    /\ x.slot = "smtState" => x.stage = 8
    /\ x.slot = "pstateStatus" => x.stage = 11
    /\ x.slot = "scalingGovernor" => x.stage = 10
    /\ IsCPUFreq(x) => x.stage = 10
    /\ x.slot = "epp" => x.stage = 12
    /\ IsDevice(x) => x.stage \in {6, 7}
    /\ x.slot \in {"gpuMinFreq", "gpuMaxFreq"} => x.stage = 9 /\ x.error = "W_INTEL_GPU_FREQ"
    /\ x.slot \in {"dpmLevel", "sclk"} => x.stage = 9 /\ x.error = "W_AMD_GPU_DPM_FORCE_PERF_LEVEL"
    /\ IsOneWay(x) => x.stage = 1
    /\ x.slot \in {"pkgPowerLimit", "pkgPowerTime"} => x.error = "W_PKG_POWER_LIMIT"
    /\ x.slot \in {"mchbarPkgRaplLimit", "mchbarPkgRaplTime"} => x.error = "W_POWER_LIMIT_MCHBAR"

LEMMA RowFacts ==
  /\ \A r \in AMDPackageRows : Facts(r)
  /\ \A r \in AMDThreadRows : Facts(r)
  /\ \A r \in RyPackageRows : Facts(r)
  /\ \A r \in RyCoreRows : Facts(r)
  /\ \A r \in IntelPackageRows : Facts(r)
  /\ \A r \in IntelCoreRows : Facts(r)
  /\ \A r \in IntelThreadRows : Facts(r)
  /\ \A r \in MCHBARRows : Facts(r)
  /\ \A r \in BlockRows \cup MiscPMRows : Facts(r)
  /\ \A r \in OSPackageRows : Facts(r)
  /\ \A r \in IntelGPURows : Facts(r)
  /\ \A r \in AMDGPURows : Facts(r)
  /\ \A r \in OSThreadRows : Facts(r)
  /\ \A r \in OSAMDPackageRows : Facts(r)
  /\ \A r \in OSAMDThreadRows : Facts(r)
<1> USE DEF Facts, Row, IsCPUFreq, IsDevice, IsOneWay
<1>1. \A r \in AMDPackageRows : Facts(r) BY DEF AMDPackageRows
<1>2. \A r \in AMDThreadRows : Facts(r) BY DEF AMDThreadRows
<1>3. \A r \in RyPackageRows : Facts(r) BY DEF RyPackageRows, Option
<1>4. \A r \in RyCoreRows : Facts(r) BY DEF RyCoreRows
<1>5. \A r \in BlockRows \cup MiscPMRows : Facts(r) BY DEF BlockRows, MiscPMRows
<1>6. \A r \in OSPackageRows : Facts(r) BY DEF OSPackageRows
<1>7. \A r \in IntelGPURows : Facts(r) BY DEF IntelGPURows
<1>8. \A r \in AMDGPURows : Facts(r) BY DEF AMDGPURows
<1>9. \A r \in OSThreadRows : Facts(r) BY DEF OSThreadRows
<1>10. \A r \in OSAMDPackageRows : Facts(r) BY DEF OSAMDPackageRows
<1>11. \A r \in OSAMDThreadRows : Facts(r) BY DEF OSAMDThreadRows
<1>12. \A r \in IntelPackageRows : Facts(r) BY DEF IntelPackageRows, Package
<1>13. \A r \in IntelCoreRows : Facts(r) BY DEF IntelCoreRows
<1>14. \A r \in IntelThreadRows : Facts(r) BY DEF IntelThreadRows
<1>15. \A r \in MCHBARRows : Facts(r) BY DEF MCHBARRows
<1> QED BY <1>1, <1>2, <1>3, <1>4, <1>5, <1>6, <1>7, <1>8, <1>9, <1>10, <1>11, <1>12, <1>13, <1>14, <1>15

\* A place has what its row has.
LEMMA PlacesHaveRows ==
  ASSUME NEW rows, NEW features, NEW indices, \A r \in rows : Facts(r)
  PROVE  \A p \in PlacesOf(rows, features, indices) :
            Facts(p) /\ p.index \in indices /\ [p EXCEPT !.index = p.index] = p
<1> SUFFICES ASSUME NEW p \in PlacesOf(rows, features, indices)
             PROVE  Facts(p) /\ p.index \in indices /\ [p EXCEPT !.index = p.index] = p
  OBVIOUS
<1>1. PICK r \in rows, i \in indices :
        p = [stage |-> r.stage, index |-> i, turn |-> r.turn, slot |-> r.slot, error |-> r.error]
  BY DEF PlacesOf
<1>2. p.stage = r.stage /\ p.slot = r.slot /\ p.error = r.error /\ p.index = i
  BY <1>1
<1>3. Facts(r)
  OBVIOUS
<1>4. [p EXCEPT !.index = p.index] = p
  BY <1>1
<1> QED BY <1>2, <1>3, <1>4 DEF Facts, IsCPUFreq, IsDevice, IsOneWay

\* All places of all machines.
LEMMA PlaceFacts ==
  ASSUME NEW m \in Machines
  PROVE  \A p \in PlacesOn(m) : Facts(p) /\ p.index \in Nat /\ [p EXCEPT !.index = p.index] = p
<1>1. {0} \subseteq Nat /\ m.cpus \subseteq Nat /\ m.cores \subseteq Nat /\ m.devices \subseteq Nat
      /\ m.intelGpus \subseteq Nat /\ m.amdGpus \subseteq Nat
  BY MachinesAssumption
<1> DEFINE Good(S) == \A p \in S :
                        Facts(p) /\ p.index \in Nat /\ [p EXCEPT !.index = p.index] = p
<1>2. ASSUME NEW rows, NEW features, NEW indices \in SUBSET Nat, \A r \in rows : Facts(r)
      PROVE  Good(PlacesOf(rows, features, indices))
  BY <1>2, PlacesHaveRows
<1>3. /\ Good(PlacesOf(AMDPackageRows, AMDFeatures(m), {0}))
      /\ Good(PlacesOf(AMDThreadRows, AMDFeatures(m), m.cpus))
      /\ Good(PlacesOf(RyPackageRows, AMDFeatures(m), {0}))
      /\ Good(PlacesOf(RyCoreRows, AMDFeatures(m), m.cores))
  BY <1>1, <1>2, RowFacts
<1>4. /\ Good(PlacesOf(BlockRows \cup MiscPMRows, {"always"}, m.devices))
      /\ Good(PlacesOf(OSPackageRows, OSCPUFeatures(m), {0}))
      /\ Good(PlacesOf(IntelGPURows, IntelGPUFeatures(m), m.intelGpus))
      /\ Good(PlacesOf(AMDGPURows, AMDGPUFeatures(m), m.amdGpus))
      /\ Good(PlacesOf(OSThreadRows, OSCPUFeatures(m), m.cpus))
      /\ Good(PlacesOf(OSAMDPackageRows, OSCPUFeatures(m), {0}))
      /\ Good(PlacesOf(OSAMDThreadRows, OSCPUFeatures(m), m.cpus))
  BY <1>1, <1>2, RowFacts
<1>7. /\ Good(PlacesOf(IntelPackageRows, IntelFeatures(m), {0}))
      /\ Good(PlacesOf(IntelCoreRows, IntelFeatures(m), m.cores))
      /\ Good(PlacesOf(IntelThreadRows, IntelFeatures(m), m.cpus))
      /\ Good(PlacesOf(MCHBARRows, IntelFeatures(m), {0}))
  BY <1>1, <1>2, RowFacts
<1> HIDE DEF Good
<1>5. Good(AMDPlaces(m))
  BY <1>3 DEF AMDPlaces, Good
<1>6. Good(OSPlaces(m))
  BY <1>4 DEF OSPlaces, Good
<1>8. Good(IntelPlaces(m))
  BY <1>7 DEF IntelPlaces, Good
<1> QED BY <1>5, <1>6, <1>8 DEF PlacesOn, Good

\* The SMU holds what it is sent.
LEMMA SMUTakes ==
  ASSUME NEW p, p.index \in Nat, NEW v, p.slot \in OffsetSlots => v \in Offsets
  PROVE  TakenBySMU(p, v) = v
<1>1. CASE p.slot = "curveOptimizer"
  <2>1. TakenBySMU(p, v) = Signed(CurveOptimizerAll(v), 1048576)
    BY <1>1, SMT DEF TakenBySMU
  <2>2. v \in Offsets
    BY <1>1 DEF OffsetSlots
  <2> QED BY <2>1, <2>2, CurveOptimizerRoundTrip
<1>2. CASE p.slot = "coreCurveOptimizer"
  <2>1. TakenBySMU(p, v) = Signed(CurveOptimizerCore(p.index, v), 65536)
    BY <1>2, SMT DEF TakenBySMU
  <2>2. v \in Offsets
    BY <1>2 DEF OffsetSlots
  <2> QED BY <2>1, <2>2, CurveOptimizerRoundTrip
<1>3. CASE p.slot \notin {"curveOptimizer", "coreCurveOptimizer"}
  BY <1>3, SMT DEF TakenBySMU
<1> QED BY <1>1, <1>2, <1>3

\* No slot has two precisions.
LEMMA SlotsApart ==
  ASSUME NEW s
  PROVE  /\ s \in UndervoltSlots => s \notin EighthSlots \cup RequestSlots \cup WindowSlots
         /\ s \in EighthSlots => s \notin UndervoltSlots \cup RequestSlots \cup WindowSlots
         /\ s \in RequestSlots => s \notin UndervoltSlots \cup EighthSlots \cup WindowSlots
         /\ s \in WindowSlots => s \notin UndervoltSlots \cup EighthSlots \cup RequestSlots
BY DEF UndervoltSlots, EighthSlots, RequestSlots, WindowSlots

\* Slots that take what they are sent as it is.
Exact(slot) == slot \notin EighthSlots \cup RequestSlots \cup WindowSlots

\* Every place takes what it is sent, to its precision, unless it cannot.
LEMMA TakenFits ==
  ASSUME TypeOK, NEW p \in Asked(packet)
  PROVE  /\ p \in Places /\ packet[p] \in Int
         /\ TakenAt(p, packet[p]) = p
         /\ Taken(p, packet[p]) \in Int
         /\ Fits(p, packet[p], Taken(p, packet[p])) \/ Inexpressible(p)
         /\ Exact(p.slot) => Taken(p, packet[p]) = packet[p]
<1>1. machine \in Machines /\ packet \in machine.packets /\ p \in Places /\ packet[p] # NoValue
  BY DEF TypeOK, Asked, IsAsked
<1>2. p.index \in Nat /\ [p EXCEPT !.index = p.index] = p
  BY <1>1, PlaceFacts, MachinesAssumption DEF Places
<1>3. /\ packet[p] \in Int
      /\ p.slot \in OffsetSlots => packet[p] \in Offsets
      /\ p.slot \in UndervoltSlots => packet[p] <= 0
  <2>1. packet \in [Places -> Int \cup {NoValue}]
    BY <1>1, MachinesAssumption DEF Places
  <2> QED BY <2>1, <1>1, MachinesAssumption DEF Places
<1>4. TakenAt(p, packet[p]) = p
  <2>1. CASE p.slot = "coreCurveOptimizer"
    <3>1. CurveOptimizerCore(p.index, packet[p]) \div 1048576 = p.index
      BY <1>2, <1>3, <2>1, CurveOptimizerRoundTrip DEF OffsetSlots
    <3> QED BY <1>2, <2>1, <3>1 DEF TakenAt
  <2>2. CASE p.slot # "coreCurveOptimizer"
    BY <2>2 DEF TakenAt
  <2> QED BY <2>1, <2>2
<1>5. CASE Exact(p.slot)
  <2> DEFINE Same == Taken(p, packet[p]) = packet[p]
  <2>1. ASSUME p.slot \in UndervoltSlots PROVE Same
    BY <1>3, <2>1, SlotsApart DEF Taken, Lowered
  <2>2. ASSUME p.slot \notin UndervoltSlots PROVE Same
    <3>1. Taken(p, packet[p]) = TakenBySMU(p, packet[p])
      BY <1>5, <2>2 DEF Exact, Taken
    <3> QED BY <1>2, <1>3, <3>1, SMUTakes
  <2>3. Fits(p, packet[p], packet[p])
    BY <1>5 DEF Fits, Exact
  <2> HIDE DEF Same
  <2>4. Same
    BY <2>1, <2>2
  <2> QED BY <1>1, <1>3, <1>4, <2>3, <2>4 DEF Same
<1>6. CASE p.slot \in EighthSlots
  <2>1. Taken(p, packet[p]) = InEighths(packet[p])
    BY <1>6, SlotsApart DEF Taken
  <2>2. ~Exact(p.slot)
    BY <1>6 DEF Exact
  <2>3. Fits(p, packet[p], InEighths(packet[p])) /\ InEighths(packet[p]) \in Int
    <3>1. /\ InEighths(packet[p]) \in Int /\ InEighths(packet[p]) <= packet[p]
          /\ packet[p] < InEighths(packet[p]) + 125
      BY <1>3, EighthsFit
    <3> QED BY <1>6, <3>1, SlotsApart DEF Fits
  <2> QED BY <1>1, <1>3, <1>4, <2>1, <2>2, <2>3
<1>7. CASE p.slot \in RequestSlots
  <2>1. Taken(p, packet[p]) = ActivityWindow(packet[p]) /\ p.slot \notin EighthSlots
    BY <1>7, SlotsApart DEF Taken
  <2>2. ~Exact(p.slot)
    BY <1>7 DEF Exact
  <2>3. packet[p] <= LongestWindow /\ 0 <= packet[p]
    <3>1. packet[p] \in 0 .. LongestWindow
      BY <1>1, <1>7, MachinesAssumption DEF Places
    <3>2. LongestWindow \in Int
      BY DEF LongestWindow
    <3> QED BY <3>1, <3>2
  <2>4. /\ ActivityWindow(packet[p]) \in Int
        /\ \/ ActivityWindow(packet[p]) = packet[p]
           \/ /\ ActivityWindow(packet[p]) <= packet[p]
              /\ 10 * (packet[p] - ActivityWindow(packet[p])) < packet[p]
    BY <1>3, <2>3, ActivityWindowFits
  <2>5. Fits(p, packet[p], ActivityWindow(packet[p]))
    BY <1>7, <2>4, SlotsApart DEF Fits
  <2> QED BY <1>1, <1>3, <1>4, <2>1, <2>2, <2>4, <2>5
<1>8. CASE p.slot \in WindowSlots
  <2>1. /\ Taken(p, packet[p]) = TimeWindow(machine, packet[p], held[p])
        /\ p.slot \notin EighthSlots \cup RequestSlots
    BY <1>8, SlotsApart DEF Taken
  <2>2. ~Exact(p.slot)
    BY <1>8 DEF Exact
  <2>3. CASE packet[p] \in DOMAIN machine.windows
    <3>1. /\ machine.windows[packet[p]] \in Int
          /\ machine.windows[packet[p]] <= packet[p]
          /\ packet[p] <= 2 * machine.windows[packet[p]] + 1
      BY <1>1, <2>3, MachinesAssumption
    <3>2. Taken(p, packet[p]) = machine.windows[packet[p]]
      BY <2>1, <2>3 DEF TimeWindow
    <3>3. Fits(p, packet[p], machine.windows[packet[p]])
      BY <1>8, <3>1, SlotsApart DEF Fits
    <3> QED BY <1>1, <1>3, <1>4, <2>2, <3>1, <3>2, <3>3
  <2>4. CASE packet[p] \notin DOMAIN machine.windows
    <3>1. Taken(p, packet[p]) = held[p]
      BY <2>1, <2>4 DEF TimeWindow
    <3>2. held[p] \in Int
      BY <1>1 DEF TypeOK
    <3>3. Inexpressible(p)
      BY <1>8, <2>4 DEF Inexpressible
    <3> QED BY <1>1, <1>3, <1>4, <2>2, <3>1, <3>2, <3>3
  <2> QED BY <2>3, <2>4
<1> QED BY <1>5, <1>6, <1>7, <1>8 DEF Exact

-------------------------------------------------------------------------------
\* What a write leaves behind.

IsSwitch(p) == p.slot \in {"cpuOnlineStatus", "smtState", "pstateStatus"}

LEMMA PlacesKnown ==
  ASSUME TypeOK
  PROVE  /\ Places = PlacesOn(machine)
         /\ packet \in [Places -> Int \cup {NoValue}]
         /\ \A p \in Places : Facts(p)
         /\ \A pkt \in machine.packets : pkt \in [Places -> Int \cup {NoValue}]
         /\ \A p \in Asked(packet) : p \in Places /\ packet[p] \in Int
<1>1. Places = PlacesOn(machine) /\ machine \in Machines /\ packet \in machine.packets
  BY MachinesAssumption DEF TypeOK, Places
<1>2. \A pkt \in machine.packets : pkt \in [Places -> Int \cup {NoValue}]
  BY <1>1, MachinesAssumption
<1>3. \A p \in Places : Facts(p)
  BY <1>1, PlaceFacts
<1>4. \A p \in Asked(packet) : p \in Places /\ packet[p] \in Int
  BY TakenFits
<1> QED BY <1>1, <1>2, <1>3, <1>4

\* Whatever the kernel does by itself, it holds values.
LEMMA AfterIsTyped ==
  ASSUME TypeOK, NEW p \in Asked(packet), NEW h \in After(p, packet[p])
  PROVE  h \in [Places -> Int]
<1> DEFINE g == [held EXCEPT ![TakenAt(p, packet[p])] = Taken(p, packet[p])]
           s == WithSiblings(g, p)
<1>1. g \in [Places -> Int] /\ p \in Places
  BY TakenFits DEF TypeOK
<1>2. s \in [Places -> Int]
  <2> HIDE DEF g
  <2> QED BY <1>1 DEF WithSiblings
<1> HIDE DEF s
<1>3. PICK lost \in SUBSET MayReset(s, p) : h = [q \in Places |-> IF q \in lost THEN 0 ELSE s[q]]
  BY DEF After, s
<1> QED BY <1>2, <1>3

\* A write that switches nothing changes its own place; beyond that it can
\* only lose the preference of the CPU whose governor it sets, the requests of
\* a CPU to whose driver it writes, and the clocks of a card it takes out of
\* the manual level.
LEMMA WriteIsLocal ==
  ASSUME TypeOK, NEW p \in Asked(packet), NEW h \in After(p, packet[p]), ~Switches(p, h)
  PROVE  /\ h[p] = Taken(p, packet[p])
         /\ \A q \in Places \ {p} :
              \/ h[q] = held[q]
              \/ q.slot = "epp" /\ p.slot = "scalingGovernor" /\ q.index = p.index
              \/ q.slot = "sclk" /\ p.slot = "dpmLevel" /\ q.index = p.index /\ packet[p] # Manual
              \/ IsDriver(p) /\ IsRequest(q) /\ q.index = p.index
         /\ \A q \in Places : q.slot \in {"cpuOnlineStatus", "pstateStatus"} => h[q] = held[q]
<1> DEFINE v == Taken(p, packet[p])
           g == [held EXCEPT ![TakenAt(p, packet[p])] = v]
           s == WithSiblings(g, p)
<1>0. /\ TakenAt(p, packet[p]) = p /\ v \in Int
      /\ IsSwitch(p) \/ p.slot = "dpmLevel" => v = packet[p]
  BY TakenFits DEF IsSwitch, Exact, EighthSlots, RequestSlots, WindowSlots
<1> HIDE DEF v
<1>1. /\ g \in [Places -> Int] /\ p \in Places /\ g[p] = v
      /\ held \in [Places -> Int]
      /\ \A q \in Places \ {p} : g[q] = held[q]
  BY <1>0, PlacesKnown DEF TypeOK
<1> HIDE DEF g
<1>2. s[p] = v
  BY <1>1 DEF WithSiblings
<1>3. PICK lost \in SUBSET MayReset(s, p) : h = [q \in Places |-> IF q \in lost THEN 0 ELSE s[q]]
  BY DEF After, s, g, v
<1>4. h[p] = v
  BY <1>1, <1>2, <1>3 DEF MayReset
<1>5. p.slot \in {"cpuOnlineStatus", "smtState", "pstateStatus"} => v = held[p]
  BY <1>4 DEF Switches
<1>6. s = g
  BY <1>1, <1>5 DEF WithSiblings
<1>7. \A q \in Places : q.slot = "cpuOnlineStatus" => s[q] = held[q]
  BY <1>1, <1>5, <1>6
<1>8. \A i : Online(i, s) <=> Online(i, held)
  BY <1>7 DEF Online, IsOn, At
<1>9. \A q \in MayReset(s, p) :
        \/ q.slot = "epp" /\ p.slot = "scalingGovernor" /\ q.index = p.index
        \/ q.slot = "sclk" /\ p.slot = "dpmLevel" /\ q.index = p.index /\ packet[p] # Manual
        \/ IsDriver(p) /\ IsRequest(q) /\ q.index = p.index
  BY <1>0, <1>2, <1>5, <1>8 DEF MayReset
<1>10. \A q \in Places \ {p} : q \notin lost => h[q] = held[q]
  BY <1>1, <1>3, <1>6
<1>11. \A q \in Places \ {p} :
              \/ h[q] = held[q]
              \/ q.slot = "epp" /\ p.slot = "scalingGovernor" /\ q.index = p.index
              \/ q.slot = "sclk" /\ p.slot = "dpmLevel" /\ q.index = p.index /\ packet[p] # Manual
              \/ IsDriver(p) /\ IsRequest(q) /\ q.index = p.index
  BY <1>9, <1>10
<1>12. \A q \in Places : q.slot \in {"cpuOnlineStatus", "pstateStatus"} => h[q] = held[q]
  BY <1>4, <1>5, <1>11 DEF IsRequest
<1> QED BY <1>4, <1>11, <1>12 DEF v

-------------------------------------------------------------------------------
\* Types.

TablePlaces == {p \in Places : p.slot \in machine.readable}

LEMMA InitTyped == Init => TypeOK
<1> SUFFICES ASSUME Init PROVE TypeOK
  OBVIOUS
<1>1. held \in [Places -> Int]
  BY DEF Init
<1>2. cache \in [CachedPlaces -> Int]
  BY DEF Init, BuildTableCache
<1>3. table \in [TablePlaces -> Int]
  BY DEF Init, TablePlaces
<1>4. machine \in Machines /\ attached \subseteq machine.devices /\ packet \in machine.packets
  BY DEF Init
<1>5. todo \subseteq Asked(packet) /\ errors \subseteq Errors /\ (~running => todo = {})
  <2>1. todo = {} /\ errors = {}
    BY DEF Init
  <2> QED BY <2>1
<1>6. /\ running \in BOOLEAN /\ switched \in BOOLEAN /\ disturbed \in BOOLEAN /\ calm \in 0 .. 2
      /\ skipped \subseteq Places
  <2>1. running = FALSE /\ switched = FALSE /\ disturbed = FALSE /\ calm = 0 /\ skipped = {}
    BY DEF Init
  <2>2. running \in BOOLEAN /\ switched \in BOOLEAN /\ disturbed \in BOOLEAN
    BY <2>1
  <2>3. calm \in 0 .. 2 /\ skipped \subseteq Places
    BY <2>1
  <2> QED BY <2>2, <2>3
<1>7. op \in Operations
  BY DEF Init, Operations
<1>8. shown \in {<<>>} \cup [Places -> Int \cup {NoValue}]
  <2>1. shown = <<>>
    BY DEF Init
  <2> QED BY <2>1
<1> QED BY <1>1, <1>2, <1>3, <1>4, <1>5, <1>6, <1>7, <1>8 DEF TypeOK, TablePlaces

\* The machine, and with it its places, stays what it is.
LEMMA SamePlaces ==
  ASSUME machine' = machine
  PROVE  /\ Places' = Places
         /\ CachedPlaces' = CachedPlaces /\ TablePlaces' = TablePlaces
         /\ Errors' = Errors
         /\ \A pkt : Asked(pkt)' = Asked(pkt)
<1>1. Places' = Places
  BY DEF Places
<1>2. \A pkt : Asked(pkt)' = Asked(pkt)
  BY <1>1 DEF Asked, IsAsked, At
<1>3. CachedPlaces' = CachedPlaces
  BY <1>1 DEF CachedPlaces, IsCached
<1>4. TablePlaces' = TablePlaces
  BY <1>1 DEF TablePlaces
<1>5. {p.error : p \in Places}' = {p.error : p \in Places}
  BY <1>1
<1>6. Errors' = Errors
  BY <1>5 DEF Errors
<1> QED BY <1>1, <1>2, <1>3, <1>4, <1>6

LEMMA CacheTyped ==
  ASSUME TypeOK, NEW p, NEW v \in Int
  PROVE  CacheAfter(cache, p, v) \in [CachedPlaces -> Int]
BY DEF TypeOK, CacheAfter

LEMMA ShownTyped ==
  ASSUME TypeOK, NEW p \in Places, NEW tab \in [TablePlaces -> Int], NEW short
  PROVE  Shown(p, tab, short) \in Int \cup {NoValue}
<1>1. OptionShown(p, tab, cache, short, NoValue) \in Int \cup {NoValue}
  BY DEF TypeOK, OptionShown, AsReported
<1>2. held[p] \in Int
  BY DEF TypeOK
<1> QED BY <1>1, <1>2 DEF Shown

LEMMA ShownToTyped ==
  ASSUME TypeOK, NEW tab \in [TablePlaces -> Int], NEW short, NEW unread
  PROVE  ShownTo(tab, short, unread) \in [Places -> Int \cup {NoValue}]
<1>1. \A p \in Places : Shown(p, tab, short) \in Int \cup {NoValue}
  BY ShownTyped
<1> QED BY <1>1 DEF ShownTo

LEMMA TypeStep == TypeOK /\ [Next]_vars => TypeOK'
<1> SUFFICES ASSUME TypeOK, [Next]_vars PROVE TypeOK'
  OBVIOUS
<1>0. machine' = machine
  BY DEF Next, vars, ApplySettings, Written, Refused, PassedOver, NotOpened, Return,
         FillPacketDeviceData, GetTemperature, Others, Plug
<1>a. /\ Places' = Places
      /\ CachedPlaces' = CachedPlaces /\ TablePlaces' = TablePlaces
      /\ Errors' = Errors
      /\ \A pkt : Asked(pkt)' = Asked(pkt)
  BY <1>0, SamePlaces
<1> DEFINE PlainTypes ==
             /\ machine \in Machines
             /\ attached \subseteq machine.devices
             /\ held \in [Places -> Int]
             /\ cache \in [CachedPlaces -> Int]
             /\ table \in [TablePlaces -> Int]
             /\ packet \in machine.packets
             /\ op \in Operations
             /\ running \in BOOLEAN
             /\ shown \in {<<>>} \cup [Places -> Int \cup {NoValue}]
             /\ switched \in BOOLEAN
             /\ disturbed \in BOOLEAN
             /\ skipped \subseteq Places
             /\ calm \in 0 .. 2
           RunTypes ==
             /\ todo \subseteq Asked(packet)
             /\ ~running => todo = {}
             /\ errors \subseteq Errors
<1>b. PlainTypes /\ RunTypes
  BY DEF TypeOK, TablePlaces
<1>c. \A p \in todo : /\ p \in Asked(packet) /\ p \in Places /\ packet[p] \in Int
                      /\ p.error \in Errors
  BY <1>b, PlacesKnown DEF Errors
<1> SUFFICES PlainTypes' /\ RunTypes'
  BY DEF TypeOK, TablePlaces
<1>1. ASSUME NEW pkt \in machine.packets, ApplySettings(pkt) PROVE PlainTypes' /\ RunTypes'
  <2>1. PlainTypes'
    <3>1. calm' \in 0 .. 2
      BY <1>1, <1>b DEF ApplySettings
    <3>2. packet' = pkt /\ op' = "apply" /\ running' = TRUE /\ shown' = <<>> /\ switched' = FALSE
          /\ disturbed' = FALSE /\ skipped' = {}
      BY <1>1 DEF ApplySettings
    <3>3. UNCHANGED <<machine, attached, held, cache, table>>
      BY <1>1 DEF ApplySettings
    <3> QED BY <3>1, <3>2, <3>3, <1>a, <1>b DEF Operations
  <2>2. todo' \subseteq Asked(pkt) /\ packet' = pkt /\ running'
    BY <1>1 DEF ApplySettings
  <2>3. errors' \subseteq Errors
    <3>1. PICK r \in Refusals : errors' = r.cpu \cup r.os \cup r.osAmd
      BY <1>1 DEF ApplySettings
    <3>2. r.cpu \in CPURefusals(machine) /\ r.os \in {{}, ThreadsRefused}
          /\ r.osAmd \in {{}, ThreadsRefused}
      BY DEF Refusals
    <3>3. r.cpu \subseteq {"CORE_DATA_MISMATCH", "THREAD_DATA_MISMATCH", "CORE_IDX_MISMATCH"}
      BY <3>2 DEF CPURefusals
    <3> QED BY <3>1, <3>2, <3>3 DEF ThreadsRefused, Errors
  <2> QED BY <2>1, <2>2, <2>3, <1>a
<1>2. ASSUME NEW p \in todo, Written(p) PROVE PlainTypes' /\ RunTypes'
  <2>1. held' \in [Places -> Int]
    BY <1>2, <1>c, AfterIsTyped DEF Written
  <2>2. cache' \in [CachedPlaces -> Int]
    BY <1>2, <1>c, CacheTyped DEF Written
  <2>3. Switches(p, held') \in BOOLEAN
    BY DEF Switches
  <2>4. running' = running /\ running
    BY <1>2, <1>b DEF Written
  <2>5. PlainTypes'
    BY <2>1, <2>2, <2>3, <1>2, <1>a, <1>b DEF Written
  <2> QED BY <2>4, <2>5, <1>2, <1>a, <1>b DEF Written
<1>3. ASSUME NEW p \in todo, Refused(p) PROVE PlainTypes' /\ RunTypes'
  <2>1. held' \in [Places -> Int]
    BY <1>3, <1>b, <1>c, AfterIsTyped DEF Refused
  <2>2. cache' \in [CachedPlaces -> Int]
    BY <1>3, <1>c, CacheTyped DEF Refused
  <2>3. Switches(p, held') \in BOOLEAN
    BY DEF Switches
  <2>4. running' = running /\ running
    BY <1>3, <1>b DEF Refused
  <2>5. PlainTypes'
    BY <2>1, <2>2, <2>3, <1>3, <1>a, <1>b DEF Refused
  <2>6. todo' \subseteq todo /\ errors' = errors \cup {p.error} /\ packet' = packet
    BY <1>3 DEF Refused
  <2> QED BY <2>4, <2>5, <2>6, <1>a, <1>b, <1>c
<1>4. ASSUME NEW p \in todo, PassedOver(p) PROVE PlainTypes' /\ RunTypes'
  <2>1. running' = running /\ running
    BY <1>4, <1>b DEF PassedOver
  <2>2. PlainTypes'
    BY <1>4, <1>a, <1>b DEF PassedOver, history
  <2> QED BY <2>1, <2>2, <1>4, <1>a, <1>b DEF PassedOver
<1>5. ASSUME NEW p \in todo, NotOpened(p) PROVE PlainTypes' /\ RunTypes'
  <2>1. running' = running /\ running
    BY <1>5, <1>b DEF NotOpened
  <2>2. skipped' \subseteq Places
    BY <1>5, <1>b DEF NotOpened, Bracket
  <2>3. PlainTypes'
    BY <2>2, <1>5, <1>a, <1>b DEF NotOpened
  <2>4. todo' \subseteq todo /\ errors' \subseteq Errors /\ packet' = packet
    BY <1>5, <1>b DEF NotOpened, Errors
  <2> QED BY <2>1, <2>3, <2>4, <1>a, <1>b
<1>6. CASE Return
  <2>1. calm' \in 0 .. 2
    <3>1. calm \in Int /\ 0 <= calm /\ calm <= 2
      BY <1>b
    <3>2. calm' \in {0, calm, calm + 1} /\ (calm' = calm + 1 => calm < 2 \/ calm' \in {0, calm})
      BY <1>6 DEF Return
    <3> QED BY <3>1, <3>2
  <2>2. running' = FALSE /\ todo' = todo /\ todo = {} /\ errors' = errors /\ packet' = packet
    BY <1>6 DEF Return
  <2>3. UNCHANGED <<machine, attached, held, cache, table, op, shown, switched, disturbed,
                  skipped>>
    BY <1>6 DEF Return
  <2> QED BY <2>1, <2>2, <2>3, <1>a, <1>b
<1>7. CASE FillPacketDeviceData
  <2>1. ReadTable(held) \in [TablePlaces -> Int]
    BY <1>b DEF ReadTable, TablePlaces
  <2>2. \A tab \in [TablePlaces -> Int] : \A short, unread :
            ShownTo(tab, short, unread) \in [Places -> Int \cup {NoValue}]
    BY ShownToTyped
  <2>3. table' \in [TablePlaces -> Int]
    BY <1>7, <2>1, <1>b DEF FillPacketDeviceData
  <2>4. \E short, unread : shown' = ShownTo(table', short, unread)
    BY <1>7 DEF FillPacketDeviceData
  <2>5. shown' \in [Places -> Int \cup {NoValue}]
    BY <2>2, <2>3, <2>4
  <2>6. errors' \subseteq Errors
    BY <1>7 DEF FillPacketDeviceData, Errors
  <2>7. PlainTypes'
    BY <2>3, <2>5, <1>7, <1>a, <1>b DEF FillPacketDeviceData, Operations, history
  <2> QED BY <2>6, <2>7, <1>7, <1>a, <1>b DEF FillPacketDeviceData
<1>8. CASE GetTemperature
  <2>1. ReadTable(held) \in [TablePlaces -> Int]
    BY <1>b DEF ReadTable, TablePlaces
  <2> QED BY <2>1, <1>8, <1>a, <1>b DEF GetTemperature, Operations, history
<1>9. ASSUME NEW p \in Places, Others(p) PROVE PlainTypes' /\ RunTypes'
  <2>1. held' \in [Places -> Int]
    BY <1>9, <1>b DEF Others
  <2> QED BY <2>1, <1>9, <1>a, <1>b DEF Others, Disturb
<1>10. ASSUME NEW d \in machine.devices, Plug(d) PROVE PlainTypes' /\ RunTypes'
  BY <1>10, <1>a, <1>b DEF Plug, Disturb
<1>11. CASE UNCHANGED vars
  BY <1>11, <1>a, <1>b DEF vars
<1> QED BY <1>1, <1>2, <1>3, <1>4, <1>5, <1>6, <1>7, <1>8, <1>9, <1>10, <1>11 DEF Next

\* Types of DeviceSettings for any machines, packets and values.
THEOREM TypeCorrect == Spec => []TypeOK
BY InitTyped, TypeStep, PTL DEF Spec

-------------------------------------------------------------------------------
\* What an apply leaves behind is what was asked, or reported.

\* What is there to be written to depends on switches and on devices alone.
LEMMA PresentKept ==
  ASSUME machine' = machine, attached' = attached,
         \A q \in Places : q.slot \in {"cpuOnlineStatus", "pstateStatus"} => held'[q] = held[q]
  PROVE  \A p : Present(p)' <=> Present(p)
<1>1. Places' = Places
  BY DEF Places
<1>2. \A i : /\ At("cpuOnlineStatus", i)' = At("cpuOnlineStatus", i)
             /\ At("pstateStatus", i)' = At("pstateStatus", i)
  BY <1>1 DEF At
<1>3. \A i : Online(i, held)' <=> Online(i, held)
  <2> SUFFICES ASSUME NEW i PROVE Online(i, held)' <=> Online(i, held)
    OBVIOUS
  <2>1. \A q \in At("cpuOnlineStatus", i) : held'[q] = held[q]
    BY DEF At
  <2> QED BY <1>2, <2>1 DEF Online, IsOn
<1>4. IsOn("pstateStatus", 0, held)' <=> IsOn("pstateStatus", 0, held)
  <2>1. \A q \in At("pstateStatus", 0) : held'[q] = held[q]
    BY DEF At
  <2> QED BY <1>2, <2>1 DEF IsOn
<1> QED BY <1>3, <1>4 DEF Present, IsCPUFreq, IsDevice

LEMMA ReportedStays ==
  ASSUME errors \subseteq errors'
  PROVE  \A p : Reported(p) => Reported(p)'
BY DEF Reported, Mismatches, Part, ThreadsRefused

\* Who has the last word on a request is up to the packet.
LEMMA ContestedKept ==
  ASSUME machine' = machine, packet' = packet
  PROVE  \A p : Contested(p)' <=> Contested(p)
<1>1. Asked(packet)' = Asked(packet)
  BY SamePlaces
<1> QED BY <1>1 DEF Contested

\* A setting that is left alone stays settled.
LEMMA SettledStays ==
  ASSUME machine' = machine, packet' = packet, NEW p, held'[p] = held[p], Settled(p)
  PROVE  Settled(p)'
<1>1. Contested(p)' <=> Contested(p)
  BY ContestedKept
<1> QED BY <1>1 DEF Settled, IsOneWay, Inexpressible, Fits

\* A write disturbs nothing that was settled, as long as it switches nothing.
LEMMA WriteKeepsSettled ==
  ASSUME TypeOK, GovernorFirst, WrittenIsSettled, op = "apply", ~switched, ~disturbed,
         NEW p \in todo,
         held' = held \/ (held' \in After(p, packet[p]) /\ ~Switches(p, held')),
         machine' = machine, attached' = attached, packet' = packet, errors \subseteq errors'
  PROVE  /\ \A q \in Asked(packet) \ todo :
              Present(q)' => Settled(q)' \/ Reported(q)' \/ q \in skipped
         /\ \A q : Present(q)' <=> Present(q)
<1>1. p \in Asked(packet) /\ Asked(packet) \subseteq Places
  BY DEF TypeOK, Asked
<1>2. \A q \in Places : q.slot \in {"cpuOnlineStatus", "pstateStatus"} => held'[q] = held[q]
  <2>1. CASE held' = held
    BY <2>1
  <2>2. CASE held' \in After(p, packet[p]) /\ ~Switches(p, held')
    BY <2>2, <1>1, WriteIsLocal
  <2> QED BY <2>1, <2>2
<1>3. \A q : Present(q)' <=> Present(q)
  BY <1>2, PresentKept
<1>4. SUFFICES ASSUME NEW q \in Asked(packet) \ todo, Present(q)
               PROVE  Settled(q)' \/ Reported(q)' \/ q \in skipped
  BY <1>3
<1>5. Settled(q) \/ Reported(q) \/ q \in skipped
  BY <1>4 DEF WrittenIsSettled
<1>6. Reported(q) => Reported(q)'
  BY ReportedStays
<1>7. CASE held'[q] = held[q]
  BY <1>5, <1>6, <1>7, SettledStays
<1>8. CASE held'[q] # held[q]
  <2>1. \/ q.slot = "epp" /\ p.slot = "scalingGovernor" /\ q.index = p.index
        \/ q.slot = "sclk" /\ p.slot = "dpmLevel" /\ q.index = p.index /\ packet[p] # Manual
        \/ IsDriver(p) /\ IsRequest(q) /\ q.index = p.index
    BY <1>1, <1>4, <1>8, WriteIsLocal
  <2>2. CASE q.slot = "epp" /\ p.slot = "scalingGovernor" /\ q.index = p.index
    BY <2>2, <1>1, <1>4, <1>6 DEF GovernorFirst
  <2>3. CASE q.slot = "sclk" /\ p.slot = "dpmLevel" /\ q.index = p.index /\ packet[p] # Manual
    <3>1. p \in At("dpmLevel", q.index)
      BY <2>3, <1>1 DEF At
    <3> QED BY <3>1, <2>3, <1>4 DEF Asked, IsAsked
  <2>4. CASE IsDriver(p) /\ IsRequest(q) /\ q.index = p.index
    <3>1. Contested(q)
      BY <2>4, <1>1 DEF Contested
    <3> QED BY <3>1, ContestedKept DEF Settled
  <2> QED BY <2>1, <2>2, <2>3, <2>4
<1> QED BY <1>7, <1>8

\* The governor of a CPU is never to come after its preference.
LEMMA GovernorFirstStep ==
  ASSUME TypeOK, op = "apply" => GovernorFirst, [Next]_vars
  PROVE  op' = "apply" => GovernorFirst'
<1>0. machine' = machine
  BY DEF Next, vars, ApplySettings, Written, Refused, PassedOver, NotOpened, Return,
         FillPacketDeviceData, GetTemperature, Others, Plug
<1>a. \A pkt : Asked(pkt)' = Asked(pkt)
  BY <1>0, SamePlaces
<1>b. \A p \in Asked(packet) : Facts(p)
  BY PlacesKnown
<1> DEFINE Pair(g, e) == g.slot = "scalingGovernor" /\ e.slot = "epp" /\ e.index = g.index
<1>c. ASSUME packet' = packet, op' = op, errors \subseteq errors', todo' \subseteq todo,
             \A g, e \in Asked(packet) : g \in todo' /\ Pair(g, e) /\ e \in todo => e \in todo'
      PROVE  op' = "apply" => GovernorFirst'
  BY <1>a, <1>c, ReportedStays DEF GovernorFirst
<1>1. ASSUME NEW pkt \in machine.packets, ApplySettings(pkt) PROVE GovernorFirst'
  <2>1. PICK r \in Refusals : /\ todo' = {p \in Asked(pkt) : r[Part(p)] = {}}
                              /\ errors' = r.cpu \cup r.os \cup r.osAmd
    BY <1>1 DEF ApplySettings
  <2>2. r.osAmd \in {{}, ThreadsRefused}
    BY DEF Refusals
  <2>3. ASSUME NEW e \in Asked(pkt), e.slot = "epp", e \notin todo' PROVE Reported(e)'
    <3>1. e \in Places /\ e.stage = 12
      BY <2>3, <1>1, PlacesKnown DEF Asked, Facts
    <3>2. Part(e) = "osAmd"
      BY <3>1 DEF Part
    <3>3. r.osAmd = ThreadsRefused
      BY <2>1, <2>2, <2>3, <3>2
    <3> QED BY <2>1, <3>2, <3>3 DEF Reported, Mismatches, ThreadsRefused
  <2>4. packet' = pkt
    BY <1>1 DEF ApplySettings
  <2> QED BY <2>3, <2>4, <1>a DEF GovernorFirst
<1>2. ASSUME NEW p \in todo, NEW gone, IsNext(p), todo' = todo \ gone,
             \A e \in gone : e = p \/ e.slot # "epp"
      PROVE  \A g, e \in Asked(packet) : g \in todo' /\ Pair(g, e) /\ e \in todo => e \in todo'
  <2> SUFFICES ASSUME NEW g \in Asked(packet), NEW e \in Asked(packet),
                      g \in todo', Pair(g, e), e \in todo, e \notin todo'
               PROVE  FALSE
    OBVIOUS
  <2>1. e = p
    BY <1>2
  <2>2. Before(p, g)
    BY <1>2, <2>1 DEF IsNext
  <2>3. p.stage = 12 /\ g.stage = 10
    BY <1>b, <2>1 DEF Facts
  <2> QED BY <2>2, <2>3 DEF Before
<1>3. ASSUME NEW p \in todo, Written(p) PROVE op' = "apply" => GovernorFirst'
  <2>1. IsNext(p) /\ todo' = todo \ {p} /\ UNCHANGED <<packet, op, errors>>
    BY <1>3 DEF Written
  <2> QED BY <2>1, <1>2, <1>c
<1>4. ASSUME NEW p \in todo, Refused(p) PROVE op' = "apply" => GovernorFirst'
  <2> DEFINE gone == {p} \cup {q \in todo : /\ q.index = p.index
                                          /\ q.slot \in GivenUpWith(p) \cup WrittenWith(p)}
  <2>1. IsNext(p) /\ todo' = todo \ gone /\ UNCHANGED <<packet, op>> /\ errors \subseteq errors'
    BY <1>4 DEF Refused
  <2>2. \A e \in gone : e = p \/ e.slot # "epp"
    BY DEF GivenUpWith, WrittenWith
  <2> HIDE DEF gone
  <2> QED BY <2>1, <2>2, <1>2, <1>c
<1>5. ASSUME NEW p \in todo, PassedOver(p) PROVE op' = "apply" => GovernorFirst'
  <2>1. IsNext(p) /\ todo' = todo \ {p} /\ UNCHANGED <<packet, op, errors>>
    BY <1>5 DEF PassedOver
  <2> QED BY <2>1, <1>2, <1>c
<1>6. ASSUME NEW p \in todo, NotOpened(p) PROVE op' = "apply" => GovernorFirst'
  <2>1. IsNext(p) /\ todo' = todo \ Bracket(p) /\ UNCHANGED <<packet, op>> /\ errors \subseteq errors'
    BY <1>6 DEF NotOpened
  <2>2. \A e \in Bracket(p) : e.slot # "epp"
    BY <1>6, PlacesKnown DEF Bracket, NotOpened, IsRegister, Facts
  <2> QED BY <2>1, <2>2, <1>2, <1>c
<1>7. CASE Return \/ (\E p \in Places : Others(p)) \/ (\E d \in machine.devices : Plug(d))
             \/ UNCHANGED vars
  <2>1. UNCHANGED <<packet, op, errors, todo>>
    BY <1>7 DEF Return, Others, Plug, vars
  <2> QED BY <2>1, <1>c
<1>8. CASE FillPacketDeviceData \/ GetTemperature
  <2>1. op' # "apply"
    BY <1>8 DEF FillPacketDeviceData, GetTemperature
  <2> QED BY <2>1
<1> QED BY <1>1, <1>3, <1>4, <1>5, <1>6, <1>7, <1>8 DEF Next

\* What became of a place that an apply is through with.
Sound(p) == Settled(p) \/ Reported(p) \/ p \in skipped

\* Each step leaves settled or reported what it takes off the list.
LEMMA WrittenIsSettledStep ==
  ASSUME TypeOK, op = "apply" => GovernorFirst, WrittenIsSettled, [Next]_vars
  PROVE  WrittenIsSettled'
<1>0. machine' = machine
  BY DEF Next, vars, ApplySettings, Written, Refused, PassedOver, NotOpened, Return,
         FillPacketDeviceData, GetTemperature, Others, Plug
<1>a. \A pkt : Asked(pkt)' = Asked(pkt)
  BY <1>0, SamePlaces
<1>b. \A p \in Asked(packet) : Facts(p) /\ p \in Places
  BY PlacesKnown
<1>c. todo \subseteq Asked(packet)
  BY DEF TypeOK
<1>d. SUFFICES ASSUME op' = "apply", ~switched', ~disturbed'
               PROVE  \A q \in Asked(packet') \ todo' : Present(q)' => Sound(q)'
  BY <1>a DEF WrittenIsSettled, Sound
<1>1. ASSUME NEW pkt \in machine.packets, ApplySettings(pkt)
      PROVE  \A q \in Asked(packet') \ todo' : Reported(q)'
  <2>1. PICK r \in Refusals : /\ todo' = {p \in Asked(pkt) : r[Part(p)] = {}}
                              /\ errors' = r.cpu \cup r.os \cup r.osAmd
    BY <1>1 DEF ApplySettings
  <2>2. packet' = pkt
    BY <1>1 DEF ApplySettings
  <2>3. /\ r.cpu \subseteq {"CORE_DATA_MISMATCH", "THREAD_DATA_MISMATCH", "CORE_IDX_MISMATCH"}
        /\ r.os \subseteq ThreadsRefused /\ r.osAmd \subseteq ThreadsRefused
    BY DEF Refusals, CPURefusals, ThreadsRefused
  <2> SUFFICES ASSUME NEW q \in Asked(pkt), r[Part(q)] # {} PROVE Reported(q)'
    BY <2>1, <2>2
  <2>4. r[Part(q)] \subseteq Mismatches(q)
    BY <2>3 DEF Part, Mismatches, ThreadsRefused
  <2>5. r[Part(q)] \subseteq errors'
    BY <2>1 DEF Part
  <2> QED BY <2>4, <2>5 DEF Reported
<1>1a. ASSUME NEW pkt \in machine.packets, ApplySettings(pkt)
       PROVE  \A q \in Asked(packet') \ todo' : Sound(q)'
  BY <1>1, <1>1a DEF Sound
\* The steps of a running apply.
<1> DEFINE Old == op = "apply" /\ ~switched /\ ~disturbed
<1>2. ASSUME NEW p \in todo, Old,
             held' = held \/ (held' \in After(p, packet[p]) /\ ~Switches(p, held')),
             UNCHANGED <<attached, packet>>, errors \subseteq errors', skipped \subseteq skipped',
             \A q \in todo \ todo' : Present(q) => Sound(q)'
      PROVE  \A q \in Asked(packet') \ todo' : Present(q)' => Sound(q)'
  <2>1. /\ \A q \in Asked(packet) \ todo :
             Present(q)' => Settled(q)' \/ Reported(q)' \/ q \in skipped
        /\ \A q : Present(q)' <=> Present(q)
    BY <1>0, <1>2, WriteKeepsSettled
  <2>2. \A q \in Asked(packet) \ todo : Present(q)' => Sound(q)'
    BY <1>2, <2>1 DEF Sound
  <2> QED BY <2>1, <2>2, <1>2
<1>3. ASSUME NEW p \in todo, Written(p)
      PROVE  \A q \in Asked(packet') \ todo' : Present(q)' => Sound(q)'
  <2>1. /\ held' \in After(p, packet[p]) /\ switched' = (switched \/ Switches(p, held'))
        /\ todo' = todo \ {p} /\ UNCHANGED <<attached, packet, op, errors, disturbed, skipped>>
    BY <1>3 DEF Written
  <2>2. Old /\ ~Switches(p, held')
    BY <1>d, <2>1
  <2>3. held'[p] = Taken(p, packet[p])
    BY <1>c, <2>1, <2>2, WriteIsLocal
  <2>4. Fits(p, packet[p], held'[p]) \/ Inexpressible(p)
    BY <1>c, <2>3, TakenFits
  <2>5. Settled(p)'
    BY <1>0, <2>1, <2>4 DEF Settled, Fits, Inexpressible
  <2>6. Sound(p)'
    BY <2>5 DEF Sound
  <2> QED BY <1>2, <2>1, <2>2, <2>6
<1>4. ASSUME NEW p \in todo, Refused(p)
      PROVE  \A q \in Asked(packet') \ todo' : Present(q)' => Sound(q)'
  <2>1. /\ held' = held \/ held' \in After(p, packet[p])
        /\ switched' = (switched \/ Switches(p, held')) /\ errors' = errors \cup {p.error}
        /\ todo' = {q \in todo \ {p} :
                      ~(q.index = p.index /\ q.slot \in GivenUpWith(p) \cup WrittenWith(p))}
        /\ UNCHANGED <<attached, packet, op, disturbed, skipped>>
    BY <1>4 DEF Refused
  <2>2. Old /\ ~Switches(p, held')
    BY <1>d, <2>1
  <2>3. ASSUME NEW q \in todo \ todo' PROVE Reported(q)'
    <3>1. q = p \/ q.slot \in GivenUpWith(p) \cup WrittenWith(p)
      BY <2>1
    <3>2. Facts(p) /\ Facts(q)
      BY <1>b, <1>c
    <3>3. q.error = p.error
      <4>1. q = p \/ q.slot \in GivenUpWith(p) => q.error = p.error
        BY <3>2 DEF GivenUpWith, Facts
      <4>2. q.slot \in WrittenWith(p) => q.error = p.error
        BY <3>2 DEF WrittenWith, Facts
      <4> QED BY <3>1, <4>1, <4>2
    <3> QED BY <2>1, <3>3 DEF Reported
  <2>4. \A q \in todo \ todo' : Sound(q)'
    BY <2>3 DEF Sound
  <2> QED BY <1>2, <2>1, <2>2, <2>4
<1>5. ASSUME NEW p \in todo, PassedOver(p)
      PROVE  \A q \in Asked(packet') \ todo' : Present(q)' => Sound(q)'
  <2>1. /\ IsLeftOn(p) \/ ~Present(p)
        /\ todo' = todo \ {p}
        /\ UNCHANGED <<attached, held, packet, op, errors, switched, disturbed, skipped>>
    BY <1>5 DEF PassedOver, history
  <2>2. Present(p) => Sound(p)'
    BY <2>1 DEF Sound, Settled, IsLeftOn
  <2> QED BY <1>2, <1>d, <2>1, <2>2
<1>6. ASSUME NEW p \in todo, NotOpened(p)
      PROVE  \A q \in Asked(packet') \ todo' : Present(q)' => Sound(q)'
  <2>1. /\ todo' = todo \ Bracket(p)
        /\ errors' = IF p.stage = 1 THEN errors \cup {"NO_MSR_FD"} ELSE errors
        /\ skipped' = IF p.stage = 1 THEN skipped ELSE skipped \cup Bracket(p)
        /\ UNCHANGED <<attached, held, packet, op, switched, disturbed>>
    BY <1>6 DEF NotOpened
  <2>2. Old /\ errors \subseteq errors' /\ skipped \subseteq skipped'
    BY <1>d, <2>1
  <2>3. ASSUME NEW q \in todo \ todo' PROVE Sound(q)'
    <3>1. q \in Bracket(p) /\ q.stage = p.stage
      BY <2>1, <2>3 DEF Bracket
    <3>2. CASE p.stage = 1
      BY <2>1, <3>1, <3>2 DEF Sound, Reported
    <3>3. CASE p.stage # 1
      BY <2>1, <3>1, <3>3 DEF Sound
    <3> QED BY <3>2, <3>3
  <2> QED BY <1>2, <2>1, <2>2, <2>3
<1>7. CASE Return \/ UNCHANGED vars
  <2>1. UNCHANGED <<machine, attached, held, packet, todo, op, errors, switched, disturbed, skipped>>
    BY <1>7 DEF Return, vars
  <2>2. \A q : Present(q)' <=> Present(q)
    BY <2>1, PresentKept
  <2>3. \A q : (Settled(q) => Settled(q)') /\ (Reported(q) => Reported(q)')
    BY <2>1, ReportedStays, SettledStays
  <2> QED BY <1>d, <2>1, <2>2, <2>3 DEF WrittenIsSettled, Sound
<1>8. CASE FillPacketDeviceData \/ GetTemperature
  <2>1. op' # "apply"
    BY <1>8 DEF FillPacketDeviceData, GetTemperature
  <2> QED BY <1>d, <2>1
<1>9. CASE (\E p \in Places : Others(p)) \/ (\E d \in machine.devices : Plug(d))
  <2>1. disturbed'
    BY <1>9 DEF Others, Plug, Disturb
  <2> QED BY <1>d, <2>1
<1> QED BY <1>1a, <1>3, <1>4, <1>5, <1>6, <1>7, <1>8, <1>9 DEF Next

\* The inductive invariant: beside types, what a running apply has behind it.
THEOREM Invariant == Spec => []IInv
<1>1. Init => IInv
  <2> SUFFICES ASSUME Init PROVE IInv
    OBVIOUS
  <2>1. op = "none"
    BY DEF Init
  <2> QED BY <2>1, InitTyped DEF IInv, WrittenIsSettled
<1>2. IInv /\ [Next]_vars => IInv'
  BY TypeStep, GovernorFirstStep, WrittenIsSettledStep DEF IInv
<1> QED BY <1>1, <1>2, PTL DEF Spec

\* When an apply that switched nothing and that nobody disturbed returns,
\* every place that is there holds what the packet asks for, to its precision,
\* or its error is among those returned (Device::applySettings), whatever the
\* machine; but for registers of CPUs that did not open, requests the packet
\* contests itself, and times that cannot be expressed.
THEOREM HeldOrReportedAlways == Spec => []HeldOrReported
<1>1. IInv => HeldOrReported
  <2> SUFFICES ASSUME IInv, ~running, op = "apply", ~switched, ~disturbed
               PROVE  \A p \in Asked(packet) :
                         Present(p) => Settled(p) \/ Reported(p) \/ p \in skipped
    BY DEF HeldOrReported
  <2>1. todo = {}
    BY DEF IInv, TypeOK
  <2> QED BY <2>1 DEF IInv, WrittenIsSettled
<1> QED BY <1>1, Invariant, PTL
-------------------------------------------------------------------------------
\* What an apply leaves behind for the next one.

\* Switches are as asked, and what cannot be read is remembered as asked.
Kept(p) ==
    /\ IsSwitch(p) => held[p] = packet[p]
    /\ p \in CachedPlaces => cache[p] = packet[p]

ApplyRuns == running => op = "apply"

\* Without errors, places are worked off in their order.
InOrder ==
    running /\ errors = {} => \A p \in Asked(packet) \ todo, q \in todo : Before(p, q)

DoneIsKept ==
    running /\ errors = {} /\ ~disturbed => \A p \in Asked(packet) \ todo : Kept(p)

CalmIsKept == calm >= 1 => \A p \in Asked(packet) : Kept(p)

\* An apply that repeats a calm one finds all switches as it wants them.
CalmSwitchesNothing == (running /\ calm >= 1) \/ calm = 2 => ~switched

CalmIsSettled ==
    ~running /\ calm >= 1 /\ ~switched =>
        \A p \in Asked(packet) : Present(p) => Settled(p) \/ p \in skipped

RInv == /\ IInv
        /\ ApplyRuns /\ InOrder /\ DoneIsKept /\ CalmIsKept /\ CalmSwitchesNothing
        /\ CalmIsSettled

\* The slots of the SMU, spelled out.
SMUNames ==
    {"apuSlow", "stapmLimit", "slowLimit", "fastLimit", "tctlTemp", "apuSkinTemp", "dgpuSkinTemp",
     "vrmCurrent", "vrmSocCurrent", "vrmMaxCurrent", "vrmSocMaxCurrent", "powerProfile",
     "curveOptimizer", "coreCurveOptimizer"}

LEMMA SMUNamed == RySlots \subseteq SMUNames
BY DEF RySlots, SlotsOf, RyPackageRows, RyCoreRows, Option, Row, SMUNames

\* Where the slots of cached options are, and which features gate them.
OtherRow(r) == r.slot \notin SMUNames /\ (r.slot \in UndervoltSlots => r.stage = 1)

SMURow(r) ==
    /\ r.slot \notin UndervoltSlots /\ r.stage \in {4, 5}
    /\ r.feature \notin {"AMD_HWPSTATE", "AMD_CORE_PERFORMANCE_BOOST", "AMD_CPPC"}

LEMMA CachedRows ==
  /\ \A r \in AMDPackageRows : OtherRow(r)
  /\ \A r \in AMDThreadRows : OtherRow(r)
  /\ \A r \in RyPackageRows : SMURow(r)
  /\ \A r \in RyCoreRows : SMURow(r)
  /\ \A r \in IntelPackageRows : OtherRow(r)
  /\ \A r \in IntelCoreRows : OtherRow(r)
  /\ \A r \in IntelThreadRows : OtherRow(r)
  /\ \A r \in MCHBARRows : OtherRow(r)
  /\ \A r \in BlockRows \cup MiscPMRows : OtherRow(r)
  /\ \A r \in OSPackageRows : OtherRow(r)
  /\ \A r \in IntelGPURows : OtherRow(r)
  /\ \A r \in AMDGPURows : OtherRow(r)
  /\ \A r \in OSThreadRows : OtherRow(r)
  /\ \A r \in OSAMDPackageRows : OtherRow(r)
  /\ \A r \in OSAMDThreadRows : OtherRow(r)
<1> USE DEF OtherRow, SMURow, SMUNames, UndervoltSlots, Row
<1>1. \A r \in AMDPackageRows : OtherRow(r) BY DEF AMDPackageRows
<1>2. \A r \in AMDThreadRows : OtherRow(r) BY DEF AMDThreadRows
<1>3. \A r \in RyPackageRows : SMURow(r) BY DEF RyPackageRows, Option
<1>4. \A r \in RyCoreRows : SMURow(r) BY DEF RyCoreRows
<1>5. \A r \in BlockRows \cup MiscPMRows : OtherRow(r) BY DEF BlockRows, MiscPMRows
<1>6. \A r \in OSPackageRows : OtherRow(r) BY DEF OSPackageRows
<1>7. \A r \in IntelGPURows : OtherRow(r) BY DEF IntelGPURows
<1>8. \A r \in AMDGPURows : OtherRow(r) BY DEF AMDGPURows
<1>9. \A r \in OSThreadRows : OtherRow(r) BY DEF OSThreadRows
<1>10. \A r \in OSAMDPackageRows : OtherRow(r) BY DEF OSAMDPackageRows
<1>11. \A r \in OSAMDThreadRows : OtherRow(r) BY DEF OSAMDThreadRows
<1>12. \A r \in IntelPackageRows : OtherRow(r) BY DEF IntelPackageRows, Package
<1>13. \A r \in IntelCoreRows : OtherRow(r) BY DEF IntelCoreRows
<1>14. \A r \in IntelThreadRows : OtherRow(r) BY DEF IntelThreadRows
<1>15. \A r \in MCHBARRows : OtherRow(r) BY DEF MCHBARRows
<1> HIDE DEF OtherRow, SMURow
<1> QED BY <1>1, <1>2, <1>3, <1>4, <1>5, <1>6, <1>7, <1>8, <1>9, <1>10, <1>11, <1>12, <1>13, <1>14, <1>15

\* Options of the SMU are places only where the daemon has RyzenAdj.
HasSMU(m) == m.amd /\ "ryzenadj" \in m.found

CachedFacts(m, p) ==
    /\ p.slot \in SMUNames => p.stage \in {4, 5} /\ HasSMU(m)
    /\ p.slot \in UndervoltSlots => p.stage = 1

LEMMA CachedPlaceFacts ==
  ASSUME NEW m
  PROVE  \A p \in PlacesOn(m) : CachedFacts(m, p)
<1> DEFINE Good(S) == \A p \in S : CachedFacts(m, p)
<1>1. ASSUME NEW rows, NEW features, NEW indices, \A r \in rows : OtherRow(r)
      PROVE  Good(PlacesOf(rows, features, indices))
  <2> SUFFICES ASSUME NEW p \in PlacesOf(rows, features, indices) PROVE CachedFacts(m, p)
    OBVIOUS
  <2>1. PICK r \in rows, i \in indices :
          p = [stage |-> r.stage, index |-> i, turn |-> r.turn, slot |-> r.slot, error |-> r.error]
    BY DEF PlacesOf
  <2>2. p.stage = r.stage /\ p.slot = r.slot
    BY <2>1
  <2> QED BY <1>1, <2>2 DEF OtherRow, CachedFacts
<1>2. ASSUME NEW rows, NEW indices, \A r \in rows : SMURow(r)
      PROVE  Good(PlacesOf(rows, AMDFeatures(m), indices))
  <2> SUFFICES ASSUME NEW p \in PlacesOf(rows, AMDFeatures(m), indices) PROVE CachedFacts(m, p)
    OBVIOUS
  <2>1. PICK r \in {x \in rows : x.feature \in AMDFeatures(m)}, i \in indices :
          p = [stage |-> r.stage, index |-> i, turn |-> r.turn, slot |-> r.slot, error |-> r.error]
    BY DEF PlacesOf
  <2>2. p.stage = r.stage /\ p.slot = r.slot /\ r \in rows /\ r.feature \in AMDFeatures(m)
    BY <2>1
  <2>3. SMURow(r)
    BY <1>2, <2>2
  <2>4. HasSMU(m)
    BY <2>2, <2>3 DEF SMURow, AMDFeatures, RegisterFeatures, HasSMU
  <2> QED BY <2>2, <2>3, <2>4 DEF SMURow, CachedFacts
<1> HIDE DEF Good
<1>3. Good(AMDPlaces(m))
  <2>1. /\ Good(PlacesOf(AMDPackageRows, AMDFeatures(m), {0}))
        /\ Good(PlacesOf(AMDThreadRows, AMDFeatures(m), m.cpus))
        /\ Good(PlacesOf(RyPackageRows, AMDFeatures(m), {0}))
        /\ Good(PlacesOf(RyCoreRows, AMDFeatures(m), m.cores))
    BY <1>1, <1>2, CachedRows
  <2> QED BY <2>1 DEF AMDPlaces, Good
<1>4. Good(OSPlaces(m))
  <2>1. /\ Good(PlacesOf(BlockRows \cup MiscPMRows, {"always"}, m.devices))
        /\ Good(PlacesOf(OSPackageRows, OSCPUFeatures(m), {0}))
        /\ Good(PlacesOf(IntelGPURows, IntelGPUFeatures(m), m.intelGpus))
        /\ Good(PlacesOf(AMDGPURows, AMDGPUFeatures(m), m.amdGpus))
        /\ Good(PlacesOf(OSThreadRows, OSCPUFeatures(m), m.cpus))
        /\ Good(PlacesOf(OSAMDPackageRows, OSCPUFeatures(m), {0}))
        /\ Good(PlacesOf(OSAMDThreadRows, OSCPUFeatures(m), m.cpus))
    BY <1>1, CachedRows
  <2> QED BY <2>1 DEF OSPlaces, Good
<1>5. Good(IntelPlaces(m))
  <2>1. /\ Good(PlacesOf(IntelPackageRows, IntelFeatures(m), {0}))
        /\ Good(PlacesOf(IntelCoreRows, IntelFeatures(m), m.cores))
        /\ Good(PlacesOf(IntelThreadRows, IntelFeatures(m), m.cpus))
        /\ Good(PlacesOf(MCHBARRows, IntelFeatures(m), {0}))
    BY <1>1, CachedRows
  <2> QED BY <2>1 DEF IntelPlaces, Good
<1> QED BY <1>3, <1>4, <1>5 DEF PlacesOn, Good

\* Facts about the places of the machine at hand.
LEMMA KeptPlaces ==
  ASSUME TypeOK
  PROVE  /\ Asked(packet) \subseteq Places /\ todo \subseteq Asked(packet)
         /\ \A p \in Places : Facts(p) /\ CachedFacts(machine, p)
         /\ \A p \in CachedPlaces : p \in Places /\ p.slot \in SMUNames \cup UndervoltSlots
         /\ \A p \in CachedPlaces : p.stage \in {1, 4, 5} /\ ~PassedOverIfMissing(p) /\ ~IsOneWay(p)
         /\ \A p \in Places : IsSwitch(p) =>
               /\ p.stage \in {8, 10, 11} /\ ~PassedOverIfMissing(p) /\ ~IsOneWay(p)
<1>1. Places = PlacesOn(machine) /\ Asked(packet) \subseteq Places /\ todo \subseteq Asked(packet)
  BY PlacesKnown DEF TypeOK
<1>2. \A p \in Places : Facts(p) /\ CachedFacts(machine, p)
  BY <1>1, PlacesKnown, CachedPlaceFacts
<1>3. \A p \in CachedPlaces : p \in Places /\ p.slot \in SMUNames \cup UndervoltSlots
  BY SMUNamed DEF CachedPlaces
<1>4. \A p \in CachedPlaces : p.stage \in {1, 4, 5} /\ ~PassedOverIfMissing(p) /\ ~IsOneWay(p)
  <2>1. \A p \in CachedPlaces : p.stage \in {1, 4, 5}
    BY <1>2, <1>3 DEF CachedFacts
  <2>2. \A p \in CachedPlaces : ~PassedOverIfMissing(p) /\ ~IsOneWay(p)
    BY <1>3 DEF SMUNames, UndervoltSlots, PassedOverIfMissing, IsDevice, IsOneWay
  <2> QED BY <2>1, <2>2
<1>5. \A p \in Places : IsSwitch(p) =>
               /\ p.stage \in {8, 10, 11} /\ ~PassedOverIfMissing(p) /\ ~IsOneWay(p)
  BY <1>2 DEF Facts, IsSwitch, PassedOverIfMissing, IsDevice, IsOneWay
<1> QED BY <1>1, <1>2, <1>3, <1>4, <1>5

\* A write leaves its value, and no switch but its own changes with it, except
\* that SMT takes CPUs along.
LEMMA WriteSwitches ==
  ASSUME TypeOK, NEW p \in Asked(packet), NEW h \in After(p, packet[p])
  PROVE  /\ IsSwitch(p) => h[p] = packet[p]
         /\ \A q \in Places \ {p} : IsSwitch(q) =>
               h[q] = held[q] \/ (p.slot = "smtState" /\ q.slot = "cpuOnlineStatus")
<1> DEFINE v == Taken(p, packet[p])
           g == [held EXCEPT ![TakenAt(p, packet[p])] = v]
           s == WithSiblings(g, p)
<1>0. /\ TakenAt(p, packet[p]) = p /\ v \in Int
      /\ IsSwitch(p) => v = packet[p]
  BY TakenFits DEF IsSwitch, Exact, EighthSlots, RequestSlots, WindowSlots
<1> HIDE DEF v
<1>1. /\ g \in [Places -> Int] /\ p \in Places /\ g[p] = v
      /\ held \in [Places -> Int]
      /\ \A q \in Places \ {p} : g[q] = held[q]
  BY <1>0, PlacesKnown DEF TypeOK
<1> HIDE DEF g
<1>2. /\ s[p] = v
      /\ \A q \in Places \ {p} :
            s[q] = held[q] \/ (p.slot = "smtState" /\ q.slot = "cpuOnlineStatus")
  BY <1>1 DEF WithSiblings
<1>3. PICK lost \in SUBSET MayReset(s, p) : h = [q \in Places |-> IF q \in lost THEN 0 ELSE s[q]]
  BY DEF After, s, g, v
<1>4. h[p] = v
  BY <1>1, <1>2, <1>3 DEF MayReset
<1>5. \A q \in Places : IsSwitch(q) => q \notin MayReset(s, p)
  BY KeptPlaces DEF MayReset, IsSwitch, IsDriver, IsCPUFreq, IsRequest
<1> HIDE DEF s
<1> QED BY <1>0, <1>2, <1>3, <1>4, <1>5

\* A cached option that is sent is remembered.
LEMMA CacheKeeps ==
  ASSUME TypeOK, NEW p \in Asked(packet), cache' = CacheAfter(cache, p, packet[p])
  PROVE  /\ p \in CachedPlaces => cache'[p] = packet[p]
         /\ \A q \in CachedPlaces \ {p} : cache'[q] = cache[q]
BY DEF TypeOK, CacheAfter

LEMMA SameKept ==
  ASSUME machine' = machine, packet' = packet, NEW p,
         held'[p] = held[p] \/ ~IsSwitch(p),
         cache'[p] = cache[p] \/ p \notin CachedPlaces, Kept(p)
  PROVE  Kept(p)'
<1>1. CachedPlaces' = CachedPlaces
  BY SamePlaces
<1> QED BY <1>1 DEF Kept, IsSwitch

\* Repeating what a calm apply did switches nothing.
LEMMA CalmWrite ==
  ASSUME TypeOK, CalmIsKept, calm >= 1, NEW p \in todo,
         held' = held \/ held' \in After(p, packet[p]),
         cache' = CacheAfter(cache, p, packet[p]), machine' = machine, packet' = packet
  PROVE  ~Switches(p, held') /\ \A q \in Asked(packet) : Kept(q)'
<1>1. p \in Asked(packet) /\ Asked(packet) \subseteq Places
  BY KeptPlaces
<1>2. \A q \in Asked(packet) : Kept(q)
  BY DEF CalmIsKept
<1>3. held' \in After(p, packet[p]) /\ IsSwitch(p) => held'[p] = packet[p]
  BY <1>1, WriteSwitches
<1>4. ~Switches(p, held')
  BY <1>1, <1>2, <1>3 DEF Switches, Kept, IsSwitch
<1>5. \A q \in Places : IsSwitch(q) => held'[q] = held[q]
  <2>1. CASE held' = held
    BY <2>1
  <2>2. CASE held' \in After(p, packet[p])
    <3>1. \A q \in Places \ {p} :
              \/ held'[q] = held[q]
              \/ q.slot = "epp" \/ q.slot = "sclk" \/ IsRequest(q)
      BY <1>1, <1>4, <2>2, WriteIsLocal
    <3>2. IsSwitch(p) => held'[p] = held[p]
      BY <1>4 DEF Switches, IsSwitch
    <3> QED BY <3>1, <3>2 DEF IsSwitch, IsRequest
  <2> QED BY <2>1, <2>2
<1>6. /\ p \in CachedPlaces => cache'[p] = packet[p]
      /\ \A q \in CachedPlaces \ {p} : cache'[q] = cache[q]
  BY <1>1, CacheKeeps
<1>7. CachedPlaces' = CachedPlaces
  BY SamePlaces
<1>8. ASSUME NEW q \in Asked(packet) PROVE Kept(q)'
  <2>1. Kept(q) /\ q \in Places
    BY <1>1, <1>2
  <2>2. IsSwitch(q) => held'[q] = packet[q]
    BY <1>5, <2>1 DEF Kept
  <2>3. q \in CachedPlaces => cache'[q] = packet[q]
    BY <1>6, <2>1 DEF Kept
  <2> QED BY <1>7, <2>2, <2>3 DEF Kept, IsSwitch
<1> QED BY <1>4, <1>8

LEMMA InOrderStep ==
  ASSUME TypeOK, InOrder, [Next]_vars
  PROVE  InOrder'
<1>0. machine' = machine
  BY DEF Next, vars, ApplySettings, Written, Refused, PassedOver, NotOpened, Return,
         FillPacketDeviceData, GetTemperature, Others, Plug
<1>a. \A pkt : Asked(pkt)' = Asked(pkt)
  BY <1>0, SamePlaces
<1>b. SUFFICES ASSUME running', errors' = {}
               PROVE  \A p \in Asked(packet') \ todo', q \in todo' : Before(p, q)
  BY <1>a DEF InOrder
<1>1. ASSUME NEW pkt \in machine.packets, ApplySettings(pkt)
      PROVE  Asked(packet') \subseteq todo'
  <2>1. PICK r \in Refusals : /\ todo' = {p \in Asked(pkt) : r[Part(p)] = {}}
                              /\ errors' = r.cpu \cup r.os \cup r.osAmd
    BY <1>1 DEF ApplySettings
  <2>2. \A p : r[Part(p)] = {}
    BY <1>b, <2>1 DEF Part
  <2>3. packet' = pkt
    BY <1>1 DEF ApplySettings
  <2> QED BY <2>1, <2>2, <2>3
<1>2. ASSUME NEW gone, UNCHANGED packet, running, errors = {}, todo' = todo \ gone,
             \A p \in gone \cap todo, q \in todo' : Before(p, q)
      PROVE  \A p \in Asked(packet') \ todo', q \in todo' : Before(p, q)
  BY <1>2 DEF InOrder
<1>3. ASSUME NEW p \in todo, Written(p) \/ PassedOver(p)
      PROVE  \A x \in Asked(packet') \ todo', q \in todo' : Before(x, q)
  <2>1. IsNext(p) /\ todo' = todo \ {p} /\ UNCHANGED <<packet, running, errors>>
    BY <1>3 DEF Written, PassedOver
  <2> QED BY <1>2, <1>b, <2>1 DEF IsNext
<1>4. ASSUME NEW p \in todo, Refused(p) PROVE FALSE
  BY <1>4, <1>b DEF Refused
<1>5. ASSUME NEW p \in todo, NotOpened(p)
      PROVE  \A x \in Asked(packet') \ todo', q \in todo' : Before(x, q)
  <2>1. /\ IsNext(p) /\ todo' = todo \ Bracket(p) /\ UNCHANGED <<packet, running>>
        /\ errors \subseteq errors'
    BY <1>5 DEF NotOpened
  <2>2. ASSUME NEW x \in Bracket(p) \cap todo, NEW q \in todo' PROVE Before(x, q)
    <3>1. q \in todo /\ q \notin Bracket(p) /\ x.stage = p.stage /\ x.index = p.index
      BY <2>1, <2>2 DEF Bracket
    <3>2. Before(p, q)
      <4>1. p \in Bracket(p)
        BY KeptPlaces DEF Bracket
      <4> QED BY <2>1, <3>1, <4>1 DEF IsNext
    <3>3. ~(q.stage = p.stage /\ q.index = p.index)
      BY <3>1, KeptPlaces DEF Bracket
    <3> QED BY <3>1, <3>2, <3>3 DEF Before
  <2> QED BY <1>2, <1>b, <2>1, <2>2
<1>6. CASE (\E p \in Places : Others(p)) \/ (\E d \in machine.devices : Plug(d)) \/ UNCHANGED vars
  <2>1. UNCHANGED <<packet, running, errors, todo>>
    BY <1>6 DEF Others, Plug, vars
  <2> QED BY <1>b, <2>1 DEF InOrder
<1>7. CASE Return \/ FillPacketDeviceData \/ GetTemperature
  <2>1. ~running'
    BY <1>7 DEF Return, FillPacketDeviceData, GetTemperature
  <2> QED BY <1>b, <2>1
<1> QED BY <1>1, <1>3, <1>4, <1>5, <1>6, <1>7 DEF Next

LEMMA DoneIsKeptStep ==
  ASSUME TypeOK, InOrder, DoneIsKept, [Next]_vars
  PROVE  DoneIsKept'
<1>0. machine' = machine
  BY DEF Next, vars, ApplySettings, Written, Refused, PassedOver, NotOpened, Return,
         FillPacketDeviceData, GetTemperature, Others, Plug
<1>a. (\A pkt : Asked(pkt)' = Asked(pkt)) /\ CachedPlaces' = CachedPlaces
  BY <1>0, SamePlaces
<1>b. SUFFICES ASSUME running', errors' = {}, ~disturbed'
               PROVE  \A p \in Asked(packet') \ todo' : Kept(p)'
  BY <1>a DEF DoneIsKept
<1>c. Asked(packet) \subseteq Places /\ todo \subseteq Asked(packet)
  BY KeptPlaces
<1>1. ASSUME NEW pkt \in machine.packets, ApplySettings(pkt)
      PROVE  Asked(packet') \subseteq todo'
  <2>1. PICK r \in Refusals : /\ todo' = {p \in Asked(pkt) : r[Part(p)] = {}}
                              /\ errors' = r.cpu \cup r.os \cup r.osAmd
    BY <1>1 DEF ApplySettings
  <2>2. \A p : r[Part(p)] = {}
    BY <1>b, <2>1 DEF Part
  <2>3. packet' = pkt
    BY <1>1 DEF ApplySettings
  <2> QED BY <2>1, <2>2, <2>3
<1>2. ASSUME NEW p \in todo, Written(p)
      PROVE  \A q \in Asked(packet') \ todo' : Kept(q)'
  <2>1. /\ held' \in After(p, packet[p]) /\ cache' = CacheAfter(cache, p, packet[p])
        /\ todo' = todo \ {p} /\ UNCHANGED <<packet, running, errors, disturbed>>
    BY <1>2 DEF Written
  <2>2. p \in Asked(packet) /\ p \in Places
    BY <1>c
  <2>3. /\ IsSwitch(p) => held'[p] = packet[p]
        /\ \A q \in Places \ {p} : IsSwitch(q) =>
              held'[q] = held[q] \/ (p.slot = "smtState" /\ q.slot = "cpuOnlineStatus")
    BY <2>1, <2>2, WriteSwitches
  <2>4. /\ p \in CachedPlaces => cache'[p] = packet[p]
        /\ \A q \in CachedPlaces \ {p} : cache'[q] = cache[q]
    BY <2>1, <2>2, CacheKeeps
  <2>5. Kept(p)'
    BY <1>a, <2>1, <2>3, <2>4 DEF Kept, IsSwitch
  <2>6. ASSUME NEW q \in Asked(packet) \ todo PROVE Kept(q)'
    <3>1. Kept(q) /\ Before(q, p)
      BY <1>b, <2>1, <2>6 DEF DoneIsKept, InOrder
    <3>2. Facts(p) /\ Facts(q)
      BY <1>c, <2>2, KeptPlaces
    <3>3. ~(p.slot = "smtState" /\ q.slot = "cpuOnlineStatus")
      BY <3>1, <3>2 DEF Facts, Before
    <3>4. q \in Places /\ q # p
      BY <1>c, <2>6
    <3>5. held'[q] = held[q] \/ ~IsSwitch(q)
      BY <2>3, <3>3, <3>4
    <3>6. cache'[q] = cache[q] \/ q \notin CachedPlaces
      BY <2>4, <3>4
    <3> QED BY <1>0, <2>1, <3>1, <3>5, <3>6, SameKept
  <2> QED BY <2>1, <2>5, <2>6
<1>3. ASSUME NEW p \in todo, Refused(p) PROVE FALSE
  BY <1>3, <1>b DEF Refused
<1>4. ASSUME UNCHANGED <<held, cache, packet, running>>, errors \subseteq errors', ~disturbed,
             \A q \in Asked(packet) : q \in todo \ todo' => ~IsSwitch(q) /\ q \notin CachedPlaces
      PROVE  \A q \in Asked(packet') \ todo' : Kept(q)'
  <2> SUFFICES ASSUME NEW q \in Asked(packet) \ todo' PROVE Kept(q)'
    BY <1>4
  <2>1. Kept(q)
    <3>1. CASE q \in todo
      BY <1>4, <3>1 DEF Kept
    <3>2. CASE q \notin todo
      BY <1>4, <1>b, <3>2 DEF DoneIsKept
    <3> QED BY <3>1, <3>2
  <2> QED BY <1>0, <1>4, <2>1, SameKept
<1>5. ASSUME NEW p \in todo, PassedOver(p)
      PROVE  \A q \in Asked(packet') \ todo' : Kept(q)'
  <2>1. /\ IsOneWay(p) \/ PassedOverIfMissing(p)
        /\ todo' = todo \ {p}
        /\ UNCHANGED <<held, cache, packet, running, errors, disturbed>>
    BY <1>5 DEF PassedOver, IsLeftOn, history
  <2>2. ~IsSwitch(p) /\ p \notin CachedPlaces
    BY <1>c, <2>1, KeptPlaces
  <2> QED BY <1>4, <1>b, <2>1, <2>2
<1>6. ASSUME NEW p \in todo, NotOpened(p)
      PROVE  \A q \in Asked(packet') \ todo' : Kept(q)'
  <2>1. /\ p.stage \in 1 .. 3
        /\ todo' = todo \ Bracket(p)
        /\ errors' = IF p.stage = 1 THEN errors \cup {"NO_MSR_FD"} ELSE errors
        /\ UNCHANGED <<held, cache, packet, running, disturbed>>
    BY <1>6 DEF NotOpened, IsRegister
  <2>2. p.stage \in {2, 3} /\ errors' = errors /\ ~disturbed
    <3>1. p.stage # 1
      BY <1>b, <2>1
    <3>2. ~disturbed
      BY <1>b, <2>1
    <3> QED BY <2>1, <3>1, <3>2
  <2>3. \A q \in Bracket(p) : ~IsSwitch(q) /\ q \notin CachedPlaces
    BY <2>2, KeptPlaces DEF Bracket
  <2> QED BY <1>4, <2>1, <2>2, <2>3
<1>7. CASE (\E p \in Places : Others(p)) \/ (\E d \in machine.devices : Plug(d))
  <2>1. disturbed'
    BY <1>7 DEF Others, Plug, Disturb
  <2> QED BY <1>b, <2>1
<1>8. CASE UNCHANGED vars
  <2>1. UNCHANGED <<held, cache, packet, running, errors, disturbed, todo>>
    BY <1>8 DEF vars
  <2> QED BY <1>4, <1>b, <2>1
<1>9. CASE Return \/ FillPacketDeviceData \/ GetTemperature
  <2>1. ~running'
    BY <1>9 DEF Return, FillPacketDeviceData, GetTemperature
  <2> QED BY <1>b, <2>1
<1> QED BY <1>1, <1>2, <1>3, <1>5, <1>6, <1>7, <1>8, <1>9 DEF Next

\* Running is applying.
LEMMA ApplyRunsStep == ASSUME ApplyRuns, [Next]_vars PROVE ApplyRuns'
BY DEF ApplyRuns, Next, vars, ApplySettings, Written, Refused, PassedOver, NotOpened, Return,
       FillPacketDeviceData, GetTemperature, Others, Plug

\* What repeats a calm apply keeps what that one left, and switches nothing.
LEMMA CalmStep ==
  ASSUME TypeOK, DoneIsKept, CalmIsKept, CalmSwitchesNothing, [Next]_vars
  PROVE  CalmIsKept' /\ CalmSwitchesNothing'
<1>0. machine' = machine
  BY DEF Next, vars, ApplySettings, Written, Refused, PassedOver, NotOpened, Return,
         FillPacketDeviceData, GetTemperature, Others, Plug
<1>a. \A pkt : Asked(pkt)' = Asked(pkt)
  BY <1>0, SamePlaces
<1>b. calm \in {0, 1, 2} /\ (todo # {} => running)
  BY DEF TypeOK
<1>c. ASSUME calm' >= 1 => calm >= 1, UNCHANGED <<held, cache, packet>>
      PROVE  CalmIsKept'
  <2> SUFFICES ASSUME calm' >= 1, NEW q \in Asked(packet) PROVE Kept(q)'
    BY <1>a, <1>c DEF CalmIsKept
  <2>1. Kept(q)
    BY <1>c DEF CalmIsKept
  <2> QED BY <1>0, <1>c, <2>1, SameKept
<1>1. ASSUME NEW pkt \in machine.packets, ApplySettings(pkt)
      PROVE  CalmIsKept' /\ CalmSwitchesNothing'
  <2>1. /\ packet' = pkt /\ switched' = FALSE /\ UNCHANGED <<held, cache>>
        /\ calm' = IF pkt = packet THEN calm ELSE 0
    BY <1>1 DEF ApplySettings
  <2>2. CASE pkt = packet
    BY <1>c, <2>1, <2>2 DEF CalmSwitchesNothing
  <2>3. CASE pkt # packet
    BY <2>1, <2>3 DEF CalmIsKept, CalmSwitchesNothing
  <2> QED BY <2>2, <2>3
<1>2. ASSUME NEW p \in todo, Written(p) \/ Refused(p)
      PROVE  CalmIsKept' /\ CalmSwitchesNothing'
  <2>1. /\ held' = held \/ held' \in After(p, packet[p])
        /\ switched' = (switched \/ Switches(p, held'))
        /\ cache' = CacheAfter(cache, p, packet[p])
        /\ UNCHANGED <<packet, calm, running>>
    BY <1>2 DEF Written, Refused
  <2>2. CASE calm >= 1
    <3>1. ~Switches(p, held') /\ \A q \in Asked(packet) : Kept(q)'
      BY <1>0, <2>1, <2>2, CalmWrite
    <3>2. ~switched
      BY <1>b, <2>2 DEF CalmSwitchesNothing
    <3> QED BY <1>a, <2>1, <3>1, <3>2 DEF CalmIsKept, CalmSwitchesNothing
  <2>3. CASE calm = 0
    BY <2>1, <2>3 DEF CalmIsKept, CalmSwitchesNothing
  <2> QED BY <1>b, <2>2, <2>3
<1>3. ASSUME NEW p \in todo, PassedOver(p) \/ NotOpened(p)
      PROVE  CalmIsKept' /\ CalmSwitchesNothing'
  <2>1. UNCHANGED <<held, cache, packet, calm, running, switched>>
    BY <1>3 DEF PassedOver, NotOpened, history
  <2> QED BY <1>c, <2>1 DEF CalmSwitchesNothing
<1>4. CASE Return
  <2>1. /\ running /\ todo = {} /\ ~running'
        /\ calm' = IF errors # {} \/ disturbed THEN 0 ELSE IF calm < 2 THEN calm + 1 ELSE calm
        /\ UNCHANGED <<held, cache, packet, switched>>
    BY <1>4, <1>b DEF Return
  <2>2. CalmIsKept'
    <3> SUFFICES ASSUME calm' >= 1, NEW q \in Asked(packet) PROVE Kept(q)'
      BY <1>a, <2>1 DEF CalmIsKept
    <3>1. Kept(q)
      BY <2>1 DEF DoneIsKept
    <3> QED BY <1>0, <2>1, <3>1, SameKept
  <2>3. CalmSwitchesNothing'
    BY <1>b, <2>1 DEF CalmSwitchesNothing
  <2> QED BY <2>2, <2>3
<1>5. CASE FillPacketDeviceData \/ GetTemperature
  <2>1. UNCHANGED <<held, cache, packet, calm, running, switched>>
    BY <1>5 DEF FillPacketDeviceData, GetTemperature, history
  <2> QED BY <1>c, <2>1 DEF CalmSwitchesNothing
<1>6. CASE (\E p \in Places : Others(p)) \/ (\E d \in machine.devices : Plug(d))
  <2>1. calm' = 0
    BY <1>6 DEF Others, Plug, Disturb
  <2> QED BY <2>1 DEF CalmIsKept, CalmSwitchesNothing
<1>7. CASE UNCHANGED vars
  <2>1. UNCHANGED <<held, cache, packet, calm, running, switched>>
    BY <1>7 DEF vars
  <2> QED BY <1>c, <2>1 DEF CalmSwitchesNothing
<1> QED BY <1>1, <1>2, <1>3, <1>4, <1>5, <1>6, <1>7 DEF Next

\* After a calm apply that switched nothing everything there is settled.
LEMMA CalmIsSettledStep ==
  ASSUME TypeOK, ApplyRuns, WrittenIsSettled, CalmIsSettled, [Next]_vars
  PROVE  CalmIsSettled'
<1>0. machine' = machine
  BY DEF Next, vars, ApplySettings, Written, Refused, PassedOver, NotOpened, Return,
         FillPacketDeviceData, GetTemperature, Others, Plug
<1>a. \A pkt : Asked(pkt)' = Asked(pkt)
  BY <1>0, SamePlaces
<1>b. SUFFICES ASSUME ~running', calm' >= 1, ~switched'
               PROVE  \A p \in Asked(packet') : Present(p)' => Settled(p)' \/ p \in skipped'
  BY <1>a DEF CalmIsSettled
<1>c. todo # {} => running
  BY DEF TypeOK
<1>1. ASSUME UNCHANGED <<held, attached, packet, skipped>>,
             \A p \in Asked(packet) : Present(p) => Settled(p) \/ p \in skipped
      PROVE  \A p \in Asked(packet') : Present(p)' => Settled(p)' \/ p \in skipped'
  <2>1. \A q : Present(q)' <=> Present(q)
    BY <1>0, <1>1, PresentKept
  <2>2. \A q : Settled(q) => Settled(q)'
    BY <1>0, <1>1, SettledStays
  <2> QED BY <1>1, <2>1, <2>2
<1>2. CASE Return
  <2>1. /\ running /\ todo = {} /\ UNCHANGED <<held, attached, packet, switched, skipped>>
        /\ errors = {} /\ ~disturbed
    BY <1>2, <1>b DEF Return
  <2>2. \A p : ~Reported(p)
    BY <2>1 DEF Reported
  <2> QED BY <1>1, <1>b, <2>1, <2>2 DEF ApplyRuns, WrittenIsSettled
<1>3. CASE FillPacketDeviceData \/ GetTemperature \/ UNCHANGED vars
  <2>1. UNCHANGED <<held, attached, packet, running, calm, switched, skipped>>
    BY <1>3 DEF FillPacketDeviceData, GetTemperature, vars, history
  <2> QED BY <1>1, <1>b, <2>1 DEF CalmIsSettled
<1>4. CASE \E pkt \in machine.packets : ApplySettings(pkt)
  BY <1>4, <1>b DEF ApplySettings
<1>5. ASSUME NEW p \in todo, Written(p) \/ Refused(p) \/ PassedOver(p) \/ NotOpened(p)
      PROVE  FALSE
  BY <1>5, <1>b, <1>c DEF Written, Refused, PassedOver, NotOpened
<1>6. CASE (\E p \in Places : Others(p)) \/ (\E d \in machine.devices : Plug(d))
  <2>1. calm' = 0
    BY <1>6 DEF Others, Plug, Disturb
  <2> QED BY <1>b, <2>1
<1> QED BY <1>2, <1>3, <1>4, <1>5, <1>6 DEF Next

\* The invariant across applies.
THEOREM RepeatedApplies == Spec => []RInv
<1>1. Init => ApplyRuns /\ InOrder /\ DoneIsKept /\ CalmIsKept /\ CalmSwitchesNothing
                /\ CalmIsSettled
  BY DEF Init, ApplyRuns, InOrder, DoneIsKept, CalmIsKept, CalmSwitchesNothing, CalmIsSettled
<1>2. IInv /\ RInv /\ [Next]_vars => ApplyRuns' /\ InOrder' /\ DoneIsKept' /\ CalmIsKept'
                               /\ CalmSwitchesNothing' /\ CalmIsSettled'
  BY InOrderStep, DoneIsKeptStep, ApplyRunsStep, CalmStep, CalmIsSettledStep DEF RInv, IInv
<1> QED BY <1>1, <1>2, Invariant, PTL DEF Spec, RInv

\* What an apply that woke CPUs or changed the driver leaves undone, the next
\* one of the packet makes up for: it finds all switches set, so nothing it
\* writes is lost again (Device::applySettings, from the apply timer or a wake).
\* Registers it passes over, as they do not open, are left out by name.
THEOREM RepairedAlways == Spec => []RepairedByNextApply
<1>1. RInv => RepairedByNextApply
  BY DEF RInv, RepairedByNextApply, CalmIsSettled, CalmSwitchesNothing
<1> QED BY <1>1, RepeatedApplies, PTL

-------------------------------------------------------------------------------
\* What a client reads back.

\* What a client may see of a place.
Back(p) == ShownAsAsked(p) \/ Contested(p) \/ Inexpressible(p) \/ p \in skipped

\* A read that returns no error after a calm apply shows the packet.
LEMMA FillShows ==
  ASSUME RInv, FillPacketDeviceData, errors' = {}, calm >= 1, ~switched,
         NEW p \in Asked(packet), CanBeShown(p)'
  PROVE  Back(p)'
<1>0. TypeOK /\ CalmIsKept /\ CalmIsSettled /\ p \in Places
  BY KeptPlaces DEF RInv, IInv
<1>1. ~running /\ UNCHANGED <<machine, attached, held, cache, packet, skipped>>
  BY DEF FillPacketDeviceData, history
<1> DEFINE smu == machine.amd /\ CoresMatch(machine) /\ "ryzenadj" \in machine.found
<1>2. PICK refreshed \in BOOLEAN, short \in BOOLEAN,
           closed \in SUBSET {x.index : x \in {q \in Places : IsRegister(q)}},
           unlisted \in SUBSET {x \in Places : x.slot = "control"} :
        LET unopened == {x \in Places : IsRegister(x) /\ (x.index \in closed \/ ~Present(x))}
            tab == IF refreshed /\ smu THEN ReadTable(held) ELSE table
            unread == unopened \cup unlisted
                        \cup {x \in Places : Part(x) = "cpu" /\ ~CoresMatch(machine)}
        IN  /\ table' = tab
            /\ shown' = ShownTo(tab, short, unread)
            /\ errors' = (IF ~CoresMatch(machine) THEN {"CORE_IDX_MISMATCH"}
                          ELSE IF unopened # {} THEN {"NO_MSR_FD"} ELSE {})
                           \cup (IF smu /\ ~refreshed THEN {"RY_REFRESH_TABLE"} ELSE {})
  BY DEF FillPacketDeviceData
<1> DEFINE unopened == {x \in Places : IsRegister(x) /\ (x.index \in closed \/ ~Present(x))}
           unread == unopened \cup unlisted
                        \cup {x \in Places : Part(x) = "cpu" /\ ~CoresMatch(machine)}
\* Without an error nothing was left unread but power controls that are not listed.
<1>3. /\ errors' = (IF ~CoresMatch(machine) THEN {"CORE_IDX_MISMATCH"}
                    ELSE IF unopened # {} THEN {"NO_MSR_FD"} ELSE {})
                     \cup (IF smu /\ ~refreshed THEN {"RY_REFRESH_TABLE"} ELSE {})
      /\ table' = IF refreshed /\ smu THEN ReadTable(held) ELSE table
      /\ shown' = ShownTo(table', short, unread)
  BY <1>2
<1> HIDE DEF unopened
<1>4. CoresMatch(machine) /\ unopened = {} /\ (smu => refreshed)
  BY <1>3
<1>5. p \in unread => p.slot = "control"
  BY <1>4
<1> HIDE DEF unread
<1>6. p.slot # "control"
  <2>1. p.slot \in RySlots \cup UndervoltSlots => p.slot \in SMUNames \cup UndervoltSlots
    BY SMUNamed
  <2>2. "control" \notin SMUNames \cup UndervoltSlots
    BY DEF SMUNames, UndervoltSlots
  <2>3. p.slot \notin RySlots \cup UndervoltSlots => p.slot # "control"
    BY DEF CanBeShown
  <2> QED BY <2>1, <2>2, <2>3
<1>7. shown'[p] = Shown(p, table', short)
  BY <1>0, <1>3, <1>5, <1>6 DEF ShownTo
<1>8. Present(p) => Settled(p) \/ p \in skipped
  BY <1>0, <1>1 DEF CalmIsSettled
<1>9. /\ Contested(p) \/ Inexpressible(p) \/ p \in skipped => Back(p)'
      /\ Fits(p, packet[p], shown'[p]) => Back(p)'
      /\ IsOneWay(p) /\ shown'[p] = 1 => Back(p)'
      /\ p.slot \in InThousandths /\ shown'[p] = packet[p] - 1 => Back(p)'
  <2>1. Contested(p)' <=> Contested(p)
    BY <1>1, ContestedKept
  <2> QED BY <1>1, <2>1 DEF Back, ShownAsAsked, Inexpressible, Fits, IsOneWay
<1>10. CASE p.slot \in RySlots \cup UndervoltSlots
  <2>1. CachedPlaces' = CachedPlaces /\ TablePlaces' = TablePlaces
    BY <1>1, SamePlaces
  <2>2. /\ DOMAIN table = TablePlaces /\ DOMAIN cache = CachedPlaces
        /\ DOMAIN ReadTable(held) = TablePlaces
    BY <1>0 DEF TypeOK, TablePlaces, ReadTable
  <2>3. DOMAIN table' = TablePlaces
    BY <1>3, <2>2
  <2>4. p \in TablePlaces \cup CachedPlaces
    BY <1>1, <1>10, <2>2, <2>3 DEF CanBeShown
  <2>a. ASSUME p.slot \in SMUNames \cup UndervoltSlots, NEW h
        PROVE  /\ Fits(p, packet[p], h) <=> h = packet[p]
               /\ ~IsOneWay(p)
    BY <2>a DEF Fits, SMUNames, UndervoltSlots, EighthSlots, RequestSlots, WindowSlots, IsOneWay
  <2>5. shown'[p] = IF p \in TablePlaces THEN AsReported(p, table'[p], short) ELSE cache[p]
    BY <1>7, <1>10, <2>2, <2>3, <2>4 DEF Shown, OptionShown
  <2>6. CASE p \in TablePlaces
    <3>1. p.slot \in SMUNames
      <4>1. machine \in Machines /\ p.slot \in machine.readable
        BY <1>0, <2>6 DEF TypeOK, TablePlaces
      <4>2. machine.readable \subseteq RySlots
        BY <4>1, MachinesAssumption
      <4> QED BY <4>1, <4>2, SMUNamed
    <3>2. HasSMU(machine) /\ p.stage \in {4, 5}
      BY <1>0, <3>1, KeptPlaces DEF CachedFacts
    <3>3. table' = ReadTable(held)
      BY <1>3, <1>4, <3>2 DEF HasSMU
    <3>4. /\ shown'[p] = AsReported(p, held[p], short)
          /\ \/ shown'[p] = held[p]
             \/ p.slot \in InThousandths /\ shown'[p] = held[p] - 1
      BY <2>2, <2>5, <2>6, <3>3 DEF ReadTable, AsReported
    <3>5. Present(p)
      BY <3>1, <3>2 DEF Present, SMUNames, IsCPUFreq, IsDevice
    <3>6. Settled(p) => held[p] = packet[p] \/ Contested(p) \/ Inexpressible(p)
      BY <2>a, <3>1 DEF Settled
    <3>7. CASE held[p] = packet[p]
      BY <1>9, <2>a, <3>1, <3>4, <3>7
    <3> QED BY <1>8, <1>9, <3>5, <3>6, <3>7
  <2>7. CASE p \notin TablePlaces
    <3>1. shown'[p] = cache[p] /\ p \in CachedPlaces
      BY <2>4, <2>5, <2>7
    <3>2. Kept(p)
      BY <1>0 DEF CalmIsKept
    <3>3. shown'[p] = packet[p] /\ p.slot \in SMUNames \cup UndervoltSlots
      BY <1>0, <3>1, <3>2, KeptPlaces DEF Kept
    <3> QED BY <1>9, <2>a, <3>3
  <2> QED BY <2>6, <2>7
<1>11. CASE p.slot \notin RySlots \cup UndervoltSlots
  <2>1. Readable(p)'
    BY <1>11 DEF CanBeShown
  <2>2. Places' = Places /\ \A q : Present(q)' <=> Present(q)
    BY <1>1, PresentKept, SamePlaces
  <2>3. IsOn("hwpEnable", 0, held)' <=> IsOn("hwpEnable", 0, held)
    BY <1>1, <2>2 DEF IsOn, At
  <2>4. Readable(p)
    BY <1>1, <2>1, <2>2, <2>3 DEF Readable, ShownByFile, IsHWP
  <2>5. shown'[p] = held[p] /\ Present(p)
    BY <1>7, <1>11, <2>4 DEF Shown, Readable
  <2> QED BY <1>8, <1>9, <2>5 DEF Settled
<1> QED BY <1>10, <1>11

LEMMA ReadBackStep ==
  ASSUME RInv, ReadBack, [Next]_vars
  PROVE  ReadBack'
<1>0. machine' = machine
  BY DEF Next, vars, ApplySettings, Written, Refused, PassedOver, NotOpened, Return,
         FillPacketDeviceData, GetTemperature, Others, Plug
<1>a. \A pkt : Asked(pkt)' = Asked(pkt)
  BY <1>0, SamePlaces
<1>b. SUFFICES ASSUME op' = "fill", errors' = {}, calm' >= 1, ~switched',
                      NEW p \in Asked(packet'), CanBeShown(p)'
               PROVE  Back(p)'
  BY <1>a DEF ReadBack, Back
<1>c. (running => op = "apply") /\ (todo # {} => running)
  BY DEF RInv, IInv, TypeOK, ApplyRuns
<1>1. CASE FillPacketDeviceData
  <2>1. UNCHANGED <<packet, calm, switched>>
    BY <1>1 DEF FillPacketDeviceData, history
  <2> QED BY <1>1, <1>a, <1>b, <2>1, FillShows
<1>2. CASE UNCHANGED vars
  <2>1. UNCHANGED <<machine, attached, held, cache, table, packet, op, errors, shown, switched, calm,
                  skipped>>
    BY <1>2 DEF vars
  <2>2. /\ Places' = Places /\ (\A q : Present(q)' <=> Present(q))
        /\ \A q : Contested(q)' <=> Contested(q)
    BY <2>1, PresentKept, SamePlaces, ContestedKept
  <2>3. IsOn("hwpEnable", 0, held)' <=> IsOn("hwpEnable", 0, held)
    BY <2>1, <2>2 DEF IsOn, At
  <2>4. CanBeShown(p)
    BY <1>b, <2>1, <2>2, <2>3 DEF CanBeShown, Readable, ShownByFile, IsHWP
  <2>5. Back(p)
    BY <1>b, <2>1, <2>4 DEF ReadBack, Back
  <2> QED BY <2>1, <2>2, <2>5 DEF Back, ShownAsAsked, Inexpressible, Fits, IsOneWay
<1>3. CASE (\E q \in Places : Others(q)) \/ (\E d \in machine.devices : Plug(d))
  <2>1. calm' = 0
    BY <1>3 DEF Others, Plug, Disturb
  <2> QED BY <1>b, <2>1
<1>4. CASE GetTemperature \/ \E pkt \in machine.packets : ApplySettings(pkt)
  <2>1. op' # "fill"
    BY <1>4 DEF GetTemperature, ApplySettings
  <2> QED BY <1>b, <2>1
<1>5. CASE Return
  BY <1>5, <1>b, <1>c DEF Return
<1>6. ASSUME NEW q \in todo, Written(q) \/ Refused(q) \/ PassedOver(q) \/ NotOpened(q)
      PROVE  FALSE
  BY <1>6, <1>b, <1>c DEF Written, Refused, PassedOver, NotOpened
<1> QED BY <1>1, <1>2, <1>3, <1>4, <1>5, <1>6 DEF Next

\* What a client reads after a calm apply is what was applied, to the precision
\* of each setting, from registers, files, the SMU's table and the caches alike
\* (Device::fillPacketDeviceData); but for what HeldOrReported leaves out.
THEOREM ReadsBackAlways == Spec => []ReadBack
<1>1. Init => ReadBack
  BY DEF Init, ReadBack
<1> QED BY <1>1, ReadBackStep, RepeatedApplies, PTL DEF Spec
===============================================================================
