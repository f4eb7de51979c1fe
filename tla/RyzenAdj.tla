------------------------------- MODULE RyzenAdj -------------------------------
(***************************************************************************)
(* The settings the firmware of an AMD CPU (the SMU) takes, through the    *)
(* library RyzenAdj.  Some of them the SMU does not report: tableCache     *)
(* holds what was last asked of those.  Packets have limits in milliwatts  *)
(* and milliamperes, as the SMU takes them; it reports watts and amperes.  *)
(***************************************************************************)
EXTENDS Settings

Option(turn, slot, feature, error) == Row(4, turn, slot, feature, error)

\* RyzenAdj::applyPackageSettings
RyPackageRows ==
    {Option(1, "apuSlow", "AMD_RY_APU_SLOW_W", "W_RY_APU_SLOW"),
     Option(2, "stapmLimit", "AMD_RY_STAPM_LIMIT_W", "W_RY_STAPM_LIMIT"),
     Option(3, "slowLimit", "AMD_RY_SLOW_LIMIT_W", "W_RY_SLOW_LIMIT"),
     Option(4, "fastLimit", "AMD_RY_FAST_LIMIT_W", "W_RY_FAST_LIMIT"),
     Option(5, "tctlTemp", "AMD_RY_TCTL_TEMP_W", "W_RY_TCTL_TEMP"),
     Option(6, "apuSkinTemp", "AMD_RY_APU_SKIN_TEMP_W", "W_RY_APU_SKIN_TEMP"),
     Option(7, "dgpuSkinTemp", "AMD_RY_DGPU_SKIN_TEMP_W", "W_RY_DGPU_SKIN_TEMP"),
     Option(8, "vrmCurrent", "AMD_RY_VRM_CURRENT_W", "W_RY_VRM_CURRENT"),
     Option(9, "vrmSocCurrent", "AMD_RY_VRM_SOC_CURRENT_W", "W_RY_VRM_SOC_CURRENT"),
     Option(10, "vrmMaxCurrent", "AMD_RY_VRM_MAX_CURRENT_W", "W_RY_VRM_MAX_CURRENT"),
     Option(11, "vrmSocMaxCurrent", "AMD_RY_VRM_SOC_MAX_CURRENT_W", "W_RY_VRM_SOC_MAX_CURRENT"),
     Option(12, "powerProfile", "AMD_RY_POWER_PROFILE_W", "W_RY_POWER_PROFILE"),
     Option(13, "curveOptimizer", "AMD_RY_CO_ALL_W", "W_RY_CO_ALL")}

\* RyzenAdj::applyCoreSettings
RyCoreRows == {Row(5, 1, "coreCurveOptimizer", "AMD_RY_CO_PER_W", "W_RY_CO_PER")}

RySlots == SlotsOf(RyPackageRows) \cup SlotsOf(RyCoreRows)

\* Whether the SMU takes an option, as ryzenadj_can_write says.  APU_SLOW is
\* offered where SLOW_LIMIT is; a power profile needs both its options.
CanWrite(hw, option) == option \in hw.found

OfferedBy(hw, slot) ==
    CASE slot = "apuSlow" -> CanWrite(hw, "slowLimit")
      [] slot = "powerProfile" -> CanWrite(hw, "CCLK_SETPOINT") /\ CanWrite(hw, "CCLK_BUSY")
      [] slot = "coreCurveOptimizer" -> CanWrite(hw, "COPER")
      [] slot = "curveOptimizer" -> CanWrite(hw, "COALL") /\ ~CanWrite(hw, "COPER")
      [] OTHER -> CanWrite(hw, slot)

RyFeatures(hw) == {r.feature : r \in {x \in RyPackageRows \cup RyCoreRows : OfferedBy(hw, x.slot)}}

\* buildTableCache: these options are kept if the SMU does not report them,
\* the profile and the offsets always.
KeptIfUnreadable ==
    {"tctlTemp", "apuSkinTemp", "dgpuSkinTemp", "vrmCurrent", "vrmSocCurrent", "vrmMaxCurrent",
     "vrmSocMaxCurrent"}

OffsetSlots == {"curveOptimizer", "coreCurveOptimizer"}

KeptAlways == {"powerProfile"} \cup OffsetSlots

IsCached(hw, slot) == slot \in KeptAlways \/ slot \in KeptIfUnreadable \ hw.readable

BuildTableCache(places) ==
    [p \in places |-> IF p.slot \in OffsetSlots THEN 0 ELSE -1]

\* The Curve Optimizer takes an offset for all cores in 20 bits, and one for
\* a core in the low 16 bits below the number of the core.
CurveOptimizerBase == 1048576
OffsetBound == 32768
Offsets == (-OffsetBound) .. (OffsetBound - 1)

CurveOptimizerAll(offt) == IF offt <= 0 THEN CurveOptimizerBase + offt ELSE offt

\* faulty variant: the number of the core is one bit too low
CurveOptimizerCoreTooLow(cpu, offt) == cpu * 524288 + (offt % 65536)

CurveOptimizerCore(cpu, offt) == cpu * 1048576 + (offt % 65536)

\* What the SMU makes of such a word: its low bits, in two's complement.
Signed(word, range) ==
    LET low == word % range IN IF 2 * low < range THEN low ELSE low - range

\* Where it goes: an offset for a core to the core the word names.
TakenAt(p, v) ==
    IF p.slot = "coreCurveOptimizer"
    THEN [p EXCEPT !.index = CurveOptimizerCore(p.index, v) \div 1048576] ELSE p

\* What the SMU holds for an option after taking a value for it.
TakenBySMU(p, v) ==
    CASE p.slot = "curveOptimizer" -> Signed(CurveOptimizerAll(v), 1048576)
      [] p.slot = "coreCurveOptimizer" -> Signed(CurveOptimizerCore(p.index, v), 65536)
      [] OTHER -> v

\* faulty variant: the profile is kept under the option it was sent with
CacheByOption(cache, p, v) ==
    IF p \in DOMAIN cache /\ ~(p.slot = "powerProfile" /\ v # 0)
    THEN [cache EXCEPT ![p] = v] ELSE cache

\* set, setPowerProfile, setCurveOptimizerAll, setCurveOptimizerCore: the cache
\* takes the value before the SMU is asked.
CacheAfter(cache, p, v) == IF p \in DOMAIN cache THEN [cache EXCEPT ![p] = v] ELSE cache

\* Options reported in watts and amperes, as floating point: times 1000 and
\* cut to an integer, a value may come back less by one.
InThousandths ==
    {"apuSlow", "stapmLimit", "slowLimit", "fastLimit", "vrmCurrent", "vrmSocCurrent",
     "vrmMaxCurrent", "vrmSocMaxCurrent"}

AsReported(p, v, short) == IF p.slot \in InThousandths /\ short /\ v > 0 THEN v - 1 ELSE v

\* get, fillPackageData, fillCoreData: the table as it was last read, or else
\* the cache: an option of the cache that was never asked for shows as -1.
OptionShown(p, table, cache, short, invalid) ==
    IF p \in DOMAIN table THEN AsReported(p, table[p], short)
    ELSE IF p \in DOMAIN cache THEN cache[p] ELSE invalid
===============================================================================
