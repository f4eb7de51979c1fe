------------------------------- MODULE IntelCPU -------------------------------
(***************************************************************************)
(* The settings of an Intel CPU: registers of the package, of the cores    *)
(* and of every logical CPU, the voltage offsets its mailbox takes, and    *)
(* the power limits in memory (MCHBAR).  The mailbox is never asked what   *)
(* it holds: fivr is what was last sent to it.  A value is in the units of *)
(* packets, and what a register holds is the value it stands for.  Power   *)
(* limits are taken to count eighths of a watt, the unit the registers     *)
(* with units of their own mostly report.                                  *)
(***************************************************************************)
EXTENDS Settings

Package(turn, slot, feature, error) == Row(1, turn, slot, feature, error)

\* IntelCPU::applyPackageSettings
IntelPackageRows ==
    {Package(1, "vrCurrentCfg", "INTEL_VR_CURRENT_CFG", "W_VR_CURRENT_CFG"),
     Package(2, "pp1CurrentCfg", "INTEL_PP1_CURRENT_CFG", "W_PP1_CURRENT_CFG"),
     Package(3, "pp0Priority", "INTEL_CPU_POWER_BALANCE", "W_CPU_BLNC"),
     Package(4, "pp1Priority", "INTEL_GPU_POWER_BALANCE", "W_GPU_BLNC"),
     Package(5, "energyPerfBias", "INTEL_ENERGY_PERF_BIAS", "W_ENERGY_PERF_BIAS"),
     Package(6, "turboRatioLimit", "INTEL_TURBO_RATIO_LIMIT_RW", "W_TURBO_RATIO_LIMIT"),
     Package(7, "miscProcFeatures", "INTEL_IA32_MISC_ENABLE_GROUP", "W_MISC_PROC_FEATURES"),
     Package(8, "powerCtl", "INTEL_POWER_CTL", "W_POWER_CTL"),
     Package(9, "miscPwrMgmt", "INTEL_MISC_PWR_MGMT", "W_MISC_PWR_MGMT"),
     Package(10, "undervoltCPU", "INTEL_UNDERVOLT_CPU", "W_CPU_UV"),
     Package(11, "undervoltGPU", "INTEL_UNDERVOLT_GPU", "W_GPU_UV"),
     Package(12, "undervoltCache", "INTEL_UNDERVOLT_CACHE", "W_CACHE_UV"),
     Package(13, "undervoltUnslice", "INTEL_UNDERVOLT_UNSLICE", "W_UNSLICE_UV"),
     Package(14, "undervoltSysAgent", "INTEL_UNDERVOLT_SYSAGENT", "W_SA_UV"),
     Package(15, "turboPowerCurrentLimit", "INTEL_TURBO_POWER_CURRENT_LIMIT_RW",
             "W_TURBO_POWER_CURRENT_LIMIT"),
     Package(16, "pkgPowerLimit", "INTEL_PKG_POWER_LIMIT", "W_PKG_POWER_LIMIT"),
     Package(17, "pkgPowerTime", "INTEL_PKG_POWER_LIMIT", "W_PKG_POWER_LIMIT"),
     Package(18, "hwpEnable", "INTEL_HWP_GROUP", "W_HWP_ENABLE"),
     Package(19, "hwpRequestPkg", "INTEL_HWP_REQ_PKG", "W_HWP_REQ_PKG"),
     Package(20, "hwpPkgCtlPolarity", "INTEL_HWP_CTL", "W_HWP_CTL")}

\* applyCoreSettings, applyThreadSettings, MCHBAR::applySettings
IntelCoreRows ==
    {Row(2, 1, "pkgCstConfigControl", "INTEL_PKG_CST_CONFIG_CONTROL", "W_PKG_CST_CONFIG_CONTROL")}
IntelThreadRows == {Row(3, 1, "hwpRequest", "INTEL_HWP_GROUP", "W_HWP_REQ")}
MCHBARRows ==
    {Row(4, 1, "mchbarPkgRaplLimit", "INTEL_MCHBAR_PKG_RAPL_LIMIT", "W_POWER_LIMIT_MCHBAR"),
     Row(4, 2, "mchbarPkgRaplTime", "INTEL_MCHBAR_PKG_RAPL_LIMIT", "W_POWER_LIMIT_MCHBAR")}

UndervoltSlots ==
    {"undervoltCPU", "undervoltGPU", "undervoltCache", "undervoltUnslice", "undervoltSysAgent"}

\* setupCPUModelRegisters, as features
SinceSandyBridge ==
    {"INTEL_PKG_POWER_LIMIT", "INTEL_VR_CURRENT_CFG", "INTEL_CPU_POWER_BALANCE",
     "INTEL_GPU_POWER_BALANCE", "INTEL_POWER_CTL"}

ModelFeatures ==
    [Clarkdale   |-> {"INTEL_MISC_PWR_MGMT", "INTEL_TURBO_POWER_CURRENT_LIMIT", "INTEL_POWER_CTL"},
     SandyBridge |-> SinceSandyBridge \cup {"INTEL_MISC_PWR_MGMT", "INTEL_PP1_CURRENT_CFG",
                                            "INTEL_PKG_CST_CONFIG_CONTROL"},
     IvyBridge   |-> SinceSandyBridge \cup {"INTEL_MISC_PWR_MGMT", "INTEL_PP1_CURRENT_CFG",
                                            "INTEL_PKG_CST_CONFIG_CONTROL"},
     IceLakeU    |-> SinceSandyBridge \cup {"INTEL_MISC_PWR_MGMT", "INTEL_UNDERVOLT_CPU",
                                            "INTEL_UNDERVOLT_GPU", "INTEL_UNDERVOLT_CACHE",
                                            "INTEL_UNDERVOLT_SYSAGENT"},
     TigerLakeU  |-> SinceSandyBridge \cup {"INTEL_MISC_PWR_MGMT"},
     AlderLakeN  |-> SinceSandyBridge,
     LunarLake   |-> SinceSandyBridge \cup {"INTEL_PKG_CST_CONFIG_CONTROL"},
     other       |-> {}]

\* MCHBAR::init, getFeatures: with a base address and access to memory.
MCHBARFeatures(hw) ==
    IF hw.intel \in {"IvyBridge", "IceLakeU", "TigerLakeU", "LunarLake"} /\ "mchbar" \in hw.found
    THEN {"INTEL_MCHBAR_PKG_RAPL_LIMIT"} ELSE {}

\* Registers that CPUID reports; those for HWP come with it only.
CPUIDFeatures(hw) ==
    {f \in {"INTEL_ENERGY_PERF_BIAS", "INTEL_IA32_MISC_ENABLE_GROUP", "INTEL_HWP_GROUP",
            "INTEL_HWP_REQ_PKG", "INTEL_HWP_CTL"} :
        CASE f = "INTEL_ENERGY_PERF_BIAS"       -> "epb" \in hw.found
          [] f = "INTEL_IA32_MISC_ENABLE_GROUP" -> hw.found \cap {"turboBoost", "speedStep"} # {}
          [] f = "INTEL_HWP_GROUP"              -> "hwp" \in hw.found
          [] f = "INTEL_HWP_REQ_PKG"            -> {"hwp", "hwpRequestPkg"} \subseteq hw.found
          [] f = "INTEL_HWP_CTL"                -> {"hwp", "hwpCtl"} \subseteq hw.found}

\* Limits of the turbo can be written where the platform says so.
ProgrammableFeatures(hw) ==
    {f \in {"INTEL_TURBO_RATIO_LIMIT_RW", "INTEL_TURBO_POWER_CURRENT_LIMIT_RW"} :
        IF f = "INTEL_TURBO_RATIO_LIMIT_RW"
        THEN hw.intel # "other" /\ "programmableRatioLimit" \in hw.found
        ELSE /\ "INTEL_TURBO_POWER_CURRENT_LIMIT" \in ModelFeatures[hw.intel]
             /\ "programmableTDPLimit" \in hw.found}

\* getFeatures: nothing without the registers of CPU 0.
IntelFeatures(hw) ==
    IF hw.intel = "none" \/ "msr" \notin hw.found THEN {}
    ELSE ModelFeatures[hw.intel] \cup CPUIDFeatures(hw) \cup ProgrammableFeatures(hw)
             \cup MCHBARFeatures(hw)

IntelPlaces(hw) ==
    PlacesOf(IntelPackageRows, IntelFeatures(hw), {0})
        \cup PlacesOf(IntelCoreRows, IntelFeatures(hw), hw.cores)
        \cup PlacesOf(IntelThreadRows, IntelFeatures(hw), hw.cpus)
        \cup PlacesOf(MCHBARRows, IntelFeatures(hw), {0})

\* Registers that fault until HWP is on.
IsHWP(p) == p.slot \in {"hwpRequestPkg", "hwpPkgCtlPolarity", "hwpRequest"}

\* prepareUVData: the mailbox takes offsets downwards, whatever the sign, in
\* steps finer than the millivolt of a packet.
Lowered(v) == IF v > 0 THEN -v ELSE v

\* Registers that count eighths of a watt or an ampere, of 125 thousandths each.
EighthSlots ==
    {"vrCurrentCfg", "pp1CurrentCfg", "turboPowerCurrentLimit", "pkgPowerLimit",
     "mchbarPkgRaplLimit"}

\* faulty variant: the nearest eighth, not the one below
InEighthsNearest(v) == v + 62 - ((v + 62) % 125)

InEighths(v) == v - (v % 125)

\* USecToRawHWPActivityWindow: a request keeps seven bits and a power of ten.
RequestSlots == {"hwpRequest", "hwpRequestPkg"}

Tens == {1, 10, 100, 1000, 10000, 100000, 1000000, 10000000}

LongestWindow == 1279999999

ActivityWindow(us) ==
    LET kept == CHOOSE t \in Tens : us \div t < 128 /\ \A u \in Tens : us \div u < 128 => t <= u
    IN  us - (us % kept)

\* getRawTimeWindow: the time of a power limit that its register can express,
\* in floating point, is written; another one is left as it is.
WindowSlots == {"pkgPowerTime", "mchbarPkgRaplTime"}

TimeWindow(hw, v, before) == IF v \in DOMAIN hw.windows THEN hw.windows[v] ELSE before

\* A limit and its time are one write.
WrittenWith(p) ==
    CASE p.slot = "pkgPowerLimit" -> {"pkgPowerTime"}
      [] p.slot = "mchbarPkgRaplLimit" -> {"mchbarPkgRaplTime"}
      [] OTHER -> {}
===============================================================================
