---------------------------- MODULE MCDeviceSettings ----------------------------
(* DeviceSettings on small machines, each with a part of the settings.       *)
EXTENDS DeviceSettings, TLC

Bare ==
    [amd |-> FALSE, intel |-> "other", cpus |-> {0}, siblings |-> {}, cores |-> {}, devices |-> {}, intelGpus |-> {},
     amdGpus |-> {}, found |-> {}, readable |-> {}, windows |-> <<>>, places |-> {},
     packets |-> {}]

BareAMD == [Bare EXCEPT !.amd = TRUE, !.intel = "none"]

\* A packet that holds, for each slot of `values`, its value for every index.
Packet(hw, values) ==
    [p \in hw.places |->
        IF p.slot \in DOMAIN values THEN values[p.slot] ELSE NoValue]

With(hw, valueses) ==
    LET found == [hw EXCEPT !.places = PlacesOn(hw)]
    IN  [found EXCEPT !.packets = {Packet(found, v) : v \in valueses}]

\* One CPU under the driver for AMD P-states.
PStates ==
    With([BareAMD EXCEPT !.found = {"cpufreq", "amd_pstate", "coreIdxList"}],
         {[scalingMinFreq |-> 1, scalingMaxFreq |-> 1, scalingGovernor |-> 1, pstateStatus |-> 1, epp |-> 1],
          [scalingGovernor |-> 1, epp |-> 1],
          [scalingGovernor |-> 1, pstateStatus |-> 0, epp |-> 1]})

\* Two threads of a core with registers of AMD.
Threads ==
    With([BareAMD EXCEPT !.cpus = {0, 1}, !.siblings = {1},
                      !.found = {"msr", "AMD_CPPC", "smt", "coreIdxList"}],
         {[cppcEnableBit |-> 1, cppcRequest |-> 1, smtState |-> 1, cpuOnlineStatus |-> 1],
          [cppcEnableBit |-> 0, cppcRequest |-> 1, smtState |-> 1, cpuOnlineStatus |-> 0],
          [cppcRequest |-> 1, smtState |-> 0, cpuOnlineStatus |-> 1]})

\* Two CPUs that can be parked, with frequencies, under a driver that is not AMD's.
Parking ==
    With([Bare EXCEPT !.cpus = {0, 1}, !.found = {"cpufreq", "coreIdxList"}],
         {[scalingMinFreq |-> 1, scalingGovernor |-> 1, cpuOnlineStatus |-> 1],
          [scalingMaxFreq |-> 1, cpuOnlineStatus |-> 0]})

\* Options of the SMU: one it reports, one it does not, a profile, two cores.
SMUCores ==
    With([BareAMD EXCEPT !.cores = {0, 1}, !.readable = {"stapmLimit"},
                      !.found = {"msr", "ryzenadj", "stapmLimit", "tctlTemp", "CCLK_SETPOINT",
                                 "CCLK_BUSY", "COPER", "COALL", "coreIdxList"}],
         {[stapmLimit |-> 15001, tctlTemp |-> 1, powerProfile |-> 1, coreCurveOptimizer |-> -1],
          [powerProfile |-> 0, coreCurveOptimizer |-> 0]})

\* One offset for all cores, a slow limit, and an APU limit the SMU does not take.
SMUAll ==
    With([BareAMD EXCEPT !.cores = {0}, !.readable = {"slowLimit"},
                      !.found = {"msr", "AMD_HWPSTATE", "ryzenadj", "slowLimit", "COALL", "coreIdxList"}],
         {[slowLimit |-> 1, curveOptimizer |-> -1, pstateCmd |-> 1],
          [apuSlow |-> 1, curveOptimizer |-> 1, pstateCmd |-> 0]})

\* A machine whose firmware counts cores in another way.
Miscounted ==
    With([BareAMD EXCEPT !.found = {"msr", "AMD_CORE_PERFORMANCE_BOOST", "current_governor"}],
         {[corePerfBoost |-> 1, cpuIdleGovernor |-> 1]})

\* HWP, the limits in memory, and a frequency driver that writes requests too.
HWP ==
    With([Bare EXCEPT !.intel = "TigerLakeU",
                      !.found = {"msr", "hwp", "hwpRequestPkg", "mchbar", "cpufreq", "coreIdxList"}],
         {[hwpEnable |-> 1, hwpRequestPkg |-> 1279, hwpRequest |-> 1, mchbarPkgRaplLimit |-> 1],
          [hwpEnable |-> 0, hwpRequest |-> 12345, scalingGovernor |-> 1]})

\* Limits in eighths of a watt, with times of which one is cut and one is left out.
Limits ==
    With([Bare EXCEPT !.intel = "TigerLakeU", !.windows = (3 :> 2),
                      !.found = {"msr", "mchbar", "coreIdxList"}],
         {[pkgPowerLimit |-> 15100, pkgPowerTime |-> 3, mchbarPkgRaplLimit |-> 124,
           mchbarPkgRaplTime |-> 5],
          [pkgPowerLimit |-> 15000, pkgPowerTime |-> 0]})

\* Voltage offsets, which are remembered and not read.
Undervolts ==
    With([Bare EXCEPT !.intel = "IceLakeU", !.found = {"msr", "epb", "coreIdxList"}],
         {[undervoltCPU |-> -1, undervoltGPU |-> 0, undervoltCache |-> -1, energyPerfBias |-> 1],
          [undervoltCPU |-> 0, undervoltGPU |-> 0, undervoltCache |-> 0]})

\* A register of the cores, of which the second can be parked.
Cores ==
    With([Bare EXCEPT !.intel = "SandyBridge", !.cpus = {0, 1}, !.cores = {0, 1},
                      !.found = {"msr", "turboBoost", "programmableRatioLimit", "coreIdxList"}],
         {[pkgCstConfigControl |-> 1, turboRatioLimit |-> 1, cpuOnlineStatus |-> 1],
          [pkgCstConfigControl |-> 0, miscProcFeatures |-> 1, cpuOnlineStatus |-> 0]})

Devices ==
    With([Bare EXCEPT !.devices = {0, 1}, !.found = {"current_governor", "coreIdxList"}],
         {[scheduler |-> 1, control |-> 1, cpuIdleGovernor |-> 1], [scheduler |-> 0]})

Graphics(found) ==
    With([Bare EXCEPT !.intelGpus = {0}, !.amdGpus = {1}, !.found = found \cup {"coreIdxList"}],
         {[gpuMinFreq |-> 1, gpuMaxFreq |-> 1, gpuBoostFreq |-> 1, dpmLevel |-> Manual, sclk |-> 1, powerDpmState |-> 1],
          [gpuMinFreq |-> 0, gpuMaxFreq |-> 0, dpmLevel |-> 0, sclk |-> 1]})

IntelGraphics == Graphics({"gt_RP0_freq_mhz", "gt_boost_freq_mhz", "power_dpm_state"})
AMDGraphics == Graphics({"power_dpm_force_performance_level", "pp_od_clk_voltage"})
NoClocks == Graphics({"power_dpm_force_performance_level"})

MCMachines ==
    {PStates, Threads, Parking, SMUCores, SMUAll, Miscounted, HWP, Limits, Undervolts, Cores, Devices,
     IntelGraphics, AMDGraphics, NoClocks}
===============================================================================
