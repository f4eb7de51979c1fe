------------------------------- MODULE OSLinux -------------------------------
(***************************************************************************)
(* The settings Linux takes through files of sysfs, and what the kernel    *)
(* does with them.  A value other than 0 and 1 is one of a file's own      *)
(* values.  For files that switch something, 1 is on: a CPU online, SMT    *)
(* on, the driver of AMD P-states in charge (active).                      *)
(***************************************************************************)
EXTENDS Settings

\* setBlockDevices and setMiscPMDevices: lists of devices, whatever the features
BlockRows == {Row(6, 1, "scheduler", "always", "W_BLOCK_DEVICES")}
MiscPMRows == {Row(7, 1, "control", "always", "W_MISC_PM_DEVICES")}

\* OSLinux::applyPackageSettings
OSPackageRows ==
    {Row(8, 1, "smtState", "CPU_SMT_SYSFS", "W_CPU_SMT"),
     Row(8, 2, "cpuIdleGovernor", "CPUIDLE_GOV_SYSFS", "W_CPU_IDLE_GOV")}

\* applyIntelGPUSettings, applyAMDGPUSettings: one loop over all cards.
IntelGPURows ==
    {Row(9, 1, "gpuMinFreq", "INTEL_GPU_RPS_FREQ_SYSFS", "W_INTEL_GPU_FREQ"),
     Row(9, 2, "gpuMaxFreq", "INTEL_GPU_RPS_FREQ_SYSFS", "W_INTEL_GPU_FREQ"),
     Row(9, 3, "gpuBoostFreq", "INTEL_GPU_BOOST_SYSFS", "W_INTEL_GPU_BOOST")}

AMDGPURows ==
    {Row(9, 1, "dpmLevel", "AMD_GPU_DPM_FORCE_PERF_LEVEL_SYSFS", "W_AMD_GPU_DPM_FORCE_PERF_LEVEL"),
     Row(9, 2, "sclk", "AMD_GPU_DPM_FORCE_PERF_LEVEL_SYSFS", "W_AMD_GPU_DPM_FORCE_PERF_LEVEL"),
     Row(9, 3, "powerDpmState", "AMD_GPU_POWER_DPM_STATE_SYSFS", "W_AMD_GPU_POWER_DPM_STATE")}

\* faulty variant: the governor is written where the preference should be
OSThreadRowsGovernorLate ==
    {Row(10, 1, "cpuOnlineStatus", "CPU_PARK_SYSFS", "W_CPUS_ONLINE"),
     Row(10, 2, "scalingMinFreq", "CPUFREQ_SYSFS", "W_CPU_FREQ_MIN_MAX"),
     Row(10, 3, "scalingMaxFreq", "CPUFREQ_SYSFS", "W_CPU_FREQ_MIN_MAX"),
     Row(13, 1, "scalingGovernor", "CPUFREQ_SYSFS", "W_CPU_SCALING_GOV")}

\* OSLinux::applyThreadSettings
OSThreadRows ==
    {Row(10, 1, "cpuOnlineStatus", "CPU_PARK_SYSFS", "W_CPUS_ONLINE"),
     Row(10, 2, "scalingMinFreq", "CPUFREQ_SYSFS", "W_CPU_FREQ_MIN_MAX"),
     Row(10, 3, "scalingMaxFreq", "CPUFREQ_SYSFS", "W_CPU_FREQ_MIN_MAX"),
     Row(10, 4, "scalingGovernor", "CPUFREQ_SYSFS", "W_CPU_SCALING_GOV")}

\* applyAMDPackageSettings, applyAMDThreadSettings
OSAMDPackageRows == {Row(11, 1, "pstateStatus", "AMD_PSTATE_SYSFS", "W_AMDPSTATE_SYSFS")}
OSAMDThreadRows == {Row(12, 1, "epp", "AMD_PSTATE_SYSFS", "W_AMDPSTATE_EPP_SYSFS")}

\* getCPUFeatures, getAMDCPUFeatures
OSCPUFeatures(hw) ==
    {f \in {"CPU_PARK_SYSFS", "CPU_SMT_SYSFS", "CPUFREQ_SYSFS", "CPUIDLE_GOV_SYSFS",
            "AMD_PSTATE_SYSFS"} :
        CASE f = "CPU_PARK_SYSFS"    -> hw.cpus # {0}
          [] f = "CPU_SMT_SYSFS"     -> hw.cpus # {0} /\ "smt" \in hw.found
          [] f = "CPUFREQ_SYSFS"     -> "cpufreq" \in hw.found
          [] f = "CPUIDLE_GOV_SYSFS" -> "current_governor" \in hw.found
          [] f = "AMD_PSTATE_SYSFS"  -> hw.amd /\ "amd_pstate" \in hw.found}

\* getIntelGPUFeatures: a boost counts only where there are limits.
IntelGPUFeatures(hw) ==
    IF "gt_RP0_freq_mhz" \notin hw.found THEN {}
    ELSE {"INTEL_GPU_RPS_FREQ_SYSFS"}
             \cup (IF "gt_boost_freq_mhz" \in hw.found THEN {"INTEL_GPU_BOOST_SYSFS"} ELSE {})

\* getAMDGPUFeatures: the older file only where the newer one is missing.
AMDGPUFeatures(hw) ==
    IF "power_dpm_force_performance_level" \in hw.found
    THEN {"AMD_GPU_DPM_FORCE_PERF_LEVEL_SYSFS"}
    ELSE IF "power_dpm_state" \in hw.found THEN {"AMD_GPU_POWER_DPM_STATE_SYSFS"} ELSE {}

\* CPU 0 has no file to park it with; setCPUOnlineStatus passes it over.
OSPlaces(hw) ==
    PlacesOf(BlockRows \cup MiscPMRows, {"always"}, hw.devices)
        \cup PlacesOf(OSPackageRows, OSCPUFeatures(hw), {0})
        \cup PlacesOf(IntelGPURows, IntelGPUFeatures(hw), hw.intelGpus)
        \cup PlacesOf(AMDGPURows, AMDGPUFeatures(hw), hw.amdGpus)
        \cup {p \in PlacesOf(OSThreadRows, OSCPUFeatures(hw), hw.cpus) :
                p.slot = "cpuOnlineStatus" => p.index # 0}
        \cup PlacesOf(OSAMDPackageRows, OSCPUFeatures(hw), {0})
        \cup PlacesOf(OSAMDThreadRows, OSCPUFeatures(hw), hw.cpus)

IsDevice(p) == p.slot \in {"scheduler", "control"}
IsCPUFreq(p) == p.slot \in {"scalingMinFreq", "scalingMaxFreq", "scalingGovernor"}

\* Writes that are not tried: a device that was detached, a CPU without a
\* preference.
PassedOverIfMissing(p) == IsDevice(p) \/ p.slot = "epp"

\* setIntelGPUFrequency and setAMDGPUDpmForcePerfLevel give up half way.
GivenUpWith(p) ==
    CASE p.slot = "gpuMinFreq" -> {"gpuMaxFreq"}
      [] p.slot = "dpmLevel" -> {"sclk"}
      [] OTHER -> {}

\* The clocks of a card are written in this performance level only.
Manual == 1

NeedsClockFile(p, v) == p.slot = "dpmLevel" /\ v = Manual

\* getAMDGPUDpmForcePerfLevel: without clocks the level is not shown either.
ShownByFile(hw, p) == p.slot \in {"dpmLevel", "sclk"} => "pp_od_clk_voltage" \in hw.found
===============================================================================
