-------------------------------- MODULE AMDCPU --------------------------------
(* The settings of an AMD CPU: registers of the package and of every logical *)
(* CPU, and what RyzenAdj offers.  CPURegisters models a write of a          *)
(* register, CPUAccess how a CPU's registers are opened.                     *)
EXTENDS RyzenAdj

\* AMDCPU::applyPackageSettings
AMDPackageRows == {Row(1, 1, "cppcEnableBit", "AMD_CPPC", "W_AMD_CPPC_ENBL_BIT")}

\* AMDCPU::applyThreadSettings
AMDThreadRows ==
    {Row(3, 1, "pstateCmd", "AMD_HWPSTATE", "W_AMD_HWPSTATE_CMD"),
     Row(3, 2, "corePerfBoost", "AMD_CORE_PERFORMANCE_BOOST", "W_AMD_CORE_PERFORMANCE_BOOST"),
     Row(3, 3, "cppcRequest", "AMD_CPPC", "W_AMD_CPPC_REQ")}

\* CPUID says which registers there are.
RegisterFeatures(hw) == hw.found \cap {"AMD_HWPSTATE", "AMD_CORE_PERFORMANCE_BOOST", "AMD_CPPC"}

\* getFeatures: without the registers of CPU 0, or without RyzenAdj, only
\* part of them, once and for all.
AMDFeatures(hw) ==
    IF ~hw.amd \/ "msr" \notin hw.found THEN {}
    ELSE RegisterFeatures(hw) \cup (IF "ryzenadj" \in hw.found THEN RyFeatures(hw) ELSE {})

AMDPlaces(hw) ==
    PlacesOf(AMDPackageRows, AMDFeatures(hw), {0})
        \cup PlacesOf(AMDThreadRows, AMDFeatures(hw), hw.cpus)
        \cup PlacesOf(RyPackageRows, AMDFeatures(hw), {0})
        \cup PlacesOf(RyCoreRows, AMDFeatures(hw), hw.cores)
===============================================================================
