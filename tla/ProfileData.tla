------------------------------ MODULE ProfileData ------------------------------
(***************************************************************************)
(* A profile on disk is a packet of a client as a row of values: the parts *)
(* of the packet one after the other, each with its version, its fields,   *)
(* the lengths of its lists and the items of these.  Nothing in the row    *)
(* says what a value is: a profile reads back only because reading follows *)
(* writing field by field.  A packet is a function from parts to           *)
(*   head                   the fields of the part, by name                *)
(*   coreData, threadData   sequences of items, likewise by name           *)
(***************************************************************************)
EXTENDS Integers, SequencesExt

CONSTANT NoValue    \* a value that is not valid

Layout(head, core, thread) == [head |-> head, coreData |-> core, threadData |-> thread]

-------------------------------------------------------------------------------
\* What packets are made of.

LinuxData ==
    Layout({"smtState", "cpuIdleGovernor", "blockDevicesQueSched", "miscPMDevices",
            "intelGpuData", "amdGpuData"},
           {}, {"cpuFrequency", "scalingGovernor", "cpuOnlineStatus"})

WindowsData ==
    Layout({"activeScheme", "schemes", "replaceDefaultSchemes", "resetSchemesDefault"}, {}, {})

FanData == Layout({"fanData"}, {}, {})

IntelData ==
    Layout({"pkgPowerLimit", "vrCurrentCfg", "pp1CurrentCfg", "turboPowerCurrentLimit",
            "turboRatioLimit", "miscProcFeatures", "powerCtl", "miscPwrMgmt", "hwpRequestPkg",
            "undervoltData", "pp0Priority", "pp1Priority", "energyPerfBias", "hwpEnable",
            "hwpPkgCtlPolarity", "mchbarPkgRaplLimit"},
           {"pkgCstConfigControl"}, {"hwpRequest"})

\* The head has an offset for all cores, which RyzenAdj::applyPackageSettings
\* applies, and each core one of its own.
AMDData ==
    Layout({"stapmLimit", "fastLimit", "slowLimit", "tctlTemp", "apuSlow", "apuSkinTemp",
            "dgpuSkinTemp", "vrmCurrent", "vrmSocCurrent", "vrmMaxCurrent", "vrmSocMaxCurrent",
            "staticGfxClock", "minGfxClock", "maxGfxClock", "powerProfile", "cppcEnableBit",
            "curveOptimizer"},
           {"curveOptimizer"}, {"cppcRequest", "pstateCmd", "corePerfBoost"})

LinuxAMDData == Layout({"pstateStatus"}, {}, {"epp"})

Fields ==
    [linux |-> LinuxData, windows |-> WindowsData, fan |-> FanData, intel |-> IntelData,
     amd |-> AMDData, linuxAmd |-> LinuxAMDData]

\* Fields a packet has and a profile does not.
UnsavedFields(part) == IF part = "amd" THEN {"curveOptimizer"} ELSE {}

Lists == <<"coreData", "threadData">>

\* The parts of a packet, by the system and the vendor of the CPU.
PartsOf(build) ==
    (IF build.os = "Linux" THEN <<"linux">> ELSE <<"windows">>) \o <<"fan">>
        \o (CASE build.cpu = "Intel" -> <<"intel">>
              [] build.cpu = "AMD"   -> <<"amd">>
              [] OTHER               -> <<>>)
        \o (IF build.cpu = "AMD" /\ build.os = "Linux" THEN <<"linuxAmd">> ELSE <<>>)

\* No fields but those of the part, in lists and outside.
IsPart(part, data) ==
    /\ data = [head |-> data.head, coreData |-> data.coreData,
               threadData |-> data.threadData]
    /\ data.head = [f \in Fields[part].head |-> data.head[f]]
    /\ \A l \in ToSet(Lists) :
         /\ Len(data[l]) \in Nat
         /\ Fields[part][l] = {} => Len(data[l]) = 0
         /\ data[l] = [i \in 1 .. Len(data[l]) |-> [f \in Fields[part][l] |-> data[l][i][f]]]

IsPacket(build, packet) ==
    /\ packet = [part \in ToSet(PartsOf(build)) |-> packet[part]]
    /\ \A part \in ToSet(PartsOf(build)) : IsPart(part, packet[part])

\* What a profile holds of a packet.
Saved(packet) ==
    [part \in DOMAIN packet |->
        [packet[part] EXCEPT !.head =
            [f \in DOMAIN @ |-> IF f \in UnsavedFields(part) THEN NoValue ELSE @[f]]]]

-------------------------------------------------------------------------------
\* createProfileFromPacket: each part names the fields it writes, in turn.

SerializeLinuxData ==
    Layout(<<"smtState", "cpuIdleGovernor", "blockDevicesQueSched", "miscPMDevices",
             "intelGpuData", "amdGpuData">>,
           <<>>, <<"cpuFrequency", "scalingGovernor", "cpuOnlineStatus">>)

SerializeWindowsData ==
    Layout(<<"activeScheme", "schemes", "replaceDefaultSchemes", "resetSchemesDefault">>,
           <<>>, <<>>)

SerializeFanData == Layout(<<"fanData">>, <<>>, <<>>)

SerializeIntelData ==
    Layout(<<"pkgPowerLimit", "vrCurrentCfg", "pp1CurrentCfg", "turboPowerCurrentLimit",
             "turboRatioLimit", "miscProcFeatures", "powerCtl", "miscPwrMgmt", "hwpRequestPkg",
             "undervoltData", "pp0Priority", "pp1Priority", "energyPerfBias", "hwpEnable",
             "hwpPkgCtlPolarity", "mchbarPkgRaplLimit">>,
           <<"pkgCstConfigControl">>, <<"hwpRequest">>)

SerializeAMDData ==
    Layout(<<"stapmLimit", "fastLimit", "slowLimit", "tctlTemp", "apuSlow", "apuSkinTemp",
             "dgpuSkinTemp", "vrmCurrent", "vrmSocCurrent", "vrmMaxCurrent", "vrmSocMaxCurrent",
             "staticGfxClock", "minGfxClock", "maxGfxClock", "powerProfile", "cppcEnableBit">>,
           <<"curveOptimizer">>, <<"cppcRequest", "pstateCmd", "corePerfBoost">>)

SerializeLinuxAMDData == Layout(<<"pstateStatus">>, <<>>, <<"epp">>)

WrittenLayouts ==
    [linux |-> SerializeLinuxData, windows |-> SerializeWindowsData, fan |-> SerializeFanData,
     intel |-> SerializeIntelData, amd |-> SerializeAMDData, linuxAmd |-> SerializeLinuxAMDData]

\* Lists a part has: those whose items have fields.
ListsOf(layout) ==
    (IF layout.coreData = <<>> THEN <<>> ELSE <<"coreData">>)
        \o (IF layout.threadData = <<>> THEN <<>> ELSE <<"threadData">>)

DataVersion == 1

Values(fields, item) == [i \in DOMAIN fields |-> item[fields[i]]]

Items(fields, list) == FlattenSeq([i \in DOMAIN list |-> Values(fields, list[i])])

SerializePart(layout, data) ==
    LET lists == ListsOf(layout)
    IN  <<DataVersion>> \o Values(layout.head, data.head)
            \o [i \in DOMAIN lists |-> Len(data[lists[i]])]
            \o FlattenSeq([i \in DOMAIN lists |-> Items(layout[lists[i]], data[lists[i]])])

Serialize(build, packet) ==
    LET parts == PartsOf(build)
        row(part) == SerializePart(WrittenLayouts[part], packet[part])
    IN  FlattenSeq([i \in DOMAIN parts |-> row(parts[i])])

-------------------------------------------------------------------------------
\* getDiskData: each part names the fields it reads, in turn.  Versions of parts
\* are read and not looked at.

DeserializeLinuxData ==
    Layout(<<"smtState", "cpuIdleGovernor", "blockDevicesQueSched", "miscPMDevices",
             "intelGpuData", "amdGpuData">>,
           <<>>, <<"cpuFrequency", "scalingGovernor", "cpuOnlineStatus">>)

DeserializeWindowsData ==
    Layout(<<"activeScheme", "schemes", "replaceDefaultSchemes", "resetSchemesDefault">>,
           <<>>, <<>>)

DeserializeFanData == Layout(<<"fanData">>, <<>>, <<>>)

\* faulty variant: two fields are read in the wrong order
DeserializeIntelDataSwapped ==
    Layout(<<"pkgPowerLimit", "vrCurrentCfg", "pp1CurrentCfg", "turboPowerCurrentLimit",
             "turboRatioLimit", "miscProcFeatures", "powerCtl", "miscPwrMgmt", "hwpRequestPkg",
             "undervoltData", "pp1Priority", "pp0Priority", "energyPerfBias", "hwpEnable",
             "hwpPkgCtlPolarity", "mchbarPkgRaplLimit">>,
           <<"pkgCstConfigControl">>, <<"hwpRequest">>)

DeserializeIntelData ==
    Layout(<<"pkgPowerLimit", "vrCurrentCfg", "pp1CurrentCfg", "turboPowerCurrentLimit",
             "turboRatioLimit", "miscProcFeatures", "powerCtl", "miscPwrMgmt", "hwpRequestPkg",
             "undervoltData", "pp0Priority", "pp1Priority", "energyPerfBias", "hwpEnable",
             "hwpPkgCtlPolarity", "mchbarPkgRaplLimit">>,
           <<"pkgCstConfigControl">>, <<"hwpRequest">>)

DeserializeAMDData ==
    Layout(<<"stapmLimit", "fastLimit", "slowLimit", "tctlTemp", "apuSlow", "apuSkinTemp",
             "dgpuSkinTemp", "vrmCurrent", "vrmSocCurrent", "vrmMaxCurrent", "vrmSocMaxCurrent",
             "staticGfxClock", "minGfxClock", "maxGfxClock", "powerProfile", "cppcEnableBit">>,
           <<"curveOptimizer">>, <<"cppcRequest", "pstateCmd", "corePerfBoost">>)

DeserializeLinuxAMDData == Layout(<<"pstateStatus">>, <<>>, <<"epp">>)

ReadLayouts ==
    [linux |-> DeserializeLinuxData, windows |-> DeserializeWindowsData,
     fan |-> DeserializeFanData, intel |-> DeserializeIntelData, amd |-> DeserializeAMDData,
     linuxAmd |-> DeserializeLinuxAMDData]

\* A stream that has ended yields lists without items and values that are not
\* valid.
At(stream, i, default) == IF i \in DOMAIN stream THEN stream[i] ELSE default

\* The length of list l of a part that starts after position pos.
LengthAt(layout, l, stream, pos) ==
    LET lists == ListsOf(layout)
        where == {i \in DOMAIN lists : lists[i] = l}
    IN  IF where = {} THEN 0
        ELSE At(stream, pos + 1 + Len(layout.head) + (CHOOSE i \in where : TRUE), 0)

SizeAt(layout, l, stream, pos) == LengthAt(layout, l, stream, pos) * Len(layout[l])

\* Where list l of the part begins, and where the part ends.
StartAt(layout, l, stream, pos) ==
    pos + 1 + Len(layout.head) + Len(ListsOf(layout))
        + (IF l = "threadData" THEN SizeAt(layout, "coreData", stream, pos) ELSE 0)

EndAt(layout, stream, pos) ==
    StartAt(layout, "threadData", stream, pos) + SizeAt(layout, "threadData", stream, pos)

\* An item that is made with fields that are not valid, of which some are read
\* after pos.
ItemAt(made, fields, stream, pos) ==
    [f \in made |->
        IF f \in ToSet(fields)
        THEN At(stream, pos + (CHOOSE i \in DOMAIN fields : fields[i] = f), NoValue)
        ELSE NoValue]

ListAt(made, layout, l, stream, pos) ==
    [i \in 1 .. LengthAt(layout, l, stream, pos) |->
        ItemAt(made[l], layout[l], stream,
               StartAt(layout, l, stream, pos) + (i - 1) * Len(layout[l]))]

DeserializePart(made, layout, stream, pos) ==
    [head       |-> ItemAt(made.head, layout.head, stream, pos + 1),
     coreData   |-> ListAt(made, layout, "coreData", stream, pos),
     threadData |-> ListAt(made, layout, "threadData", stream, pos)]

Deserialize(build, stream) ==
    LET parts == PartsOf(build)
        end[i \in 0 .. Len(parts)] ==
            IF i = 0 THEN 0 ELSE EndAt(ReadLayouts[parts[i]], stream, end[i - 1])
    IN  [part \in ToSet(parts) |->
            LET i == CHOOSE j \in DOMAIN parts : parts[j] = part
            IN  DeserializePart(Fields[part], ReadLayouts[part], stream, end[i - 1])]

-------------------------------------------------------------------------------
\* load for a DaemonPacket: a profile over what the device has now.  Each part
\* names the fields it copies.

LoadLinuxProfile ==
    Layout({"smtState", "cpuIdleGovernor", "miscPMDevices", "blockDevicesQueSched",
            "intelGpuData", "amdGpuData"},
           {}, {"cpuFrequency", "scalingGovernor", "cpuOnlineStatus"})

LoadWindowsProfile ==
    Layout({"activeScheme", "schemes", "replaceDefaultSchemes", "resetSchemesDefault"}, {}, {})

LoadFanProfile == Layout({"fanData"}, {}, {})

LoadIntelProfile ==
    Layout({"pkgPowerLimit", "vrCurrentCfg", "pp1CurrentCfg", "turboPowerCurrentLimit",
            "turboRatioLimit", "miscProcFeatures", "powerCtl", "miscPwrMgmt", "hwpRequestPkg",
            "undervoltData", "pp0Priority", "pp1Priority", "energyPerfBias", "hwpEnable",
            "hwpPkgCtlPolarity", "mchbarPkgRaplLimit"},
           {"pkgCstConfigControl"}, {"hwpRequest"})

\* faulty variant: a field of each thread is forgotten
LoadAMDProfileShort ==
    Layout({"stapmLimit", "fastLimit", "slowLimit", "tctlTemp", "apuSlow", "apuSkinTemp",
            "dgpuSkinTemp", "vrmCurrent", "vrmSocCurrent", "vrmMaxCurrent", "vrmSocMaxCurrent",
            "staticGfxClock", "minGfxClock", "maxGfxClock", "powerProfile", "cppcEnableBit"},
           {"curveOptimizer"}, {"cppcRequest", "pstateCmd"})

LoadAMDProfile ==
    Layout({"stapmLimit", "fastLimit", "slowLimit", "tctlTemp", "apuSlow", "apuSkinTemp",
            "dgpuSkinTemp", "vrmCurrent", "vrmSocCurrent", "vrmMaxCurrent", "vrmSocMaxCurrent",
            "staticGfxClock", "minGfxClock", "maxGfxClock", "powerProfile", "cppcEnableBit"},
           {"curveOptimizer"}, {"cppcRequest", "pstateCmd", "corePerfBoost"})

LoadLinuxAMDProfile == Layout({"pstateStatus"}, {}, {"epp"})

CopiedFields ==
    [linux |-> LoadLinuxProfile, windows |-> LoadWindowsProfile, fan |-> LoadFanProfile,
     intel |-> LoadIntelProfile, amd |-> LoadAMDProfile, linuxAmd |-> LoadLinuxAMDProfile]

\* Maps whose entries are copied one by one, if the device has them.
KeyedFields == {"blockDevicesQueSched", "intelGpuData", "amdGpuData"}

CopyField(f, profile, packet) ==
    IF f \notin KeyedFields THEN profile[f]
    ELSE [k \in DOMAIN packet[f] |-> IF k \in DOMAIN profile[f] THEN profile[f][k] ELSE packet[f][k]]

CopyItem(copied, profile, packet) ==
    [f \in DOMAIN packet |-> IF f \in copied THEN CopyField(f, profile, packet) ELSE packet[f]]

CopyList(copied, profile, packet) ==
    [i \in DOMAIN packet |->
        IF i \in DOMAIN profile THEN CopyItem(copied, profile[i], packet[i]) ELSE packet[i]]

CopyPart(copied, profile, packet) ==
    [head       |-> CopyItem(copied.head, profile.head, packet.head),
     coreData   |-> CopyList(copied.coreData, profile.coreData, packet.coreData),
     threadData |-> CopyList(copied.threadData, profile.threadData, packet.threadData)]

SameSizes(profile, packet) == \A l \in ToSet(Lists) : Len(profile[l]) = Len(packet[l])

\* faulty variant: sizes are not compared
CopyUnchecked(profile, packet, refused) ==
    [part \in DOMAIN packet |-> CopyPart(CopiedFields[part], profile[part], packet[part])]

\* A packet that was overwritten in part when a size differs is thrown away by
\* the caller.
Copy(profile, packet, refused) ==
    IF \A part \in DOMAIN packet : SameSizes(profile[part], packet[part])
    THEN [part \in DOMAIN packet |-> CopyPart(CopiedFields[part], profile[part], packet[part])]
    ELSE refused

===============================================================================
