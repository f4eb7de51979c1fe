----------------------------- MODULE DeviceSettings -----------------------------
(***************************************************************************)
(* Device::applySettings and Device::fillPacketDeviceData on Linux: a      *)
(* packet is written place by place, CPU registers first, then the options *)
(* of the SMU, then the files of the kernel, and read back for clients.    *)
(* Any write can be refused; the kernel changes some settings by itself    *)
(* when others are written; CPUs and devices come and go.  DaemonService   *)
(* takes what applySettings returns at its word: this module says what     *)
(* that word is worth.                                                     *)
(***************************************************************************)
EXTENDS AMDCPU, IntelCPU, OSLinux

CONSTANTS
    Machines,   \* the machines considered
    NoValue     \* a value that is not valid, or an option of the SMU to ignore:
                \* elsewhere a value to ignore is written like any other

\* Features are found once, when Device is made.
PlacesOn(hw) == AMDPlaces(hw) \cup IntelPlaces(hw) \cup OSPlaces(hw)

ASSUME NoValueAssumption == NoValue \notin Int

ASSUME MachinesAssumption ==
    \A hw \in Machines :
        /\ DOMAIN hw = MachineFields
        /\ hw.intel = "none" <=> hw.amd
        /\ hw.cpus \cup hw.cores \cup hw.devices \cup hw.intelGpus \cup hw.amdGpus \subseteq Nat
        /\ hw.readable \subseteq RySlots
        /\ hw.places = PlacesOn(hw)
        /\ \A v \in DOMAIN hw.windows :
              v \in Nat /\ hw.windows[v] \in Nat /\ hw.windows[v] <= v /\ v <= 2 * hw.windows[v] + 1
        /\ hw.packets \subseteq [hw.places -> Int \cup {NoValue}]
        /\ \A pkt \in hw.packets, p \in hw.places :
              pkt[p] # NoValue =>
                 /\ p.slot \in OffsetSlots => pkt[p] \in Offsets
                 /\ p.slot \in UndervoltSlots => pkt[p] <= 0
                 /\ p.slot \in EighthSlots \cup RequestSlots => pkt[p] \in 0 .. LongestWindow

VARIABLES
    machine,    \* the machine, as it was found
    attached,   \* devices that are there
    held,       \* what the hardware and the kernel hold at each place; 0: of their own
    cache,      \* RyzenAdj::tableCache, and IntelCPU::fivr
    table,      \* the SMU's table as last read by the library
    packet,     \* the last packet for the device
    todo,       \* places applySettings has still to come to
    op,         \* the last or running call
    running,    \* applySettings runs
    errors,     \* the errors of that call
    shown,      \* what the last read for a client gave
    switched,   \* history: the apply parked or woke a CPU, or changed SMT or the driver
    disturbed,  \* history: someone else changed a setting or a device since it began
    skipped,    \* history: registers of CPUs it passed over, as they did not open
    calm        \* history: applies of the packet in a row without error or disturbance

vars == <<machine, attached, held, cache, table, packet, todo, op, running, errors, shown, switched,
          disturbed, skipped, calm>>

history == <<switched, disturbed, skipped, calm>>

-------------------------------------------------------------------------------

Places == machine.places

At(slot, i) == {p \in Places : p.slot = slot /\ p.index = i}

\* A switch this machine does not have is on.
IsOn(slot, i, h) == \A p \in At(slot, i) : h[p] = 1

Online(i, h) == IsOn("cpuOnlineStatus", i, h)

\* Registers, each written and read through the descriptor of its CPU.
IsRegister(p) == p.stage \in 1 .. 3

\* Whether there is something to write to, or to read.
Present(p) ==
    CASE p.stage \in {2, 3} \/ IsCPUFreq(p) -> Online(p.index, held)
      [] p.slot = "epp" -> Online(p.index, held) /\ IsOn("pstateStatus", 0, held)
      [] IsDevice(p) -> p.index \in attached
      [] OTHER -> TRUE

\* faulty variant: a boost frequency is written with the others, valid or not
IsAskedUnchecked(pkt, p) ==
    /\ pkt[p] # NoValue \/ p.slot = "gpuBoostFreq"
    /\ p.slot = "sclk" => \A l \in At("dpmLevel", p.index) : pkt[l] = Manual

\* What the packet asks for: clocks of a card only with the level for them.
IsAsked(pkt, p) ==
    /\ pkt[p] # NoValue
    /\ p.slot = "sclk" => \A l \in At("dpmLevel", p.index) : pkt[l] = Manual

Asked(pkt) == {p \in Places : IsAsked(pkt, p)}

\* Whether the CPU counts its cores as the system does.
CoresMatch(hw) == "coreIdxList" \in hw.found

\* Checks of the sizes of the packet, each made before its part is applied.
Part(p) == IF p.stage <= 5 THEN "cpu" ELSE IF p.stage <= 10 THEN "os" ELSE "osAmd"

CPURefusals(hw) ==
    {{"CORE_DATA_MISMATCH"}, {"THREAD_DATA_MISMATCH"},
     IF CoresMatch(hw) THEN {} ELSE {"CORE_IDX_MISMATCH"}}

ThreadsRefused == {"THREAD_DATA_MISMATCH"}

\* The system part comes before the one for AMD, and takes it along.
Refusals ==
    {r \in [cpu : CPURefusals(machine), os : {{}, ThreadsRefused}, osAmd : {{}, ThreadsRefused}] :
        r.os # {} => r.osAmd = r.os}

\* What is remembered as it cannot be read.
CachedPlaces ==
    {p \in Places : \/ p.slot \in RySlots /\ IsCached(machine, p.slot)
                   \/ p.slot \in UndervoltSlots}

Init ==
    /\ machine \in Machines
    /\ attached = machine.devices
    /\ held = [p \in Places |-> IF p.slot \in {"cpuOnlineStatus", "smtState", "pstateStatus"}
                                THEN 1 ELSE 0]
    /\ cache = [p \in CachedPlaces |-> IF p.slot \in UndervoltSlots THEN 0
                                     ELSE BuildTableCache(CachedPlaces)[p]]
    /\ table = [p \in {q \in Places : q.slot \in machine.readable} |-> 0]
    /\ packet \in machine.packets
    /\ todo = {}
    /\ op = "none"
    /\ running = FALSE
    /\ errors = {}
    /\ shown = <<>>
    /\ switched = FALSE
    /\ disturbed = FALSE
    /\ skipped = {}
    /\ calm = 0

-------------------------------------------------------------------------------
\* The kernel and the firmware.

\* Switching SMT parks the second threads or wakes them.
WithSiblings(h, p) ==
    IF p.slot # "smtState" \/ h[p] = held[p] THEN h
    ELSE [q \in Places |-> IF q.slot = "cpuOnlineStatus" /\ q.index \in machine.siblings
                           THEN h[p] ELSE h[q]]

\* Registers of a CPU that its frequency driver writes too, whenever one of the
\* driver's own files is written.
IsRequest(p) == p.slot \in {"pstateCmd", "cppcRequest", "hwpRequest"}
IsDriver(p) == IsCPUFreq(p) \/ p.slot = "epp"

\* Settings that may be lost with the step from held to h, by the write of p:
\* those of a CPU that wakes up, those of the frequency driver when another
\* mode of it takes over, the registers the driver writes, the preference when
\* a governor is set, the clocks of a card that leaves the manual level.
MayReset(h, p) ==
    {q \in Places \ {p} :
        \/ /\ Online(q.index, h) /\ ~Online(q.index, held)
           /\ q.stage \in {2, 3} \/ IsDriver(q)
        \/ p.slot = "pstateStatus" /\ h[p] # held[p] /\ (IsRequest(q) \/ IsDriver(q))
        \/ IsDriver(p) /\ IsRequest(q) /\ q.index = p.index
        \/ p.slot = "scalingGovernor" /\ q.slot = "epp" /\ q.index = p.index
        \/ p.slot = "dpmLevel" /\ h[p] # Manual /\ q.slot = "sclk" /\ q.index = p.index}

\* What becomes of a value on its way to the hardware.
Taken(p, v) ==
    CASE p.slot \in UndervoltSlots -> Lowered(v)
      [] p.slot \in EighthSlots -> InEighths(v)
      [] p.slot \in RequestSlots -> ActivityWindow(v)
      [] p.slot \in WindowSlots -> TimeWindow(machine, v, held[p])
      [] OTHER -> TakenBySMU(p, v)

\* What may be held after a write of v to p.
After(p, v) ==
    LET h == WithSiblings([held EXCEPT ![TakenAt(p, v)] = Taken(p, v)], p)
    IN  {[q \in Places |-> IF q \in lost THEN 0 ELSE h[q]] : lost \in SUBSET MayReset(h, p)}

Switches(p, h) ==
    p.slot \in {"cpuOnlineStatus", "smtState", "pstateStatus"} /\ h[p] # held[p]

\* Writes that cannot succeed: no frequency for a CPU that is parked, no
\* second thread while SMT is off, no clocks without a file for them, no
\* option the SMU does not know, no request before HWP is on.
Possible(p, v) ==
    /\ Present(p)
    /\ p.slot = "cpuOnlineStatus" /\ v = 1 /\ p.index \in machine.siblings => IsOn("smtState", 0, held)
    /\ NeedsClockFile(p, v) => "pp_od_clk_voltage" \in machine.found
    /\ p.slot = "apuSlow" => CanWrite(machine, "apuSlow")
    /\ IsHWP(p) => IsOn("hwpEnable", 0, held)

-------------------------------------------------------------------------------
\* Device::applySettings.

ApplySettings(pkt) ==
    /\ ~running
    /\ \E r \in Refusals :
        /\ todo' = {p \in Asked(pkt) : r[Part(p)] = {}}
        /\ errors' = r.cpu \cup r.os \cup r.osAmd
    /\ packet' = pkt
    /\ op' = "apply"
    /\ running' = TRUE
    /\ shown' = <<>>
    /\ switched' = FALSE
    /\ disturbed' = FALSE
    /\ skipped' = {}
    /\ calm' = IF pkt = packet THEN calm ELSE 0
    /\ UNCHANGED <<machine, attached, held, cache, table>>

IsNext(p) == p \in todo /\ \A q \in todo \ {p} : Before(p, q)

\* Bits that turn CPPC and HWP on; there is no turning them off.
IsOneWay(p) == p.slot \in {"cppcEnableBit", "hwpEnable"}

\* faulty variant: the test is the wrong way round
IsLeftOff(p) == IsOneWay(p) /\ held[p] = 0

\* They are written only where they are off.
IsLeftOn(p) == IsOneWay(p) /\ held[p] = 1

\* Registers of one CPU are written between openFd and closeFd.
Bracket(p) == {q \in Places : q.stage = p.stage /\ q.index = p.index}

\* A write that set() calls done is done: CPURegisters says where it may not be.
Written(p) ==
    /\ IsNext(p)
    /\ Possible(p, packet[p]) /\ ~IsLeftOn(p)
    /\ held' \in After(p, packet[p])
    /\ switched' = (switched \/ Switches(p, held'))
    /\ cache' = CacheAfter(cache, p, packet[p])
    /\ todo' = todo \ {p}
    /\ UNCHANGED <<machine, attached, table, packet, op, running, errors, shown, disturbed, skipped,
                   calm>>

\* A write of several parts can have come half way when one is refused.
Refused(p) ==
    /\ IsNext(p)
    /\ Present(p) \/ ~(PassedOverIfMissing(p) \/ IsRegister(p))
    /\ IF Possible(p, packet[p]) /\ ~IsLeftOn(p)
       THEN held' \in {held} \cup After(p, packet[p]) ELSE UNCHANGED held
    /\ switched' = (switched \/ Switches(p, held'))
    /\ errors' = errors \cup {p.error}
    /\ cache' = CacheAfter(cache, p, packet[p])
    /\ todo' = {q \in todo \ {p} :
                  ~(q.index = p.index /\ q.slot \in GivenUpWith(p) \cup WrittenWith(p))}
    /\ UNCHANGED <<machine, attached, table, packet, op, running, shown, disturbed, skipped, calm>>

PassedOver(p) ==
    /\ IsNext(p)
    /\ IsLeftOn(p) \/ (PassedOverIfMissing(p) /\ ~Present(p))
    /\ todo' = todo \ {p}
    /\ UNCHANGED <<machine, attached, held, cache, table, packet, op, running, errors, shown, history>>

\* openFd fails, whether or not the CPU is there: only the package says so.
NotOpened(p) ==
    /\ IsNext(p) /\ IsRegister(p)
    /\ Bracket(p) \cap Asked(packet) \subseteq todo
    /\ todo' = todo \ Bracket(p)
    /\ errors' = IF p.stage = 1 THEN errors \cup {"NO_MSR_FD"} ELSE errors
    /\ skipped' = IF p.stage = 1 THEN skipped ELSE skipped \cup Bracket(p)
    /\ UNCHANGED <<machine, attached, held, cache, table, packet, op, running, shown, switched,
                   disturbed, calm>>

Return ==
    /\ running /\ todo = {}
    /\ running' = FALSE
    /\ calm' = IF errors # {} \/ disturbed THEN 0 ELSE IF calm < 2 THEN calm + 1 ELSE calm
    /\ UNCHANGED <<machine, attached, held, cache, table, packet, todo, op, errors, shown, switched,
                   disturbed, skipped>>

-------------------------------------------------------------------------------
\* Device::fillPacketDeviceData and AMDCPU::getTemperature.

ReadTable(h) == [p \in DOMAIN table |-> h[p]]

Readable(p) ==
    Present(p) /\ ShownByFile(machine, p) /\ (IsHWP(p) => IsOn("hwpEnable", 0, held))

\* faulty variant: the table is read after the options
ShownBeforeRefresh(p, tab, short) ==
    IF p.slot \in RySlots \cup UndervoltSlots THEN OptionShown(p, table, cache, short, NoValue)
    ELSE IF Readable(p) THEN held[p] ELSE NoValue

Shown(p, tab, short) ==
    IF p.slot \in RySlots \cup UndervoltSlots THEN OptionShown(p, tab, cache, short, NoValue)
    ELSE IF Readable(p) THEN held[p] ELSE NoValue

ShownTo(tab, short, unread) ==
    [p \in Places |-> IF p \in unread THEN NoValue ELSE Shown(p, tab, short)]

\* CPUs whose registers cannot be opened, devices that are not listed as
\* their counters say they never slept, a table that cannot be refreshed.
FillPacketDeviceData ==
    /\ ~running
    /\ \E refreshed, short \in BOOLEAN,
          closed \in SUBSET {p.index : p \in {q \in Places : IsRegister(q)}},
          unlisted \in SUBSET {p \in Places : p.slot = "control"} :
        LET unopened == {p \in Places : IsRegister(p) /\ (p.index \in closed \/ ~Present(p))}
            smu == machine.amd /\ CoresMatch(machine) /\ "ryzenadj" \in machine.found
            tab == IF refreshed /\ smu THEN ReadTable(held) ELSE table
            unread == unopened \cup unlisted
                        \cup {p \in Places : Part(p) = "cpu" /\ ~CoresMatch(machine)}
        IN  /\ table' = tab
            /\ shown' = ShownTo(tab, short, unread)
            /\ errors' = (IF ~CoresMatch(machine) THEN {"CORE_IDX_MISMATCH"}
                          ELSE IF unopened # {} THEN {"NO_MSR_FD"} ELSE {})
                           \cup (IF smu /\ ~refreshed THEN {"RY_REFRESH_TABLE"} ELSE {})
    /\ op' = "fill"
    /\ UNCHANGED <<machine, attached, held, cache, packet, todo, running, history>>

GetTemperature ==
    /\ ~running
    /\ machine.amd /\ "ryzenadj" \in machine.found
    /\ table' \in {table, ReadTable(held)}
    /\ op' = "temperature"
    /\ errors' = {}
    /\ shown' = <<>>
    /\ UNCHANGED <<machine, attached, held, cache, packet, todo, running, history>>

-------------------------------------------------------------------------------
\* The rest of the world: firmware, the kernel and other programs change a
\* setting, devices are plugged in and out.  Values other than 0 and 1 would
\* show nothing more, and nothing depends on a setting that no packet asks for
\* but on those that switch others.

Disturb ==
    /\ disturbed' = TRUE
    /\ calm' = 0
    /\ UNCHANGED <<switched, skipped>>

Matters(p) ==
    \/ \E pkt \in machine.packets : pkt[p] # NoValue
    \/ p.slot \in {"cpuOnlineStatus", "smtState", "pstateStatus"} \/ IsOneWay(p)

Others(p) ==
    /\ Matters(p)
    /\ \E v \in {0, 1} : held' = [held EXCEPT ![p] = v]
    /\ Disturb
    /\ UNCHANGED <<machine, attached, cache, table, packet, todo, op, running, errors, shown>>

Plug(d) ==
    /\ attached' = IF d \in attached THEN attached \ {d} ELSE attached \cup {d}
    /\ Disturb
    /\ UNCHANGED <<machine, held, cache, table, packet, todo, op, running, errors, shown>>

Next ==
    \/ \E pkt \in machine.packets : ApplySettings(pkt)
    \/ \E p \in todo : Written(p)
    \/ \E p \in todo : Refused(p)
    \/ \E p \in todo : PassedOver(p)
    \/ \E p \in todo : NotOpened(p)
    \/ Return
    \/ FillPacketDeviceData
    \/ GetTemperature
    \/ \E p \in Places : Others(p)
    \/ \E d \in machine.devices : Plug(d)

Spec == Init /\ [][Next]_vars

-------------------------------------------------------------------------------

Operations == {"none", "apply", "fill", "temperature"}

Errors ==
    {p.error : p \in Places}
        \cup {"CORE_DATA_MISMATCH", "THREAD_DATA_MISMATCH", "CORE_IDX_MISMATCH", "NO_MSR_FD",
              "RY_REFRESH_TABLE"}

TypeOK ==
    /\ machine \in Machines
    /\ attached \subseteq machine.devices
    /\ held \in [Places -> Int]
    /\ cache \in [CachedPlaces -> Int]
    /\ table \in [{p \in Places : p.slot \in machine.readable} -> Int]
    /\ packet \in machine.packets
    /\ todo \subseteq Asked(packet)
    /\ op \in Operations
    /\ running \in BOOLEAN
    /\ ~running => todo = {}
    /\ errors \subseteq Errors
    /\ shown \in {<<>>} \cup [Places -> Int \cup {NoValue}]
    /\ switched \in BOOLEAN
    /\ disturbed \in BOOLEAN
    /\ skipped \subseteq Places
    /\ calm \in 0 .. 2

\* The packet asks for a register of a CPU and for a file of its driver: the
\* driver has the last word.
Contested(p) ==
    IsRequest(p) /\ \E q \in Asked(packet) : IsDriver(q) /\ q.index = p.index

\* A time the register cannot express: the write leaves it out.
Inexpressible(p) == p.slot \in WindowSlots /\ packet[p] \notin DOMAIN machine.windows

\* What the setting has room for of a value: registers of eighths are less
\* than 125 thousandths below it, requests less than a tenth, times of a limit
\* at most a half; everything else is taken as it is.
Fits(p, v, h) ==
    CASE p.slot \in EighthSlots -> h <= v /\ v < h + 125
      [] p.slot \in RequestSlots -> h = v \/ (h <= v /\ 10 * (v - h) < v)
      [] p.slot \in WindowSlots -> h <= v /\ v <= 2 * h + 1
      [] OTHER -> h = v

\* What is held is what the packet asks for, or what it cannot turn off, or
\* what the packet says in two ways, or a time that cannot be written.
Settled(p) ==
    \/ Fits(p, packet[p], held[p])
    \/ IsOneWay(p) /\ held[p] = 1
    \/ Contested(p)
    \/ Inexpressible(p)

Mismatches(p) ==
    IF Part(p) = "cpu" THEN {"CORE_DATA_MISMATCH", "THREAD_DATA_MISMATCH", "CORE_IDX_MISMATCH"}
                       ELSE ThreadsRefused

\* The packet for its place was refused with an error a client can name.
Reported(p) ==
    errors \cap ({p.error} \cup Mismatches(p) \cup (IF p.stage = 1 THEN {"NO_MSR_FD"} ELSE {})) # {}

\* DaemonService records a packet as applied if applySettings returns no
\* error.  Unless the apply parked or woke CPUs, switched SMT or the driver,
\* or somebody interfered, every place that is there holds what the packet
\* asks for when it returns, as far as it has room for it, or the error of
\* that place is among those it returns: nothing the daemon writes later in an
\* apply undoes what it wrote before.  Three losses come without an error, and
\* no others: the registers of a CPU that did not open (`skipped`; the code
\* passes over them, IntelCPU.cpp:582, 599, AMDCPU.cpp:198), requests of a CPU
\* whose driver's files the packet writes too (Contested), and times of power
\* limits that a register cannot express (Inexpressible, IntelUtils.cpp:50).
HeldOrReported ==
    ~running /\ op = "apply" /\ ~switched /\ ~disturbed =>
        \A p \in Asked(packet) : Present(p) => Settled(p) \/ Reported(p) \/ p \in skipped

\* Where CPUs woke up or a driver changed within an apply, it returns no error
\* although settings written before, or passed over, are not in force.  The
\* next apply of the packet, by the timer or on wake (DaemonService.cpp:436),
\* makes up for them: after two in a row without error everything that is
\* there holds what was asked, but for the three losses of HeldOrReported.  A
\* CPU that woke up gets its registers; one whose registers did not open in
\* the second apply either, although it is there, is left without them.
RepairedByNextApply ==
    ~running /\ calm = 2 => \A p \in Asked(packet) : Present(p) => Settled(p) \/ p \in skipped

\* Places whose value a client is shown: not options that are neither read
\* nor cached, nor levels of a card without clocks.
CanBeShown(p) ==
    IF p.slot \in RySlots \cup UndervoltSlots THEN p \in DOMAIN table \cup DOMAIN cache
    ELSE Readable(p) /\ p.slot # "control"

\* A client sees the value it asked for, as far as the setting had room for
\* it; a limit of the SMU may show one thousandth less.
ShownAsAsked(p) ==
    \/ Fits(p, packet[p], shown[p])
    \/ p.slot \in InThousandths /\ shown[p] = packet[p] - 1
    \/ IsOneWay(p) /\ shown[p] = 1

\* What a client reads after an apply that settled is the packet that was
\* applied, to the precision of each setting, from registers, files, the table
\* of the SMU and the cache alike: the table is not one of before the apply,
\* and what is remembered is what was asked last.  The losses of
\* HeldOrReported show.  A client that sends back what it was shown may still
\* change something: a thousandth of a limit, a time that was cut, and options
\* nobody asked for, which show as -1.  Nothing is said of what is shown after
\* errors: an option the SMU refused shows from the cache as asked
\* (RyzenAdj.cpp:112).
ReadBack ==
    op = "fill" /\ errors = {} /\ calm >= 1 /\ ~switched =>
        \A p \in Asked(packet) : CanBeShown(p) =>
            ShownAsAsked(p) \/ Contested(p) \/ Inexpressible(p) \/ p \in skipped

\* The inductive invariant.  What is written is settled, but for a preference
\* that is written after the governor of its CPU.
GovernorFirst ==
    \A g, e \in Asked(packet) :
        g \in todo /\ g.slot = "scalingGovernor" /\ e.slot = "epp" /\ e.index = g.index
            => e \in todo \/ Reported(e)

WrittenIsSettled ==
    op = "apply" /\ ~switched /\ ~disturbed =>
        \A p \in Asked(packet) \ todo : Present(p) => Settled(p) \/ Reported(p) \/ p \in skipped

IInv == TypeOK /\ (op = "apply" => GovernorFirst) /\ WrittenIsSettled
===============================================================================
