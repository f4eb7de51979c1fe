# A TLA+ model of PowerTunerDaemon

PowerTunerDaemon is a privileged daemon that applies power settings (MSRs,
sysfs, RyzenAdj, fans) on behalf of one TCP client, remembers what it applied,
and applies it again: periodically, on wake, and on changes of the power
supply.  This directory holds TLA+ modules that model it, TLC configurations
that check them, and proofs for every value of their constants.

Paths below are relative to `src/src/` of the repository unless they start
with `src/`.

## The system

| component | state it keeps | operations | talks to |
|---|---|---|---|
| Service, main thread (`Service/DaemonService.cpp`) | daemon settings, last applied packet, active profile, apply timer | one slot per command and event, start, reload | network thread by queued signals; device, disk stores and logger by calls |
| Network thread (`Service/Workers/ServiceWorker.cpp`) | listening server, served socket, the connections the server holds | new connection, disconnected, ready read, start/stop/restart server, send | main thread by queued signals; clients by TCP |
| Settings file (`DiskManagers/DaemonSettingDiskManager.cpp`) | `powertuner.pwtd` | load, save | called by the service |
| Profiles (`DiskManagers/ProfileDiskManager.cpp`) | a folder of files, the watch on it, a debounce timer | load, save, destroy, list, export, import, watch | called by the service; signals the network thread |
| Profile serialisation (`DiskManagers/ProfileUtils`) | none | packet to data, data to packet, over a packet of the device | called by the profiles |
| Logger (`Utils/FileLogger`) | level, open file | init, setLevel, write | called by everyone on the main thread |
| Device (`Device/Device.cpp`, `Device/FAN`) | features found once, fan curves, fan curve timer | apply, read, prepare for sleep | CPU, OS and fan objects |
| CPU registers (`Device/CPU/*/Registers`, `Utils/Utils.cpp`) | none | get, set | MSR access, memory of the MCHBAR; called by CPU objects |
| MSR access (`Device/CPU/Utils/MSR`) | descriptors with reference counts | open, close, read, write | CPU objects |
| Intel (`Device/CPU/Intel`) | features of the model, the voltage offsets last sent | read all, apply all | MSR access, MCHBAR |
| AMD and RyzenAdj (`Device/CPU/AMD`) | features, the cache of options that cannot be read, the SMU's table | read all, apply all, temperature | MSR access, SMU |
| OS (`Device/OS`), graphics cards (`Device/GPU`) | features, core index list | sysfs files, Windows power schemes | the kernel |
| Power notifications (`Service/PowerNotifications`, `Device/OS/Linux/DBusServices.cpp`) | last known power supply | UPower, login1, Windows callbacks | signals the service |
| Lifecycle (`main.cpp`, `Daemon/`) | instance lock, service object, Windows service status | start, SIGHUP, SIGTERM, service control | service |

What is hard here: two threads that only exchange queued signals; sockets whose
death is seen in several steps; one timer that every handler stops and
restarts; device writes that can fail half way; settings that change other
settings when they are written, in an order the code fixes; CPUs and devices
that come and go; values that can be written and not read; files rewritten in
place, in a folder others use too; packets spelled out field by field in six
functions; settings that take effect before they are saved; signals and power
events at any time.

What makes each part correct: the service records as applied what the device
took, and puts it back when it is lost; the network thread forgets no client
and answers the one that asked; a setting is held when an apply returns or its
error is returned; a client is shown what is held; a register keeps the bits
that were not asked for; a descriptor is closed by whoever opened it; a profile
loads as what was saved under its name, or not at all; fans follow the curve
that was sent last.  `PROJECT.json` lists these hazards at their lines.

## Modules

**`DaemonService`** is the main thread.  The slots of `DaemonService` run to
completion on the Qt event loop, so each is one action.  Correspondence:
`settings` is `daemonSettings`, `diskSettings` the content of the settings
file, `profiles` the content of the profile folder (a packet, missing, or
refused by `load`), `lastClientPacket` and `activeProfile` the members of these
names, `applyTimer` the `QTimer` (null, stopped, or running for `elapsed`
ticks), `hardware` the packet the device holds in full (`NoPacket`: a mixed
state), `logger` the level and whether the file is open, `endpoint` the place
the network thread was last told to listen at, `sent` the signals of the last
step in the order they were emitted.  `settingsSaved` is a history variable.
A packet, a profile and a settings blob are opaque values: the code only
compares, stores and forwards them.  `applySettings` is a result `ok` and what
the device then holds: the packet, or anything.

**`AppliedSettings`** states what the daemon promises about applied settings in
five steps (accept, reject, disturb, re-apply, forget).  `DaemonService`
implements it: `Promise` is its instance there, with the members and the
hardware of the daemon substituted for its variables, and `KeepsPromise` is its
specification.

**`ServiceWorker`** is the network thread with the connections of clients.
`link`, `open`, `pending` and `sock` are the state of a `QTcpSocket`, the
accepted connections the server has not handed out, and `ServiceWorker::sock`;
`posted` is the event queue of the thread (signals of the main thread and
deferred deletions, in order), `toService` the commands on their way to the
main thread.  The main thread is reduced to what it can send.  `ownAnswer` and
`wrote` are history variables that say which client an answer was for; the code
carries no such information, which is the point of `ForeignAnswersFirst`.

**`FanControl`** is `Device` as far as fans are concerned, with the one
`FANDevice` the factory makes and the board behind it.  `curve` and
`fanCurveTimer` are the members of these names, `hw` the registers of the board
(the mode, where it has a register of its own, and one pwm register per fan),
`temp` the sensor, `asked` a history variable: the fan data of the last packet.
A board is a record of what the code tells apart: reached through the embedded
controller or the kernel driver, mode and pwm in one register or two, number of
fans, highest pwm value.  Every access can fail; a write to several registers
can stop after any of them, so operators such as `AfterMode` give the set of
registers that can come of a call.  `SpeedsAsked` is the reference for what a
curve means, stated on the set of its points and independent of `PointFor`,
which follows the loop of `applyCurve`.

**`Bitfields`** is `getBitfield` and `setBitfield` of `Utils/Utils.cpp` on words
that are functions from bits to 0 and 1, with the code's shifts and masks; what
is shifted out of the word is lost.  The overloads for words of 32 bits are not
in it: `_setBitfield` builds its mask in 64 bits and shifts it for 32, so with
size 32 it also clears bits above the field, and no code calls that overload.

**`RegisterTable`** is the fields of the 26 register classes the daemon writes,
one definition per header, in the order of their `set()`; `get()` of each class
reads the same fields.  Time windows of the RAPL registers are written only
when representable and never compared; `MSR_CPPC_REQUEST` compares two fields
with `&&` where the others use `==`, so it reports every request of an `epp` or
`desiredPerf` of 0 as failed (`loose`).

**`CPURegisters`** is one `set()` of such a class step by step: read, one action
per `setBitfield`, write, read back, compare.  `word` is the register, `reg`
the local variable of this name; `seen` and `clean` are history variables (the
word read; whether anything came in since).  `Others` writes the register
between any two steps, `Write` may leave bits as they were (a locked register),
and each transfer can fail.  Values are raw, as wide as the word: conversions
from and to units happen before and after.

**`CPUAccess`** is how CPU objects reach these registers on Linux.  `slot` is
`MSRLinux::fdMap` (with the entries of zeros `operator[]` makes), `file` the
descriptors of the process, `coreIdxList` the member of `Device`: the CPU that
stands for each core, whichever the directory listed first.  An operation is
the list of its brackets `todo` (package, cores, threads: what is opened and
what is closed), worked off by opening, using and closing; the skip of a
bracket whose CPU cannot be opened is `OpenFails`.  What is read or written
inside is a success or a failure; a descriptor that is nothing or the standard
input never succeeds.  `first` and `smooth` are history variables for the one
property that speaks of a run without failures.  CPUs and other files change at
any time.

**`DeviceSettings`** is `Device::applySettings` and `fillPacketDeviceData` on
Linux with everything below them.  `DaemonService` takes the result of
`applySettings` at its word; this module says what the word is worth.  A
setting is a *place*: a row of one of the tables below for one CPU, core, card
or device, with the loop it is written in (`stage`), its turn in the body of
that loop, the feature that gates it and the error it reports.  `packet` is the
packet applied last, a value or `NoValue` for each place, `todo` the places
still to come.  `Written`, `Refused`, `PassedOver` and `NotOpened` are what can
become of the next place; `Return` ends the call.  `NotOpened` is what the code
does where the registers of a CPU do not open, parked or there: it goes on
without an error, and the places it leaves out are remembered in `skipped`.  `held` is what hardware and
kernel hold: a write also changes what the kernel changes with it (`MayReset`:
CPUs that wake, a driver that takes over, a governor that resets the
preference, a card that leaves the manual level).  `cache` is
`RyzenAdj::tableCache` and the voltage offsets `IntelCPU` remembers, `table` the
SMU's table as it was last read, `shown` what a client was given.  Values are
integers in the units of packets, and what a register holds is the value it
stands for: `Taken` is what is left of a value in the unit of its register
(eighths of a watt or an ampere, seven bits and a power of ten for an activity
window, a power of two and a quarter for a time, or nothing where floating
point does not find one), and `Shown` what is left on the way back (limits the
SMU reports in watts are cut to milliwatts).  `Fits` is how much a setting may
lose by that.  `switched`, `disturbed`, `skipped` and `calm` are history
variables: the apply changed CPUs or the
driver, someone interfered, registers that were passed over, applies of this
packet in a row without error or interference.  The tables are in modules of their own: **`Settings`** (rows,
places and their order), **`RyzenAdj`** (options of the SMU, which of them are
cached, the encodings of the Curve Optimizer), **`AMDCPU`**, **`IntelCPU`**
(features by model, CPUID and platform) and **`OSLinux`** (files of sysfs,
devices, graphics cards, and which writes are given up or passed over).  The
conversions are with the settings they belong to, in `IntelCPU` and `RyzenAdj`.

**`ProfileStore`** is `ProfileDiskManager`.  `files` is the folder, a file the
sequence of its parts (signature, version, hash of the device, checksum, data)
or a prefix of it; `path`, `watched` and `waiting` are the folder the manager
found at start, the watch on it and `fsWatcherEvtTimer`; a save is done, refused
or cut short (`WriteFile`), an import may in addition be cut short and answered
as done (`WriteBuffered`); `told` is the list
clients were given last, `answer` the result of the last operation.  Each
operation is one action, as the event loop runs it; `Die` may leave a file cut
short, and others change, remove and make the folder.  **`ProfileData`** is the
serialisation: a packet is written as a row of values without names, each
section with its version, fields, lengths of lists and items, and read back by
position.  What packets are made of, what is written (`SerializeAMDData`), what
is read (`DeserializeAMDData`) and what is copied over a packet of the device
(`LoadAMDProfile`, and so on for each part) are lists of their own, each from
the function it is named after.  They do not agree in one field: the Curve
Optimizer offset for all cores, which packets have and profiles do not
(`UnsavedFields`); `Saved` is what a profile holds of a packet.  A file
names its packet instead of holding the row, and `code.reads` says what writing
and reading that packet by `ProfileData` makes of it, for the build of the
daemon at hand.  **`ProfileMap`** is what the folder promises: a map from names
to packets (to what profiles hold of them), in which a failure loses one profile
at worst.  Its `Save` and its `Import` differ: a file that was imported with
success may be of no use.

**`PowerNotifications`** is how the events `DaemonService` takes as they come
reach it.  `supply` is what the machine runs on, `published` what UPower or
Windows has given notice of, `notices` the changes whose handler has not run,
`posted` the signals a callback of Windows queued for the main thread, `prev`
is `prevIsOnBattery` or `oldACLineStatus`.  `UPowerPath` and `Login1Path` are
the paths the code asks for on the bus; the second is none, so that
`Login1IsValid` is false and `ConnectLogin1` never subscribes to sleep.  A notice carries no status: the
handler reads it, and the read may be late or fail.  The start is modelled call
by call, as changes fall in between (`phase`).  `known` (what the service was
told last, or what was so at first) and `missed` (a change was, or may have
been, lost: UPower was away, or Windows gave no status) are history variables.

**`MCDaemonService`, `MCServiceWorker`, `MCFanControl`, `MCCPURegisters`,
`MCCPUAccess`, `MCDeviceSettings`, `MCProfileStore`** give the constants values
for TLC.  **`DaemonServiceProofs`, `ServiceWorkerProofs`, `FanControlProofs`,
`CPURegistersProofs`, `CPUAccessProofs`, `DeviceSettingsProofs`,
`ProfileStoreProofs`, `PowerNotificationsProofs`** hold the theorems.
Definitions marked as faulty variants are plausible bugs: with one of them in
place of the definition after it, the property `PROJECT.json` names for it
fails.

### Assumed of code outside the repository

* Qt: `QAbstractSocket::abort` emits `disconnected`, at once, if the socket was
  still connected and not otherwise; a socket whose peer is gone stays open
  until it is deleted or aborted; `deleteLater` takes its place among the
  posted events; queued signals of one thread arrive in order; a connection the
  server holds lives and dies without any slot of the worker.  Socket
  notifications may come between any two posted events, which allows more than
  Qt does.
* libPowerTuner: `DaemonSettings::load` either takes all of a blob or refuses
  it and leaves the settings alone; `writeFile` rewrites a file in place and
  can fail or be interrupted with the file torn; `MinApplyInterval` is a
  natural number.
* Fan data: clients send speeds of 0 to 100 percent and the modes 0 and 1, or a
  mode they could not read.  The daemon itself checks neither.
* The fan boards: a register that is written holds the byte; firmware changes
  neither mode nor pwm of fans in manual mode.  On Linux a write to sysfs takes
  effect or fails.
* POSIX: `open` gives the lowest free descriptor; the daemon starts with
  descriptor 0 open and its standard input holds no registers.  Only the
  features of a CPU whose registers are used at all are looked at (the group
  feature of the vendor is present).
* The file system, in `DaemonService`: a profile file changes only through the
  daemon while it runs.  `ProfileStore` drops that assumption.  A write in
  place can be refused, or leave a prefix of the file; the checksum of one
  packet is not that of another.  `writeFile` of libPowerTuner, with which
  profiles are saved, reports a write that was cut short: its code is not at
  hand, and its result is taken at its word.  The `QFile` of an import does not.
* The kernel: each CPU has a frequency policy of its own; waking a CPU may lose
  its registers and the settings of its driver; another mode of the P-state
  driver may lose the settings of the driver before; setting a governor may
  reset the preference; the frequency driver writes the request registers of a
  CPU (P-state command, CPPC and HWP request) when one of its files is written,
  so that a packet that asks for both says one thing in two ways
  (`Contested`).  CPU 0 cannot be parked; `forceoff` and `off` of SMT are one.
* The CPUs: CPPC and HWP are turned on once and never off until the machine is;
  registers of HWP fault before that.  The mailbox for voltages takes offsets
  downwards only, and a packet holds values of 0 or below for them.  A machine
  has a CPU of Intel or one of AMD; core i's registers are those of the CPU that
  stands for it.
* The SMU: an option takes effect or is refused; the table holds all of the
  options it reports when it is refreshed, and what it reports in watts and
  amperes comes back, times 1000 and cut, as the value or one less.
* Units of power: `MSR_RAPL_POWER_UNIT` says eighths of a watt, as most CPUs
  do.  The times a register can express are given with each machine
  (`windows`), with what is read back for them, at least half of the time that
  was asked for (`MachinesAssumption`).  Activity windows are at most 1,279,999,999
  microseconds (`LongestWindow`): what is longer loses its exponent.  Powers,
  currents and windows are not negative.
* Packets: one that is accepted holds data for each part the device has
  (sizes are checked and refused otherwise, `Refusals`), and the voltage
  offsets are asked for together, as the client sends them.
* The SMU's table reports options of RyzenAdj and nothing else
  (`MachinesAssumption`: `readable` is within `RySlots`): `RyzenAdj::read` asks
  for no other.
* D-Bus and Windows: a path without a leading slash is no object path and a
  `QDBusInterface` on it is never valid; a property that cannot be read
  converts to false; a `QDBusServiceWatcher` without a connection emits
  nothing; a subscription outlives a restart of the service it is to.  Windows
  calls back once at registration.  Notices are not lost while the service is
  there, and the status that is read is never older than the last notice.
* Interference with settings no packet asks for and no other setting depends on
  is left out: it could not show.

## Runs

| run | bounds | question |
|---|---|---|
| `commands` | 3 settings, 2 packets, 1 profile | timer, endpoint and settings agree after any sequence; every command is answered once; a device that lost its settings gets them back |
| `profiles` | 2 settings, 2 packets, 2 profiles | what is recorded as applied is what the device took; refinement of `AppliedSettings` |
| `clients` | 3 connections, 2 posted events, 2 unread messages | no forgotten client, answers reach their asker, and arrive |
| `handover` | 3 connections | a disagreement with `src/README.md` |
| `fans` | 4 boards, 5 kinds of fan data, 4 temperatures, `CurvePeriod` 2 | curve timer, mode and pwm registers agree with the last packet; fans reach the speed of their curve |
| `registers` | words of 64 bits, all 26 layouts, 5 requests each, 2 words of others, 3 refusals | the verdict of `set()` is right and only the fields of the request change |
| `descriptors` | 3 CPUs, 4 numberings of the cores, 4 descriptors, 2 references | no descriptor left open, taken over or closed for another file |
| `siblings` | 3 CPUs, the first two on one core | a disagreement with `src/README.md` |
| `device` | 14 machines of up to 2 CPUs, cores and devices, packets with the values described below, at most 7 places asked for, 2 applies counted | what applies without error is held, as far as the setting has room for it; what is lost on the way comes back with the next apply; clients see what is held |
| `store` | 2 names, 2 packets, 2 builds, files cut after their fourth part or damaged | profiles keep their names and contents; refinement of `ProfileMap`; no change of the folder is forgotten, and lists reach clients |
| `power` | both systems, 2 notices, 2 of sleep and wake and 2 signals under way, anything refused | no change that was noticed is dropped, and the service ends up knowing what the machine runs on |
| `wake` | both systems, nothing refused | a disagreement with `src/README.md` |

Why the bounds are enough.  The three settings differ in everything a slot
tells apart: no, short and long interval; on start profile or none; battery
profile used, absent or ignored; two addresses, two ports, three log levels.
Two packets are needed so that "the previous packet" differs from the new one,
two profiles so that a profile can be active while another fails.  Intervals of
0, 1 and 2 ticks tell null, expired, running and restarted timers apart.
Three connections are the least with which a client can wait behind a vanished
one while another arrives; a queue of two holds a deletion and an answer, or
the stop and the start of a reload, and the theorems hold for longer ones.  The four boards are the kernel driver and one board of each kind behind the
controller (own mode register; one fan; two fans).  The fan data holds a curve
out of order, one with a temperature twice, one point, firmware control and an
unreadable mode; the temperatures lie below, at, between and above the points.
`CurvePeriod` is the timer's 7.5 seconds in ticks; two tell a restarted timer
from one that ran on.  The
requests of a register fill its fields with nothing, with all that fits, with a
bit too much, with a negative number, and one field with a value that only lies
outside it; the words of others differ from each other in every second bit.
Three CPUs are the least with a core of two threads and a CPU that stands for
another core than its own index; four descriptors leave room for the standard
input, a leaked one, one in use and another file.
Each of the fourteen machines has a part of the settings, chosen so that
settings that disturb one another are on one machine: governor and preference
under both modes of the P-state driver, SMT with CPUs parked by it, registers
with CPUs that wake, readable and cached options of the SMU, HWP with the
driver that shares its registers, voltage offsets, graphics cards with and
without a clock file, devices that are unplugged, a CPU that counts its cores
in another way, power limits with times that are cut and times that cannot be
written.  Where no conversion is involved, values are negative, 0 and positive,
as no code tells apart more; where one is, they lie on a unit of the register,
between two, and below the first (15000, 15100 and 124 thousandths of a watt;
activity windows of 1, 1279 and 12345; 15001 milliwatts for the SMU).  The
packets of a machine differ in what they turn on and off.  The two
names of profiles are one name in lists (`a` and `a.b`), the two packets differ
in the number of threads, so that one of them fits the device and the other
does not, and no two values in a packet are the same, so that a field read from
the wrong position shows.
`MaxPosted`, `MaxUnread` and `MaxCount` are bounds in guards only and the
theorems hold for every value of them.

Fairness.  `DaemonService!FairSpec`: time passes (weak fairness of `Tick`), an
expired timer is delivered (weak fairness of the timeout slot), and a device
that could take the packet at infinitely many expiries takes it at one (strong
fairness of the successful timeout).  No fairness is assumed of clients,
battery or firmware.  `ServiceWorker!FairSpec`: both event loops run.
`FanControl!FairSpec`: time passes, an expired timer is delivered, and a curve
step that could succeed at infinitely many expiries succeeds at one (the step
may still fail any number of times before).  `CurveCatchesUp` only speaks of
runs in which, from some time on, nothing but time passes: each read for a
client restarts the curve timer, and a client that polls faster than 7.5
seconds keeps a curve from being followed.  In the same way `DriftRepaired`
only speaks of runs in which commands end, as each command restarts the apply
timer.  `ProfileStore!FairSpec`: the event loop delivers what the watcher saw,
and the debounce timer fires.  Each change restarts that timer, so
`ListReachesClients` speaks of a folder that comes to rest.
`PowerNotifications!FairSpec`: UPower or Windows gives notice of a change, and
the handlers and the event loop run; what the bound on notices can disable for
a while is strongly fair, as the queues of the program have no such bound.
`SupplyIsTold` speaks of a supply that stays as it is, to a service that is
subscribed, with UPower there and no change lost.  A change is lost to the
service while UPower is away (it takes the status it starts with for no
change), and after a status Windows reported as unknown or not at all; the
model keeps in `missed` that this lasts until a later notice puts it right.

Findings (runs that expect a violation): `handover` - a connection that arrives between
the death of a socket and its deferred deletion waits, and each later client is
then served one hand-over late; `siblings` - `applyCoreSettings` opens one CPU
and closes another where threads of a core are neighbours, so a descriptor
leaks, and a CPU that was never opened is taken to have descriptor 0: writing
its registers fails and descriptor 0 is closed; `wake` - `login1Path` of
`DBusServices.h:32` lacks its slashes, so on Linux the daemon is never
subscribed to sleep and wake, while `src/README.md:123` says "Apply last applied
settings on wake from sleep" and `src/README.md:173` that support for these
events is on by default.

Losses without an error, which no document speaks of.  They are named in the
properties and shown by no run.  The registers of a CPU that is there and does
not open are passed over, and `applySettings` returns success (`skipped`).
Requests of a CPU whose driver files the packet writes too end up as the driver
has them (`Contested`).  Times of power limits that a register cannot express
are not written (`Inexpressible`).  An option the SMU refused is shown as set
when it is one of those remembered in `tableCache`; `ReadBack` claims nothing
after errors.  `ProfileAMDUtils` neither writes nor reads the Curve Optimizer
offset for all cores, which `RyzenAdj` applies: a packet that asks for it loads
without it, and a client that looks at the profile is shown the present one
(`UnsavedFields`).  An import can be answered as done over a torn file
(`WriteBuffered`).

Seen in the models, without a property that forbids it: every command
restarts the apply timer, so a polling client keeps settings from being
re-applied; the defaults of `-a` and `-p` hide the address and port of the
settings at start and reload; the level in the settings file is not the one the
daemon starts to log at.

How `device` and `commands` fit together.  `DaemonService` records a packet as
applied when `applySettings` returns no error.  `HeldOrReported` says when that
is right at once: always, unless the apply itself parked or woke CPUs, switched
SMT or the driver, or somebody interfered.  Where it is premature (registers of
a parked CPU are passed over without an error before the CPU is woken; the mode
of the driver is set after its frequencies), `RepairedByNextApply` says that one
more apply makes up for it, which the apply timer or a wake brings if the
settings ask for one (`DriftRepaired`).  Both leave out by name what the code
loses for good without an error: for a CPU whose registers do not open
(`skipped`), a packet that `DaemonService` records as applied is not.

## Proofs

All theorems hold for every value of the constants that the named assumptions
allow; TLC evaluates these assumptions on the instances of the runs.  Each
inductive invariant was an invariant of a run before it was proved.

`DaemonServiceProofs` (`ConstantsAssumption`) proves, for all packets, profiles,
settings, addresses and ports: `TypeOK`, `TimerMatchesSettings`,
`ActiveProfileHasPacket`, `LiveSettingsMatchDisk` and `EndpointIsCurrent` as
invariants; the action properties `PacketRecordedWhenApplied`,
`ActiveProfileFromDisk` and `AnsweredOnce`; and that `Spec` implements
`AppliedSettings`.  The inductive invariant is the conjunction of the five, plus
a fact about a process that is down (it holds no packet, no profile and no
timer): without it `Start` could find a profile and no packet.
`ActiveProfileHasPacket` and `PacketRecordedWhenApplied` are properties of
`AppliedSettings` too, so no run checks them apart from `KeepsPromise`.  `AnsweredOnce`
goes through the ways a command ends: lemmas say of each form `sent` then has
(an answer alone, one behind another signal, a refusal) that it holds exactly
one answer.

`ServiceWorkerProofs` proves `TypeOK`, `NoConnectionForgotten`,
`AskerIsServed`, `ForeignAnswersFirst` and `NeverListensTwice` for any number of
connections and any bounds.  The invariant behind the first three says in
addition that a connection that never was is nowhere, that every connection of
the server that is up is open, that a command on its way or an answer posted
belongs to a connection that is served or down, and that a deferred deletion is
only ever posted for a connection that is down.  The other two need the order of
the queues.  An answer to a client that is up is followed by answers to it only,
and then by commands of it only (`AnswersInTurn`), and a client that has had an
answer of its own finds nothing of others in either queue (`OwnAlone`): so what
is still to be written for somebody else comes first.  And a start of the server
is posted behind a stop, or the server is not listening when it is at the head
(`StartFollowsStop`).

`FanControlProofs` proves `TypeOK`, `CurveTimerMatchesPacket`,
`FansChangeHandsOnPurpose` and `SpeedFromCurve` for all boards, curves of any
length, temperatures and timer periods (`FanAssumption`).  The invariant is
`TypeOK` with `CurveTimerMatchesPacket`; the rest are lemmas about the
operators: what a write that may stop half way leaves in the registers, that a
pwm value is a byte and never 0 through the controller, that sorting keeps the
points, and that the point `applyCurve` stops at in a sorted curve is the one
`SpeedsAsked` names.  The last needs that a set of positions has a greatest
element, which follows from the library's `WFMin` over the order of the
naturals instead of an induction.

`CPURegistersProofs` proves what `setBitfield` and `getBitfield` return, bit by
bit, for every width of the word, field, value and word, and all five
properties of `registers` for any layouts whose fields are disjoint
(`LayoutAssumption`, which TLC evaluates on the real table), any requests,
interference and refusals.  The invariant says how far the local word is
replaced (`Replacing`) and that the register of an undisturbed call holds the
whole request from the write on (`CleanWord`).

`CPUAccessProofs` proves `TypeOK` for any numbering of the cores and
`NothingLeftOpen`, `ReachesItsCPU` and `OthersFilesKept` where core i is CPU i
(`Straight`, also every AMD machine, whose cores have no brackets), for any
number of CPUs and descriptors.  The invariant says that outside a bracket all
entries are closed and no descriptor is of a CPU, that inside one exactly the
entry and the descriptor of its CPU are, with a count of one, and that every
bracket still to come closes what it opens.

`DeviceSettingsProofs` proves all four invariants of `device` for any machines
(`MachinesAssumption`), packets and integer values (`NoValueAssumption`), and that the words sent for the Curve Optimizer are taken
as the offsets they encode, for every core and every offset of 16 bits.
What conversions keep of a value is shown first (`Fits` of what `Taken` gives,
for eighths, activity windows and times), and so is that the word for an offset
names its own core.
`HeldOrReported` rests on `IInv`: in a running, undisturbed apply each place
that is done is settled or its error is recorded (`WrittenIsSettled`), and a
governor is never written after the preference of its CPU (`GovernorFirst`),
without which a governor could undo a preference that was settled.  The
argument is the order of the rows: lemmas about the tables give each setting its
stage and error, and a later write resets an earlier one only where the apply
counts as `switched`.  `RepairedByNextApply` relates two applies, and so does
`RInv`: an apply without errors works the places off in their order (`InOrder`)
and leaves what switches other settings, and what is remembered because it
cannot be read, as the packet asks (`DoneIsKept`, `CalmIsKept`).  So the next
apply of the packet finds every switch as it wants it and writes none of them to
another value: it is not `switched` (`CalmSwitchesNothing`), and the first
argument applies to it (`CalmIsSettled`).  `ReadBack` follows from the same
invariant and what a fill shows (`FillShows`): the register or file, the SMU's
table as it was refreshed, or the cache.  None of the three says anything of a
register in `skipped`, of a `Contested` request or of an `Inexpressible` time.

`ProfileStoreProofs` proves, for any names, packets, builds, devices and ways
to cut a file short: `TypeOK`, `ShownIsApplied`, `NoChangeForgotten`, and that
`Spec` implements `ProfileMap` (`KeepsProfiles`).  The last rests on `ReadsBack`,
which says that reading the row of values `Serialize` writes gives what a
profile holds of the packet (`Saved`), for every build, any values and any
number of cores and threads.  Rows are
concatenations of other rows (`FlattenSeq`), which is a recursive function.
Where a proof would go by induction it takes the least counterexample instead
(`LeastExists`, from the library's `WFMin`): so that a function with its
defining equation exists (`ChainExists`), and that the i-th of the joined
sequences starts where those before it end (`Flattened`).
From it follow, one level at a time, where the items of a list, the lists of a
part and the parts of a packet lie in the row, and that `DeserializePart` looks
for them there (`PartWritten`, `PartRead`).  That the fields a part writes are
those it reads, in the same order, and with `UnsavedFields` all a packet has, is
a lemma about the lists of `ProfileData` (`ReadAsWritten`, `AllWritten`), as is
for `ShownIsApplied` that a profile is copied over a packet in all its fields
(`AllCopied`).  What each file loads as is then a
lemma about its parts: a foreign, damaged or cut file loads as nothing
(`ValidFiles`, `CutFiles`), a created one as its packet (`Loading`), and each
step of `ProfileStore` changes at most one name as `ProfileMap` allows
(`OneStored`, `StepRefines`).  The assumptions: parts that remain of a cut file
are counted by a natural number (`CutsAssumption`); `Nothing` is no packet and
no file (`NothingAssumption`); packets have the fields their structure has, the
offset for all cores among them, and `Packets` names them by what a profile
holds of them (`PacketsAssumption`).
`NoChangeForgotten` is inductive with `ToldInv`: only a daemon that runs watches
the folder or has told somebody a list.

`PowerNotificationsProofs` (`PowerAssumption`) proves `TypeOK` and
`NothingIsDropped` for any bounds and refusals.  The invariant of the first adds
how far the start must have come before anything is subscribed to.  The second
needs what handlers compare with: on Linux, from the first read on, the status
read last is the one passed on last, and with no notice left to handle and none
missed it is the one published (`LinuxKnows`); on Windows, unless the first
notice is still to come, it is the one the service knows or will know from the
signals that are queued (`WindowsKnows`), which appending a signal and
delivering one preserve (`QueuedLast`, `QueuedBehind`, `DeliveredInTurn`).

Every invariant and action property the passing runs check is proved.  Only
model-checked is what needs fairness, as the provers know no `ENABLED`:
`DriftRepaired`, `AnswersArrive`, `CurveCatchesUp`, `ListReachesClients`,
`SupplyIsTold`.  The safety each of them rests on is proved: the timers run when
they must (`TimerMatchesSettings`, `CurveTimerMatchesPacket`), an answer goes to
a client that is served (`AskerIsServed`), and no change is lost on its way
(`NoChangeForgotten`, `NothingIsDropped`).  The tables of `RegisterTable` are
only evaluated by TLC, as the values `CPURegisters` is instantiated with.

## Plan

Done: the service, the network thread, the fans, the registers, the
descriptors, the settings of the device, the profiles, the power
notifications.  What could follow, in
this order:

1. `Daemon`: `DaemonService` and `ServiceWorker` composed through the queued
   signals in both directions, to replace the reduced main thread.
2. `Lifecycle`: SIGHUP and SIGTERM interrupting a slot (their handlers emit Qt
   signals), the instance lock.
3. The floating point of `getRawTimeWindow`: which times a register is found to
   express is given with each machine here (`windows`).

Theorems worth adding with them: the composition keeps the invariants of its
parts.

## Not modelled, and why

* The slots of the bus watcher (`onDBusServiceRegistered` after the start,
  `onDBusServiceUnregistered`): the watcher has no connection, so nothing calls
  them.  On Windows, handles of refused registrations are uninitialised when
  they are unregistered at the end; what that does to a process that ends
  anyway is left out.
* The lifecycle on Windows (`Daemon/Windows`): steps of the service control
  manager, whose rules would be most of a model.  On Linux, signals are steps
  between slots.
* Windows power schemes (`OSWindows.cpp`) and options of RyzenAdj built for
  Windows only: calls into the system, whose schemes are the state.  The fan
  registers of `OSWindows` are in `FanControl`.
* What is read for display only: system information, temperatures of Intel
  CPUs, units and ranges (`regsCache`), lists of governors; and the parsing and
  formatting of the files of sysfs and of `cpuid`.
* Units of power other than eighths of a watt, floating point itself (which
  times are found to be expressible), and conversions of what is only read;
  registers that are only read.
* What the SMU, MCHBAR and winring libraries do inside.
* Translations, log texts, the build, the installers.
