---------------------------- MODULE DaemonService ----------------------------
(***************************************************************************)
(* The main thread of the daemon: class DaemonService with the two disk    *)
(* stores and the file logger it drives.  Its slots run to completion on   *)
(* the Qt event loop, so every slot is one action here.                    *)
(*                                                                         *)
(* What a slot emits towards the network thread is left in `sent`, in the  *)
(* order of the emits; ServiceWorker models what becomes of it there.      *)
(*                                                                         *)
(* A ClientPacket, a profile name and a settings blob are values the code  *)
(* only stores, compares and passes on, hence constants.  The device is    *)
(* seen as DaemonService sees it: applySettings either returns no error,   *)
(* and then holds the packet, or returns errors, and then holds anything.  *)
(***************************************************************************)
EXTENDS Integers, Sequences

CONSTANTS
  Packets,          \* the client packets that can be applied
  NoPacket,         \* no packet: an empty optional, a device in a mixed state
  Profiles,         \* the names profiles are stored under
  NoProfile,        \* the empty profile name
  NoFile, BadFile,  \* content of a profile: missing, or refused by load
  Addresses, Ports, \* where a server can listen
  AnyAdr, DefaultPort,
  NoAdr, CmdAdr,    \* the empty -a option, and the -a and -p options in force
  CmdPort,
  NoEndpoint,       \* no listening request, or a request to stop
  LogLevels, LogNone,
  SettingsData,     \* the contents daemon settings can have
  DefaultSettings,
  NoData,           \* a settings file that is missing, torn or foreign
  MinApplyInterval, \* an interval up to this one means: do not re-apply
  LogOpens          \* the results opening the log file can have

Endpoints == [adr : Addresses, port : Ports]

SettingsFields ==
  [adr : Addresses, port : Ports, logLevel : LogLevels, applyInterval : Nat,
   onStartProfile : Profiles \cup {NoProfile},
   onBatteryProfile : Profiles \cup {NoProfile},
   onPowerSupplyProfile : Profiles \cup {NoProfile},
   ignoreBatteryEvent : BOOLEAN, applyOnWake : BOOLEAN]

ASSUME ConstantsAssumption ==
  /\ NoPacket \notin Packets
  /\ NoProfile \notin Profiles
  /\ NoFile \notin Packets /\ BadFile \notin Packets
  /\ AnyAdr \in Addresses /\ DefaultPort \in Ports
  /\ NoEndpoint \notin Endpoints
  /\ LogNone \in LogLevels
  /\ SettingsData \subseteq SettingsFields
  /\ DefaultSettings \in SettingsData
  /\ NoData \notin SettingsData
  /\ MinApplyInterval \in Nat
  /\ LogOpens \subseteq BOOLEAN /\ LogOpens # {}

VARIABLES
  up,               \* the process runs and its DaemonService is started
  settings,         \* DaemonService::daemonSettings
  diskSettings,     \* content of powertuner.pwtd
  settingsSaved,    \* history: no save has failed since the file was last good
  profiles,         \* content of the profiles folder
  lastClientPacket,
  activeProfile,
  applyTimer,       \* the QTimer: null, stopped or running for `elapsed` ticks
  hardware,         \* the packet the device holds in full, or NoPacket
  logger,           \* FileLogger: its level, and whether its file is open
  endpoint,         \* where the network thread was last told to listen
  sent              \* signals to the network thread emitted by the last step

appliedVars == <<lastClientPacket, activeProfile, hardware>>
diskVars == <<diskSettings, settingsSaved, profiles>>
confVars == <<settings, logger, endpoint>>
vars == <<up, settings, diskSettings, settingsSaved, profiles,
          lastClientPacket, activeProfile, applyTimer, hardware, logger,
          endpoint, sent>>

-----------------------------------------------------------------------------
(* Signals to the network thread.                                          *)

Commands ==
  {"NONE", "INVALID_DCMD", "GET_DEVICE_INFO_PACKET", "GET_DAEMON_PACKET",
   "APPLY_CLIENT_SETTINGS", "APPLY_PROFILE", "WRITE_PROFILE",
   "DELETE_PROFILE", "LOAD_PROFILE", "GET_PROFILE_LIST", "EXPORT_PROFILES",
   "IMPORT_PROFILES", "GET_DAEMON_SETTS", "APPLY_DAEMON_SETT", "APPLY_TIMER",
   "BATTERY_STATUS_CHANGED", "SYS_WAKE_FROM_SLEEP"}

ServerSignals == {"connectService", "restartService", "stopService"}

Answers ==
  {"sendCMDFail", "sendDeviceInfoPacket", "sendDaemonPacket",
   "sendSettingsApplyResult", "sendLoadedProfile", "sendExportedProfiles",
   "sendProfileList", "sendCmdResult", "sendByteArray"}

Signals ==
  [sig : ServerSignals \cup Answers \cup {"sendError"}, cmd : Commands,
   ok : BOOLEAN, at : Endpoints \cup {NoEndpoint}]

Answer(sig, cmd, ok) ==
  [sig |-> sig, cmd |-> cmd, ok |-> ok, at |-> NoEndpoint]

Server(sig, at) == [sig |-> sig, cmd |-> "NONE", ok |-> TRUE, at |-> at]

RefuseErrorOnly(cmd) == <<Answer("sendError", cmd, FALSE)>>  \* faulty variant

(* A command that cannot be carried out: sendError, then sendCMDFail.      *)
Refuse(cmd) ==
  <<Answer("sendError", cmd, FALSE), Answer("sendCMDFail", cmd, FALSE)>>

(* The commands that only read, and the signal that answers them.          *)
ReadAnswer ==
  [GET_DEVICE_INFO_PACKET |-> "sendDeviceInfoPacket",
   GET_DAEMON_PACKET |-> "sendDaemonPacket",
   GET_PROFILE_LIST |-> "sendProfileList",
   EXPORT_PROFILES |-> "sendExportedProfiles",
   GET_DAEMON_SETTS |-> "sendByteArray"]

-----------------------------------------------------------------------------
(* The apply timer.                                                        *)

NullTimer == [state |-> "null", interval |-> 0, elapsed |-> 0]

Timer(state, interval) ==
  [state |-> state, interval |-> interval, elapsed |-> 0]

StopApplyTimer(t) ==
  IF t.state = "null" THEN t ELSE Timer("stopped", t.interval)

StartAnyTimer(t) == Timer("running", t.interval)             \* faulty variant
StartNoTimer(t) == t                                         \* faulty variant

StartApplyTimer(t) ==
  IF t.state = "null" THEN t ELSE Timer("running", t.interval)

SetApplyTimer(interval) ==
  IF interval <= MinApplyInterval THEN NullTimer
                                  ELSE Timer("running", interval)

-----------------------------------------------------------------------------
(* Settings, listening endpoint, logger.                                   *)

(* What daemonSettings->load makes of the file when it replaces `current`. *)
LoadedOr(file, current) == IF file = NoData THEN current ELSE file

ListenAddress(s) ==
  IF CmdAdr = NoAdr THEN s.adr
  ELSE IF CmdAdr \in Addresses THEN CmdAdr ELSE AnyAdr

ServerPort(s) ==
  IF CmdPort = 0 THEN s.port
  ELSE IF CmdPort \in Ports THEN CmdPort ELSE DefaultPort

CmdEndpoint(s) == [adr |-> ListenAddress(s), port |-> ServerPort(s)]

SettingsEndpoint(s) == [adr |-> s.adr, port |-> s.port]

PortMoved(old, new) == old.port # new.port                   \* faulty variant

EndpointMoved(old, new) == old.adr # new.adr \/ old.port # new.port

SetLogLevel(level) == [logger EXCEPT !.level = level]

InitLogger(level, opens) ==
  IF level # LogNone /\ opens THEN [level |-> level, open |-> TRUE]
                              ELSE [level |-> LogNone, open |-> FALSE]

-----------------------------------------------------------------------------
(* Applying a packet: what the device then holds.                          *)

Holds(packet, ok) == IF ok THEN packet ELSE NoPacket

KeepProfileOnClientApply(packet, ok) ==                      \* faulty variant
  /\ hardware' = Holds(packet, ok)
  /\ lastClientPacket' = Holds(packet, ok)
  /\ UNCHANGED activeProfile

KeepPacketOnClientFailure(packet, ok) ==                     \* faulty variant
  /\ hardware' = Holds(packet, ok)
  /\ lastClientPacket' = IF ok THEN packet ELSE lastClientPacket
  /\ activeProfile' = NoProfile

(* applyClientSettings forgets the profile and the previous packet even    *)
(* when the device refuses part of the new one.                            *)
ApplyClientPacket(packet, ok) ==
  /\ hardware' = Holds(packet, ok)
  /\ lastClientPacket' = Holds(packet, ok)
  /\ activeProfile' = NoProfile

RecordFailedProfile(name, ok) ==                             \* faulty variant
  IF profiles[name] \in Packets
  THEN /\ hardware' = Holds(profiles[name], ok)
       /\ lastClientPacket' = profiles[name]
       /\ activeProfile' = name
  ELSE ~ok /\ UNCHANGED appliedVars

RecordProfileNameOnly(name, ok) ==                           \* faulty variant
  IF profiles[name] \in Packets
  THEN /\ hardware' = Holds(profiles[name], ok)
       /\ activeProfile' = IF ok THEN name ELSE activeProfile
       /\ UNCHANGED lastClientPacket
  ELSE ~ok /\ UNCHANGED appliedVars

(* A profile that fails to load changes nothing; one the device refuses    *)
(* leaves the previous packet in charge of a device in a mixed state.      *)
ApplyProfileSettings(name, ok) ==
  IF profiles[name] \in Packets
  THEN /\ hardware' = Holds(profiles[name], ok)
       /\ lastClientPacket' = IF ok THEN profiles[name] ELSE lastClientPacket
       /\ activeProfile' = IF ok THEN name ELSE activeProfile
  ELSE ~ok /\ UNCHANGED appliedVars

(* The on start profile of start and reload, if there is one.              *)
ApplyOnStart(s) ==
  IF s.onStartProfile = NoProfile
  THEN UNCHANGED appliedVars
  ELSE \E ok \in BOOLEAN : ApplyProfileSettings(s.onStartProfile, ok)

Reapply(ok) ==
  /\ hardware' = Holds(lastClientPacket, ok)
  /\ UNCHANGED <<lastClientPacket, activeProfile>>

-----------------------------------------------------------------------------
(* The process: start, reload on SIGHUP, orderly stop, sudden death.       *)

Init ==
  /\ up = FALSE
  /\ settings = DefaultSettings
  /\ diskSettings \in SettingsData \cup {NoData}
  /\ settingsSaved = TRUE
  /\ profiles \in [Profiles -> Packets \cup {NoFile, BadFile}]
  /\ lastClientPacket = NoPacket
  /\ activeProfile = NoProfile
  /\ applyTimer = NullTimer
  /\ hardware = NoPacket
  /\ logger = [level |-> LogNone, open |-> FALSE]
  /\ endpoint = NoEndpoint
  /\ sent = <<>>

(* main asks for the settings before their path is known, so the logger    *)
(* always starts at the default level; DaemonService::start loads them.    *)
Start ==
  /\ ~up
  /\ up' = TRUE
  /\ LET s == LoadedOr(diskSettings, DefaultSettings) IN
     /\ settings' = s
     /\ endpoint' = CmdEndpoint(s)
     /\ sent' = <<Server("connectService", CmdEndpoint(s))>>
     /\ ApplyOnStart(s)
     /\ applyTimer' = SetApplyTimer(s.applyInterval)
  /\ \E opens \in LogOpens :
       logger' = InitLogger(DefaultSettings.logLevel, opens)
  /\ settingsSaved' = TRUE
  /\ UNCHANGED <<diskSettings, profiles>>

(* SIGHUP.  A file that no longer loads leaves the settings in memory.     *)
Reload ==
  /\ up
  /\ LET s == LoadedOr(diskSettings, settings) IN
     /\ settings' = s
     /\ endpoint' = CmdEndpoint(s)
     /\ sent' = <<Server("stopService", NoEndpoint),
                  Server("connectService", CmdEndpoint(s))>>
     /\ ApplyOnStart(s)
     /\ applyTimer' = SetApplyTimer(s.applyInterval)
     /\ \E opens \in LogOpens : logger' = InitLogger(s.logLevel, opens)
  /\ UNCHANGED <<up, diskVars>>

(* What the process kept in memory is gone; files and device stay.         *)
MemoryLost ==
  /\ up
  /\ up' = FALSE
  /\ settings' = DefaultSettings
  /\ lastClientPacket' = NoPacket
  /\ activeProfile' = NoProfile
  /\ applyTimer' = NullTimer
  /\ logger' = [level |-> LogNone, open |-> FALSE]
  /\ endpoint' = NoEndpoint
  /\ sent' = <<>>
  /\ UNCHANGED hardware

(* SIGTERM or SIGINT.                                                      *)
Stop == MemoryLost /\ UNCHANGED diskVars

(* Killed while a file is being rewritten in place: the file is torn, or   *)
(* whole although nobody was told so.                                      *)
CrashInSave ==
  /\ MemoryLost
  /\ \/ /\ diskSettings' \in SettingsData \cup {NoData}
        /\ settingsSaved' = FALSE
        /\ UNCHANGED profiles
     \/ /\ \E n \in Profiles, content \in Packets \cup {BadFile} :
             profiles' = [profiles EXCEPT ![n] = content]
        /\ UNCHANGED <<diskSettings, settingsSaved>>

-----------------------------------------------------------------------------
(* onCmdReceived: the timer is stopped, the command runs, the timer is     *)
(* started again; a message with missing arguments never gets that far.    *)

Handling ==
  /\ up
  /\ applyTimer' = StartApplyTimer(StopApplyTimer(applyTimer))

InvalidArgs ==
  /\ up
  /\ sent' = <<Answer("sendError", "NONE", FALSE)>>
  /\ UNCHANGED <<up, applyTimer, confVars, diskVars, appliedVars>>

Read(cmd) ==
  /\ Handling
  /\ sent' = <<Answer(ReadAnswer[cmd], cmd, TRUE)>>
  /\ UNCHANGED <<up, confVars, diskVars, appliedVars>>

(* An unknown command, data that is no packet, a packet of another system. *)
RefusedCommand(cmd) ==
  /\ Handling
  /\ sent' = Refuse(cmd)
  /\ UNCHANGED <<up, confVars, diskVars, appliedVars>>

ApplyClientSettings(packet, ok) ==
  /\ Handling
  /\ ApplyClientPacket(packet, ok)
  /\ sent' = <<Answer("sendSettingsApplyResult", "APPLY_CLIENT_SETTINGS", ok)>>
  /\ UNCHANGED <<up, confVars, diskVars>>

ApplyProfile(name, ok) ==
  /\ Handling
  /\ ApplyProfileSettings(name, ok)
  /\ sent' = <<Answer("sendSettingsApplyResult", "APPLY_PROFILE", ok)>>
  /\ UNCHANGED <<up, confVars, diskVars>>

(* A refused write leaves the file alone or torn.                          *)
WriteProfile(name, packet, ok) ==
  /\ Handling
  /\ \E content \in IF ok THEN {packet} ELSE {profiles[name], BadFile} :
       profiles' = [profiles EXCEPT ![name] = content]
  /\ sent' = <<Answer("sendCmdResult", "WRITE_PROFILE", ok)>>
  /\ UNCHANGED <<up, diskSettings, settingsSaved, confVars, appliedVars>>

DeleteProfile(name, ok) ==
  /\ Handling
  /\ ok => profiles[name] # NoFile
  /\ profiles' = IF ok THEN [profiles EXCEPT ![name] = NoFile] ELSE profiles
  /\ sent' = <<Answer("sendCmdResult", "DELETE_PROFILE", ok)>>
  /\ UNCHANGED <<up, diskSettings, settingsSaved, confVars, appliedVars>>

(* The stored packet may still not fit the cores the system has now.       *)
LoadProfile(name) ==
  /\ Handling
  /\ \/ /\ profiles[name] \in Packets
        /\ sent' = <<Answer("sendLoadedProfile", "LOAD_PROFILE", TRUE)>>
     \/ sent' = Refuse("LOAD_PROFILE")
  /\ UNCHANGED <<up, confVars, diskVars, appliedVars>>

(* Files arrive as they are: only their signature is looked at, so one     *)
(* that load refuses can be stored.  Each may be written, refused or torn. *)
ImportProfiles(names) ==
  /\ Handling
  /\ \E written \in SUBSET names :
       /\ \E content \in [names -> Packets \cup {BadFile}] :
            \E torn \in SUBSET (names \ written) :
              profiles' =
                [n \in Profiles |-> IF n \in written THEN content[n]
                                    ELSE IF n \in torn THEN BadFile
                                    ELSE profiles[n]]
       /\ sent' =
            <<Answer("sendCmdResult", "IMPORT_PROFILES", written = names)>>
  /\ UNCHANGED <<up, diskSettings, settingsSaved, confVars, appliedVars>>

(* The only command that is not answered.                                  *)
ImportUnreadable ==
  /\ Handling
  /\ sent' = <<>>
  /\ UNCHANGED <<up, confVars, diskVars, appliedVars>>

AlwaysSaved(saved) == TRUE                                   \* faulty variant

SaveResult(saved) == saved

(* Memory, logger, server and timer follow the new settings before they    *)
(* are saved, and stay so when saving fails.                               *)
ApplyDaemonSettings(data, saved) ==
  /\ up
  /\ settings' = data
  /\ logger' = SetLogLevel(data.logLevel)
  /\ applyTimer' = StartApplyTimer(SetApplyTimer(data.applyInterval))
  /\ endpoint' = IF EndpointMoved(settings, data)
                 THEN SettingsEndpoint(data) ELSE endpoint
  /\ sent' = (IF EndpointMoved(settings, data)
              THEN <<Server("restartService", SettingsEndpoint(data))>>
              ELSE <<>>)
             \o <<Answer("sendCmdResult", "APPLY_DAEMON_SETT",
                         SaveResult(saved))>>
  /\ diskSettings' \in IF saved THEN {data} ELSE {diskSettings, NoData}
  /\ settingsSaved' = SaveResult(saved)
  /\ UNCHANGED <<up, profiles, appliedVars>>

(* A blob that DaemonSettings::load refuses is dropped.                    *)
RefuseDaemonSettings ==
  /\ Handling
  /\ sent' = <<Answer("sendCmdResult", "APPLY_DAEMON_SETT", FALSE)>>
  /\ UNCHANGED <<up, confVars, diskVars, appliedVars>>

Command ==
  \/ \E cmd \in DOMAIN ReadAnswer : Read(cmd)
  \/ \E cmd \in {"INVALID_DCMD", "APPLY_CLIENT_SETTINGS", "WRITE_PROFILE"} :
       RefusedCommand(cmd)
  \/ \E p \in Packets, ok \in BOOLEAN : ApplyClientSettings(p, ok)
  \/ \E n \in Profiles, ok \in BOOLEAN : ApplyProfile(n, ok)
  \/ \E n \in Profiles, p \in Packets, ok \in BOOLEAN : WriteProfile(n, p, ok)
  \/ \E n \in Profiles, ok \in BOOLEAN : DeleteProfile(n, ok)
  \/ \E n \in Profiles : LoadProfile(n)
  \/ \E names \in SUBSET Profiles : ImportProfiles(names)
  \/ \E data \in SettingsData, saved \in BOOLEAN :
       ApplyDaemonSettings(data, saved)
  \/ RefuseDaemonSettings

-----------------------------------------------------------------------------
(* Events of the system: time, battery, sleep, the device itself.          *)

Tick ==
  /\ up
  /\ applyTimer.state = "running" => applyTimer.elapsed < applyTimer.interval
  /\ applyTimer' = IF applyTimer.state = "running"
                   THEN [applyTimer EXCEPT !.elapsed = @ + 1]
                   ELSE applyTimer
  /\ sent' = <<>>
  /\ UNCHANGED <<up, confVars, diskVars, appliedVars>>

OnApplyTimerTimeout(ok) ==
  /\ up
  /\ applyTimer.state = "running"
  /\ applyTimer.elapsed = applyTimer.interval
  /\ IF lastClientPacket = NoPacket
     THEN /\ applyTimer' = StopApplyTimer(applyTimer)
          /\ sent' = <<>>
          /\ UNCHANGED appliedVars
     ELSE /\ Reapply(ok)
          /\ sent' = <<Answer("sendSettingsApplyResult", "APPLY_TIMER", ok)>>
          /\ applyTimer' = StartApplyTimer(StopApplyTimer(applyTimer))
  /\ UNCHANGED <<up, confVars, diskVars>>

OnBatteryStatusChanged(onBattery, ok) ==
  LET profile == IF onBattery THEN settings.onBatteryProfile
                              ELSE settings.onPowerSupplyProfile
  IN
  /\ Handling
  /\ ~settings.ignoreBatteryEvent
  /\ profile # NoProfile
  /\ ApplyProfileSettings(profile, ok)
  /\ sent' = <<Answer("sendSettingsApplyResult", "BATTERY_STATUS_CHANGED", ok)>>
  /\ UNCHANGED <<up, confVars, diskVars>>

(* The fans are handed back to the firmware, then the machine sleeps.      *)
OnPrepareForSleep ==
  /\ up
  /\ hardware' = NoPacket
  /\ sent' = <<>>
  /\ UNCHANGED <<up, applyTimer, confVars, diskVars, lastClientPacket,
                 activeProfile>>

OnWakeFromSleep(ok) ==
  /\ Handling
  /\ IF settings.applyOnWake /\ lastClientPacket # NoPacket
     THEN /\ Reapply(ok)
          /\ sent' =
               <<Answer("sendSettingsApplyResult", "SYS_WAKE_FROM_SLEEP", ok),
                 Answer("sendDaemonPacket", "GET_DAEMON_PACKET", TRUE)>>
     ELSE /\ sent' =
               <<Answer("sendDaemonPacket", "GET_DAEMON_PACKET", TRUE)>>
          /\ UNCHANGED appliedVars
  /\ UNCHANGED <<up, confVars, diskVars>>

(* Firmware, the system or another program changes what was applied.       *)
Drift ==
  /\ up
  /\ hardware # NoPacket
  /\ hardware' = NoPacket
  /\ sent' = <<>>
  /\ UNCHANGED <<up, applyTimer, confVars, diskVars, lastClientPacket,
                 activeProfile>>

Next ==
  \/ Start \/ Reload \/ Stop \/ CrashInSave
  \/ Command \/ InvalidArgs \/ ImportUnreadable
  \/ Tick
  \/ \E ok \in BOOLEAN : OnApplyTimerTimeout(ok)
  \/ \E onBattery, ok \in BOOLEAN : OnBatteryStatusChanged(onBattery, ok)
  \/ OnPrepareForSleep
  \/ \E ok \in BOOLEAN : OnWakeFromSleep(ok)
  \/ Drift

Spec == Init /\ [][Next]_vars

(* Time passes and an expired timer is delivered; a device that could take *)
(* the packet at infinitely many expiries takes it at some.                *)
FairSpec ==
  /\ Spec
  /\ WF_vars(Tick)
  /\ WF_vars(\E ok \in BOOLEAN : OnApplyTimerTimeout(ok))
  /\ SF_vars(OnApplyTimerTimeout(TRUE))

-----------------------------------------------------------------------------
(* The values of the variables: in particular a timer object exists only   *)
(* for an interval above the minimum.                                      *)
TypeOK ==
  /\ up \in BOOLEAN
  /\ settings \in SettingsData
  /\ diskSettings \in SettingsData \cup {NoData}
  /\ settingsSaved \in BOOLEAN
  /\ profiles \in [Profiles -> Packets \cup {NoFile, BadFile}]
  /\ lastClientPacket \in Packets \cup {NoPacket}
  /\ activeProfile \in Profiles \cup {NoProfile}
  /\ applyTimer \in
       {NullTimer} \cup [state : {"stopped", "running"},
                         interval : {i \in Nat : i > MinApplyInterval},
                         elapsed : Nat]
  /\ hardware \in Packets \cup {NoPacket}
  /\ logger \in [level : LogLevels, open : BOOLEAN]
  /\ endpoint \in Endpoints \cup {NoEndpoint}
  /\ sent \in Seq(Signals)

(* The timer is never lost: whatever mix of commands, battery events,      *)
(* wakes, reloads and new settings ran before, a daemon whose settings ask *)
(* for periodic re-application and that has a packet to re-apply has a     *)
(* running timer with the interval of the settings now in force; and a     *)
(* daemon whose settings do not ask for it has no timer.                   *)
TimerMatchesSettings ==
  up => IF settings.applyInterval > MinApplyInterval
        THEN /\ applyTimer.state # "null"
             /\ applyTimer.interval = settings.applyInterval
             /\ lastClientPacket # NoPacket => applyTimer.state = "running"
        ELSE applyTimer = NullTimer

(* The profile shown to clients as active is backed by a packet: the timer *)
(* and a wake never find a named profile and nothing to re-apply.          *)
ActiveProfileHasPacket ==
  activeProfile # NoProfile => lastClientPacket # NoPacket

(* When the last answer to APPLY_DAEMON_SETT was "saved" and no save was   *)
(* cut short since, what runs is what a restart would load.                *)
LiveSettingsMatchDisk ==
  up /\ settingsSaved => settings = LoadedOr(diskSettings, DefaultSettings)

(* The server was last told to listen where the command line puts it or    *)
(* where the settings in force put it, never at a place of older settings. *)
EndpointIsCurrent ==
  up => endpoint \in {CmdEndpoint(settings), SettingsEndpoint(settings)}

(* A packet becomes the one to re-apply only in a step in which the device *)
(* took all of it.                                                         *)
PacketRecordedWhenApplied ==
  [][lastClientPacket' \notin {lastClientPacket, NoPacket}
       => hardware' = lastClientPacket']_vars

(* A profile becomes active only together with the packet its file holds.  *)
ActiveProfileFromDisk ==
  [][activeProfile' \notin {activeProfile, NoProfile}
       => lastClientPacket' = profiles'[activeProfile']]_vars

(* The daemon keeps the promise of AppliedSettings: every slot either       *)
(* leaves packet, profile and device alone or does one of its steps.       *)
Promise == INSTANCE AppliedSettings
             WITH lastClientPacket <- lastClientPacket,
                  activeProfile <- activeProfile, hardware <- hardware

KeepsPromise == Promise!Spec

(* Every command that reaches its handler is answered exactly once, an     *)
(* import that cannot be unpacked excepted.                                *)
AnsweredOnce ==
  [][Command => \E i \in DOMAIN sent' :
        /\ sent'[i].sig \in Answers
        /\ \A j \in DOMAIN sent' : sent'[j].sig \in Answers => j = i]_vars

(* Once only time passes and the timer fires, a device that lost the       *)
(* settings (a sleep, a drift, a refused profile, a failed attempt) gets   *)
(* them back, and again after every further failure.                       *)
Armed == up /\ lastClientPacket # NoPacket
            /\ settings.applyInterval > MinApplyInterval

DriftRepaired ==
  <>[][Tick \/ \E ok \in BOOLEAN : OnApplyTimerTimeout(ok)]_vars
    => []<>(Armed => hardware = lastClientPacket)
=============================================================================
