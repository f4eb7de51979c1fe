------------------------ MODULE DaemonServiceProofs ------------------------
(***************************************************************************)
(* Proofs about DaemonService, for all packets, profiles, settings,        *)
(* addresses and ports.                                                    *)
(***************************************************************************)
EXTENDS DaemonService, SequenceTheorems, TLAPS

-----------------------------------------------------------------------------
(* Lemmas about the operators the actions are built from.                  *)

(* What the end of a slot does to the timer: a null timer stays null, any  *)
(* other runs with the interval it had.                                    *)
LEMMA RestartedTimer ==
  ASSUME TypeOK
  PROVE  LET t == StartApplyTimer(StopApplyTimer(applyTimer)) IN
         /\ applyTimer = NullTimer => t = NullTimer
         /\ applyTimer # NullTimer =>
              /\ applyTimer.state \in {"stopped", "running"}
              /\ applyTimer.interval \in {i \in Nat : i > MinApplyInterval}
              /\ t = Timer("running", applyTimer.interval)
  BY DEF TypeOK, StartApplyTimer, StopApplyTimer, Timer, NullTimer

(* The values TypeOK allows for the timer.                                 *)
TimerType ==
  {NullTimer} \cup [state : {"stopped", "running"},
                    interval : {i \in Nat : i > MinApplyInterval},
                    elapsed : Nat]

LEMMA TimerTypes ==
  /\ \A s \in SettingsData : SetApplyTimer(s.applyInterval) \in TimerType
  /\ \A t \in TimerType : StopApplyTimer(t) \in TimerType
  /\ \A t \in TimerType : StartApplyTimer(t) \in TimerType
  BY ConstantsAssumption
  DEF SettingsFields, SetApplyTimer, StopApplyTimer, StartApplyTimer, Timer,
      NullTimer, TimerType

(* A listening endpoint is always a proper one, whatever the options are.  *)
LEMMA EndpointTypes ==
  ASSUME NEW s \in SettingsData
  PROVE  /\ CmdEndpoint(s) \in Endpoints
         /\ SettingsEndpoint(s) \in Endpoints
  BY ConstantsAssumption
  DEF CmdEndpoint, SettingsEndpoint, ListenAddress, ServerPort, Endpoints,
      SettingsFields

(* A settings file that does not load is replaced by proper settings.      *)
LEMMA LoadedTypes ==
  ASSUME NEW file \in SettingsData \cup {NoData}, NEW current \in SettingsData
  PROVE  LoadedOr(file, current) \in SettingsData
  BY DEF LoadedOr

LEMMA SignalTypes ==
  /\ \A sig \in Answers \cup {"sendError"}, cmd \in Commands, ok \in BOOLEAN :
       Answer(sig, cmd, ok) \in Signals
  /\ \A sig \in ServerSignals, at \in Endpoints \cup {NoEndpoint} :
       Server(sig, at) \in Signals
  BY DEF Answer, Server, Signals, Commands

LEMMA PairSeq ==
  ASSUME NEW S, NEW a \in S, NEW b \in S
  PROVE  <<a, b>> \in Seq(S)
  OBVIOUS

LEMMA AnswerSeq ==
  ASSUME NEW sig \in Answers \cup {"sendError"}, NEW cmd \in Commands,
         NEW ok \in BOOLEAN
  PROVE  <<Answer(sig, cmd, ok)>> \in Seq(Signals)
  BY SignalTypes

LEMMA RefuseSeq ==
  ASSUME NEW cmd \in Commands
  PROVE  Refuse(cmd) \in Seq(Signals)
  <1>1. /\ Answer("sendError", cmd, FALSE) \in Signals
        /\ Answer("sendCMDFail", cmd, FALSE) \in Signals
    BY SignalTypes DEF Answers
  <1>. QED
    BY <1>1, PairSeq DEF Refuse

LEMMA LoggerTypes ==
  ASSUME TypeOK, NEW level \in LogLevels, NEW opens \in BOOLEAN
  PROVE  /\ InitLogger(level, opens) \in [level : LogLevels, open : BOOLEAN]
         /\ SetLogLevel(level) \in [level : LogLevels, open : BOOLEAN]
  BY ConstantsAssumption DEF TypeOK, InitLogger, SetLogLevel

(* Applying leaves packet, profile and device within their types, keeps a  *)
(* named profile backed by a packet, and is a step of AppliedSettings.     *)
AppliedType ==
  /\ lastClientPacket \in Packets \cup {NoPacket}
  /\ activeProfile \in Profiles \cup {NoProfile}
  /\ hardware \in Packets \cup {NoPacket}
  /\ ActiveProfileHasPacket

LEMMA ClientApplied ==
  ASSUME AppliedType, NEW packet \in Packets, NEW ok \in BOOLEAN,
         ApplyClientPacket(packet, ok)
  PROVE  AppliedType'
  BY ConstantsAssumption
  DEF AppliedType, ActiveProfileHasPacket, ApplyClientPacket, Holds

LEMMA ProfileApplied ==
  ASSUME AppliedType, NEW name \in Profiles, NEW ok \in BOOLEAN,
         ApplyProfileSettings(name, ok)
  PROVE  AppliedType'
  BY ConstantsAssumption
  DEF AppliedType, ActiveProfileHasPacket, ApplyProfileSettings, appliedVars,
      Holds

LEMMA OnStartApplied ==
  ASSUME AppliedType, NEW s \in SettingsData, ApplyOnStart(s)
  PROVE  AppliedType'
  <1>1. CASE s.onStartProfile = NoProfile
    BY <1>1 DEF ApplyOnStart, AppliedType, ActiveProfileHasPacket, appliedVars
  <1>2. CASE s.onStartProfile # NoProfile
    <2>1. s.onStartProfile \in Profiles
      BY <1>2, ConstantsAssumption DEF SettingsFields
    <2>. QED
      BY <1>2, <2>1, ProfileApplied DEF ApplyOnStart
  <1>. QED
    BY <1>1, <1>2

LEMMA Reapplied ==
  ASSUME AppliedType, NEW ok \in BOOLEAN, Reapply(ok)
  PROVE  AppliedType'
  BY DEF AppliedType, ActiveProfileHasPacket, Reapply, Holds

-----------------------------------------------------------------------------
(* The inductive invariant: the types and the four state invariants.  The  *)
(* types carry the others: that settings are proper settings gives the     *)
(* intervals and endpoints, that a timer object has an interval above the  *)
(* minimum tells a timer that must be absent from one that must run.       *)
Inv ==
  /\ TypeOK
  /\ TimerMatchesSettings
  /\ ActiveProfileHasPacket
  /\ LiveSettingsMatchDisk
  /\ EndpointIsCurrent

LEMMA InitInv == Init => Inv
  <1> SUFFICES ASSUME Init PROVE Inv
    OBVIOUS
  <1>1. TypeOK
    BY ConstantsAssumption, EmptySeq DEF Init, TypeOK
  <1>2. TimerMatchesSettings /\ LiveSettingsMatchDisk /\ EndpointIsCurrent
    BY DEF Init, TimerMatchesSettings, LiveSettingsMatchDisk, EndpointIsCurrent
  <1>3. ActiveProfileHasPacket
    BY DEF Init, ActiveProfileHasPacket
  <1>. QED
    BY <1>1, <1>2, <1>3 DEF Inv

(* A slot that stops and restarts the timer and touches neither settings,  *)
(* logger, endpoint nor the settings file keeps the invariant, if what it  *)
(* applies, writes to the profiles folder and sends has the right type.    *)
LEMMA SlotKeepsInv ==
  ASSUME Inv, Handling, UNCHANGED <<up, confVars, diskSettings, settingsSaved>>,
         AppliedType', sent' \in Seq(Signals),
         profiles' \in [Profiles -> Packets \cup {NoFile, BadFile}]
  PROVE  Inv'
  <1> USE DEF Inv
  <1>1. applyTimer' \in TimerType
    BY TimerTypes DEF Handling, TypeOK, TimerType
  <1>2. TypeOK'
    BY <1>1 DEF TypeOK, AppliedType, confVars, TimerType
  <1>3. TimerMatchesSettings'
    BY RestartedTimer DEF TimerMatchesSettings, Handling, confVars, NullTimer,
       Timer
  <1>4. ActiveProfileHasPacket'
    BY DEF AppliedType
  <1>5. LiveSettingsMatchDisk'
    BY DEF LiveSettingsMatchDisk, LoadedOr, confVars
  <1>6. EndpointIsCurrent'
    BY DEF EndpointIsCurrent, CmdEndpoint, SettingsEndpoint, ListenAddress,
       ServerPort, confVars
  <1>. QED
    BY <1>2, <1>3, <1>4, <1>5, <1>6

(* So does a step that leaves the timer alone as well.                     *)
LEMMA QuietStepKeepsInv ==
  ASSUME Inv, UNCHANGED <<up, confVars, diskVars>>,
         \/ applyTimer' = applyTimer
         \/ /\ applyTimer.state = "running"
            /\ applyTimer' = [applyTimer EXCEPT !.elapsed = @ + 1]
         \/ lastClientPacket' = NoPacket /\ applyTimer' = StopApplyTimer(applyTimer),
         AppliedType', lastClientPacket' = lastClientPacket,
         sent' \in Seq(Signals)
  PROVE  Inv'
  <1> USE DEF Inv
  <1>1. applyTimer' \in TimerType
    BY TimerTypes DEF TypeOK, TimerType, NullTimer
  <1>2. TypeOK'
    BY <1>1 DEF TypeOK, AppliedType, confVars, diskVars, TimerType
  <1>3. TimerMatchesSettings'
    BY DEF TimerMatchesSettings, TypeOK, confVars, NullTimer, Timer,
       StopApplyTimer
  <1>4. ActiveProfileHasPacket'
    BY DEF AppliedType
  <1>5. LiveSettingsMatchDisk'
    BY DEF LiveSettingsMatchDisk, LoadedOr, confVars, diskVars
  <1>6. EndpointIsCurrent'
    BY DEF EndpointIsCurrent, CmdEndpoint, SettingsEndpoint, ListenAddress,
       ServerPort, confVars
  <1>. QED
    BY <1>2, <1>3, <1>4, <1>5, <1>6

(* Taking over settings as start and reload do.                            *)
LEMMA TakeOverKeepsInv ==
  ASSUME Inv, NEW s \in SettingsData, up', settings' = s,
         endpoint' = CmdEndpoint(s),
         applyTimer' = SetApplyTimer(s.applyInterval),
         ApplyOnStart(s),
         sent' \in Seq(Signals),
         logger' \in [level : LogLevels, open : BOOLEAN],
         settingsSaved' \in BOOLEAN,
         settingsSaved' => s = LoadedOr(diskSettings, DefaultSettings),
         UNCHANGED <<diskSettings, profiles>>
  PROVE  Inv'
  <1> USE DEF Inv
  <1>1. AppliedType'
    BY OnStartApplied DEF AppliedType, TypeOK
  <1>2. applyTimer' \in TimerType
    BY TimerTypes
  <1>3. endpoint' \in Endpoints
    BY EndpointTypes
  <1>4. TypeOK'
    BY <1>1, <1>2, <1>3 DEF TypeOK, AppliedType, TimerType
  <1>5. TimerMatchesSettings'
    <2>1. s.applyInterval \in Nat
      BY ConstantsAssumption DEF SettingsFields
    <2>. QED
      BY <2>1, ConstantsAssumption
      DEF TimerMatchesSettings, SetApplyTimer, Timer, NullTimer
  <1>6. ActiveProfileHasPacket'
    BY <1>1 DEF AppliedType
  <1>7. LiveSettingsMatchDisk'
    BY DEF LiveSettingsMatchDisk, LoadedOr
  <1>8. EndpointIsCurrent'
    BY DEF EndpointIsCurrent, CmdEndpoint, ListenAddress, ServerPort
  <1>. QED
    BY <1>4, <1>5, <1>6, <1>7, <1>8

-----------------------------------------------------------------------------
(* Every action keeps the invariant.                                       *)

LEMMA ProcessKeepsInv ==
  ASSUME Inv, Start \/ Reload \/ Stop \/ CrashInSave
  PROVE  Inv'
  <1> USE DEF Inv
  <1>1. CASE Start
    <2> DEFINE s == LoadedOr(diskSettings, DefaultSettings)
    <2>1. s \in SettingsData
      BY LoadedTypes, ConstantsAssumption DEF TypeOK
    <2>2. logger' \in [level : LogLevels, open : BOOLEAN]
      BY <1>1, LoggerTypes, ConstantsAssumption DEF Start, SettingsFields
    <2>3. sent' \in Seq(Signals)
      BY <1>1, <2>1, EndpointTypes, SignalTypes DEF Start, ServerSignals
    <2>. QED
      BY <1>1, <2>1, <2>2, <2>3, TakeOverKeepsInv DEF Start
  <1>2. CASE Reload
    <2> DEFINE s == LoadedOr(diskSettings, settings)
    <2>1. s \in SettingsData
      BY LoadedTypes DEF TypeOK
    <2>2. logger' \in [level : LogLevels, open : BOOLEAN]
      BY <1>2, <2>1, LoggerTypes, ConstantsAssumption DEF Reload, SettingsFields
    <2>3. sent' \in Seq(Signals)
      <3>1. /\ Server("stopService", NoEndpoint) \in Signals
            /\ Server("connectService", CmdEndpoint(s)) \in Signals
        BY <2>1, EndpointTypes, SignalTypes DEF ServerSignals
      <3>. QED
        BY <1>2, <3>1, PairSeq DEF Reload
    <2>4. settingsSaved' => s = LoadedOr(diskSettings, DefaultSettings)
      BY <1>2 DEF Reload, diskVars, LoadedOr, LiveSettingsMatchDisk
    <2>5. up' /\ settingsSaved' \in BOOLEAN /\ UNCHANGED <<diskSettings, profiles>>
      BY <1>2 DEF Reload, diskVars, TypeOK
    <2>. QED
      BY <1>2, <2>1, <2>2, <2>3, <2>4, <2>5, TakeOverKeepsInv DEF Reload
  <1>3. CASE MemoryLost /\ diskSettings' \in SettingsData \cup {NoData}
             /\ settingsSaved' \in BOOLEAN
             /\ profiles' \in [Profiles -> Packets \cup {NoFile, BadFile}]
    <2>1. TypeOK'
      BY <1>3, ConstantsAssumption, EmptySeq DEF MemoryLost, TypeOK
    <2>2. TimerMatchesSettings' /\ LiveSettingsMatchDisk' /\ EndpointIsCurrent'
      BY <1>3 DEF MemoryLost, TimerMatchesSettings, LiveSettingsMatchDisk,
         EndpointIsCurrent
    <2>3. ActiveProfileHasPacket'
      BY <1>3 DEF MemoryLost, ActiveProfileHasPacket
    <2>. QED
      BY <2>1, <2>2, <2>3
  <1>4. CASE Stop
    BY <1>3, <1>4 DEF Stop, diskVars, TypeOK
  <1>5. CASE CrashInSave
    <2>1. diskSettings' \in SettingsData \cup {NoData} /\ settingsSaved' \in BOOLEAN
      BY <1>5 DEF CrashInSave, TypeOK
    <2>2. profiles' \in [Profiles -> Packets \cup {NoFile, BadFile}]
      BY <1>5 DEF CrashInSave, TypeOK
    <2>. QED
      BY <1>3, <1>5, <2>1, <2>2 DEF CrashInSave
  <1>. QED
    BY <1>1, <1>2, <1>4, <1>5

LEMMA CommandKeepsInv ==
  ASSUME Inv, Command \/ InvalidArgs \/ ImportUnreadable
  PROVE  Inv'
  <1> USE DEF Inv
  <1>0. AppliedType /\ (UNCHANGED appliedVars => AppliedType')
    BY DEF AppliedType, TypeOK, appliedVars, ActiveProfileHasPacket
  <1>. DEFINE P == [Profiles -> Packets \cup {NoFile, BadFile}]
  <1>p. profiles \in P
    BY DEF TypeOK
  <1>1. ASSUME NEW cmd \in DOMAIN ReadAnswer, Read(cmd)
        PROVE  Inv'
    <2>1. cmd \in Commands /\ ReadAnswer[cmd] \in Answers
      BY DEF ReadAnswer, Commands, Answers
    <2>2. sent' \in Seq(Signals)
      BY <1>1, <2>1, AnswerSeq DEF Read
    <2>. QED
      BY <1>0, <1>1, <1>p, <2>2, SlotKeepsInv DEF Read, diskVars
  <1>2. ASSUME NEW cmd \in {"INVALID_DCMD", "APPLY_CLIENT_SETTINGS", "WRITE_PROFILE"},
               RefusedCommand(cmd)
        PROVE  Inv'
    <2>1. sent' \in Seq(Signals)
      BY <1>2, RefuseSeq DEF RefusedCommand, Commands
    <2>. QED
      BY <1>0, <1>2, <1>p, <2>1, SlotKeepsInv DEF RefusedCommand, diskVars
  <1>3. ASSUME NEW p \in Packets, NEW ok \in BOOLEAN, ApplyClientSettings(p, ok)
        PROVE  Inv'
    <2>1. sent' \in Seq(Signals)
      BY <1>3, AnswerSeq DEF ApplyClientSettings, Commands, Answers
    <2>. QED
      BY <1>0, <1>3, <1>p, <2>1, ClientApplied, SlotKeepsInv
      DEF ApplyClientSettings, diskVars
  <1>4. ASSUME NEW n \in Profiles, NEW ok \in BOOLEAN, ApplyProfile(n, ok)
        PROVE  Inv'
    <2>1. sent' \in Seq(Signals)
      BY <1>4, AnswerSeq DEF ApplyProfile, Commands, Answers
    <2>. QED
      BY <1>0, <1>4, <1>p, <2>1, ProfileApplied, SlotKeepsInv
      DEF ApplyProfile, diskVars
  <1>5. ASSUME NEW n \in Profiles, NEW p \in Packets, NEW ok \in BOOLEAN,
               WriteProfile(n, p, ok)
        PROVE  Inv'
    <2>1. sent' \in Seq(Signals)
      BY <1>5, AnswerSeq DEF WriteProfile, Commands, Answers
    <2>2. profiles' \in P
      BY <1>5, <1>p DEF WriteProfile
    <2>. QED
      BY <1>0, <1>5, <2>1, <2>2, SlotKeepsInv DEF WriteProfile
  <1>6. ASSUME NEW n \in Profiles, NEW ok \in BOOLEAN, DeleteProfile(n, ok)
        PROVE  Inv'
    <2>1. sent' \in Seq(Signals)
      BY <1>6, AnswerSeq DEF DeleteProfile, Commands, Answers
    <2>2. profiles' \in P
      BY <1>6, <1>p DEF DeleteProfile
    <2>. QED
      BY <1>0, <1>6, <2>1, <2>2, SlotKeepsInv DEF DeleteProfile
  <1>7. ASSUME NEW n \in Profiles, LoadProfile(n)
        PROVE  Inv'
    <2>1. sent' \in Seq(Signals)
      BY <1>7, AnswerSeq, RefuseSeq DEF LoadProfile, Commands, Answers
    <2>. QED
      BY <1>0, <1>7, <1>p, <2>1, SlotKeepsInv DEF LoadProfile, diskVars
  <1>8. ASSUME NEW names \in SUBSET Profiles, ImportProfiles(names)
        PROVE  Inv'
    <2>1. sent' \in Seq(Signals)
      <3>1. PICK written \in SUBSET names :
              sent' = <<Answer("sendCmdResult", "IMPORT_PROFILES", written = names)>>
        BY <1>8 DEF ImportProfiles
      <3>. QED
        BY <3>1, AnswerSeq DEF Commands, Answers
    <2>2. profiles' \in P
      <3>1. PICK written \in SUBSET names,
                 content \in [names -> Packets \cup {BadFile}],
                 torn \in SUBSET names :
              profiles' = [n \in Profiles |-> IF n \in written THEN content[n]
                                    ELSE IF n \in torn THEN BadFile
                                    ELSE profiles[n]]
        BY <1>8 DEF ImportProfiles
      <3>. QED
        BY <3>1, <1>p
    <2>. QED
      BY <1>0, <1>8, <2>1, <2>2, SlotKeepsInv DEF ImportProfiles
  <1>9. ASSUME NEW data \in SettingsData, NEW saved \in BOOLEAN,
               ApplyDaemonSettings(data, saved)
        PROVE  Inv'
    <2> USE <1>9
    <2>1. sent' \in Seq(Signals)
      <3>1. <<Answer("sendCmdResult", "APPLY_DAEMON_SETT", SaveResult(saved))>>
              \in Seq(Signals)
        BY AnswerSeq DEF Commands, Answers, SaveResult
      <3>2. <<Server("restartService", SettingsEndpoint(data))>> \in Seq(Signals)
        BY EndpointTypes, SignalTypes DEF ServerSignals
      <3>. QED
        BY <3>1, <3>2, EmptySeq, ConcatProperties DEF ApplyDaemonSettings
    <2>2. data.applyInterval \in Nat /\ data.logLevel \in LogLevels
      BY ConstantsAssumption DEF SettingsFields
    <2>3. applyTimer' = SetApplyTimer(data.applyInterval)
      BY <2>2 DEF ApplyDaemonSettings, StartApplyTimer, SetApplyTimer, Timer,
         NullTimer
    <2>4. applyTimer' \in TimerType
      BY <2>3, TimerTypes
    <2>5. TypeOK'
      <3>1. logger' \in [level : LogLevels, open : BOOLEAN]
        BY <2>2, LoggerTypes, SetLogLevel(data.logLevel) \in [level : LogLevels, open : BOOLEAN]
        DEF ApplyDaemonSettings
      <3>2. endpoint' \in Endpoints \cup {NoEndpoint}
        BY EndpointTypes DEF ApplyDaemonSettings, TypeOK
      <3>3. diskSettings' \in SettingsData \cup {NoData} /\ settingsSaved' \in BOOLEAN
        BY DEF ApplyDaemonSettings, SaveResult, TypeOK
      <3>. QED
        BY <2>1, <2>4, <3>1, <3>2, <3>3
        DEF ApplyDaemonSettings, TypeOK, TimerType, appliedVars
    <2>6. TimerMatchesSettings'
      BY <2>2, <2>3, ConstantsAssumption
      DEF ApplyDaemonSettings, TimerMatchesSettings, SetApplyTimer, Timer, NullTimer
    <2>7. LiveSettingsMatchDisk'
      BY ConstantsAssumption
      DEF ApplyDaemonSettings, LiveSettingsMatchDisk, LoadedOr, SaveResult
    <2>8. EndpointIsCurrent'
      BY DEF ApplyDaemonSettings, EndpointIsCurrent, EndpointMoved, CmdEndpoint,
         SettingsEndpoint, ListenAddress, ServerPort
    <2>. QED
      BY <1>0, <2>5, <2>6, <2>7, <2>8 DEF ApplyDaemonSettings, AppliedType
  <1>10. ASSUME RefuseDaemonSettings
         PROVE  Inv'
    <2>1. sent' \in Seq(Signals)
      BY <1>10, AnswerSeq DEF RefuseDaemonSettings, Commands, Answers
    <2>. QED
      BY <1>0, <1>10, <1>p, <2>1, SlotKeepsInv DEF RefuseDaemonSettings, diskVars
  <1>11. CASE InvalidArgs
    <2>1. sent' \in Seq(Signals)
      BY <1>11, AnswerSeq DEF InvalidArgs, Commands
    <2>. QED
      BY <1>0, <1>11, <2>1, QuietStepKeepsInv DEF InvalidArgs, appliedVars
  <1>12. CASE ImportUnreadable
    BY <1>0, <1>12, <1>p, EmptySeq, SlotKeepsInv DEF ImportUnreadable, diskVars
  <1>. QED
    BY <1>1, <1>2, <1>3, <1>4, <1>5, <1>6, <1>7, <1>8, <1>9, <1>10, <1>11, <1>12
    DEF Command

LEMMA EventKeepsInv ==
  ASSUME Inv,
         \/ Tick
         \/ \E ok \in BOOLEAN : OnApplyTimerTimeout(ok)
         \/ \E onBattery, ok \in BOOLEAN : OnBatteryStatusChanged(onBattery, ok)
         \/ OnPrepareForSleep
         \/ \E ok \in BOOLEAN : OnWakeFromSleep(ok)
         \/ Drift
  PROVE  Inv'
  <1> USE DEF Inv
  <1>0. AppliedType /\ (UNCHANGED appliedVars => AppliedType')
    BY DEF AppliedType, TypeOK, appliedVars, ActiveProfileHasPacket
  <1>p. profiles \in [Profiles -> Packets \cup {NoFile, BadFile}]
    BY DEF TypeOK
  <1>1. CASE Tick
    BY <1>0, <1>1, EmptySeq, QuietStepKeepsInv DEF Tick, appliedVars
  <1>2. ASSUME NEW ok \in BOOLEAN, OnApplyTimerTimeout(ok)
        PROVE  Inv'
    <2>1. CASE lastClientPacket = NoPacket
      <3>1. /\ lastClientPacket' = NoPacket
            /\ applyTimer' = StopApplyTimer(applyTimer)
            /\ sent' = <<>>
            /\ UNCHANGED <<up, confVars, diskVars, appliedVars>>
        BY <1>2, <2>1 DEF OnApplyTimerTimeout, appliedVars
      <3>. QED
        BY <1>0, <3>1, EmptySeq, QuietStepKeepsInv DEF appliedVars
    <2>2. CASE lastClientPacket # NoPacket
      <3>1. AppliedType'
        BY <1>0, <1>2, <2>2, Reapplied DEF OnApplyTimerTimeout
      <3>2. sent' \in Seq(Signals)
        BY <1>2, <2>2, AnswerSeq DEF OnApplyTimerTimeout, Commands, Answers
      <3>. QED
        BY <1>2, <1>p, <2>2, <3>1, <3>2, SlotKeepsInv
        DEF OnApplyTimerTimeout, Handling, diskVars
    <2>. QED
      BY <2>1, <2>2
  <1>3. ASSUME NEW onBattery \in BOOLEAN, NEW ok \in BOOLEAN,
               OnBatteryStatusChanged(onBattery, ok)
        PROVE  Inv'
    <2> DEFINE profile == IF onBattery THEN settings.onBatteryProfile
                                       ELSE settings.onPowerSupplyProfile
    <2>1. profile \in Profiles
      BY <1>3, ConstantsAssumption DEF OnBatteryStatusChanged, TypeOK, SettingsFields
    <2>2. AppliedType'
      BY <1>0, <1>3, <2>1, ProfileApplied DEF OnBatteryStatusChanged
    <2>3. sent' \in Seq(Signals)
      BY <1>3, AnswerSeq DEF OnBatteryStatusChanged, Commands, Answers
    <2>. QED
      BY <1>3, <1>p, <2>2, <2>3, SlotKeepsInv DEF OnBatteryStatusChanged, diskVars
  <1>4. CASE OnPrepareForSleep \/ Drift
    <2>1. AppliedType'
      BY <1>0, <1>4 DEF OnPrepareForSleep, Drift, AppliedType, ActiveProfileHasPacket
    <2>. QED
      BY <1>4, <2>1, EmptySeq, QuietStepKeepsInv DEF OnPrepareForSleep, Drift
  <1>5. ASSUME NEW ok \in BOOLEAN, OnWakeFromSleep(ok)
        PROVE  Inv'
    <2>1. AppliedType'
      BY <1>0, <1>5, Reapplied DEF OnWakeFromSleep
    <2>2. sent' \in Seq(Signals)
      <3>1. /\ Answer("sendSettingsApplyResult", "SYS_WAKE_FROM_SLEEP", ok) \in Signals
            /\ Answer("sendDaemonPacket", "GET_DAEMON_PACKET", TRUE) \in Signals
        BY SignalTypes DEF Commands, Answers
      <3>2. <<Answer("sendDaemonPacket", "GET_DAEMON_PACKET", TRUE)>> \in Seq(Signals)
        BY AnswerSeq DEF Commands, Answers
      <3>3. <<Answer("sendSettingsApplyResult", "SYS_WAKE_FROM_SLEEP", ok),
              Answer("sendDaemonPacket", "GET_DAEMON_PACKET", TRUE)>> \in Seq(Signals)
        BY <3>1, PairSeq
      <3>. QED
        BY <1>5, <3>2, <3>3 DEF OnWakeFromSleep
    <2>. QED
      BY <1>5, <1>p, <2>1, <2>2, SlotKeepsInv DEF OnWakeFromSleep, diskVars
  <1>. QED
    BY <1>1, <1>2, <1>3, <1>4, <1>5

LEMMA NextInv == Inv /\ [Next]_vars => Inv'
  <1> SUFFICES ASSUME Inv, [Next]_vars PROVE Inv'
    OBVIOUS
  <1>1. CASE Next
    BY <1>1, ProcessKeepsInv, CommandKeepsInv, EventKeepsInv DEF Next
  <1>2. CASE UNCHANGED vars
    BY <1>2 DEF vars, Inv, TypeOK, TimerMatchesSettings, ActiveProfileHasPacket,
       LiveSettingsMatchDisk, EndpointIsCurrent, CmdEndpoint, SettingsEndpoint,
       ListenAddress, ServerPort
  <1>. QED
    BY <1>1, <1>2

-----------------------------------------------------------------------------
(* The invariant holds in every reachable state.                           *)
THEOREM Invariance == Spec => []Inv
  BY InitInv, NextInv, PTL DEF Spec

(* Every variable keeps its type; a timer object has a usable interval.    *)
THEOREM TypeCorrect == Spec => []TypeOK
  <1>1. Inv => TypeOK
    BY DEF Inv
  <1>. QED
    BY <1>1, Invariance, PTL

(* The apply timer exists, has the current interval and runs exactly when  *)
(* the settings and the packet in hand ask for it.                         *)
THEOREM TimerNeverLost == Spec => []TimerMatchesSettings
  <1>1. Inv => TimerMatchesSettings
    BY DEF Inv
  <1>. QED
    BY <1>1, Invariance, PTL

(* A profile shown as active is backed by a packet.                        *)
THEOREM ActiveProfileBacked == Spec => []ActiveProfileHasPacket
  <1>1. Inv => ActiveProfileHasPacket
    BY DEF Inv
  <1>. QED
    BY <1>1, Invariance, PTL

(* While saves succeed, memory and settings file agree.                    *)
THEOREM SettingsAgree == Spec => []LiveSettingsMatchDisk
  <1>1. Inv => LiveSettingsMatchDisk
    BY DEF Inv
  <1>. QED
    BY <1>1, Invariance, PTL

(* The server is never told to stay at an endpoint of older settings.      *)
THEOREM EndpointCurrent == Spec => []EndpointIsCurrent
  <1>1. Inv => EndpointIsCurrent
    BY DEF Inv
  <1>. QED
    BY <1>1, Invariance, PTL

-----------------------------------------------------------------------------
(* Steps.  What a step does to packet, profile and device: it is a step of *)
(* AppliedSettings or changes none of them, a packet becomes current only  *)
(* when the device took it, a profile only with the packet of its file.    *)
AppliedStep ==
  /\ [Promise!Next]_Promise!appliedVars
  /\ lastClientPacket' \notin {lastClientPacket, NoPacket}
       => hardware' = lastClientPacket'
  /\ activeProfile' \notin {activeProfile, NoProfile}
       => lastClientPacket' = profiles'[activeProfile']

LEMMA NothingAppliedStep ==
  ASSUME UNCHANGED appliedVars
  PROVE  AppliedStep
  BY DEF AppliedStep, appliedVars, Promise!appliedVars

LEMMA ClientStep ==
  ASSUME NEW packet \in Packets, NEW ok \in BOOLEAN,
         ApplyClientPacket(packet, ok)
  PROVE  AppliedStep
  <1>1. CASE ok
    <2>1. Promise!Accept(packet, NoProfile)
      BY <1>1 DEF ApplyClientPacket, Holds, Promise!Accept
    <2>. QED
      BY <1>1, <2>1 DEF ApplyClientPacket, Holds, AppliedStep, Promise!Next
  <1>2. CASE ~ok
    <2>1. Promise!Reject
      BY <1>2 DEF ApplyClientPacket, Holds, Promise!Reject
    <2>. QED
      BY <1>2, <2>1 DEF ApplyClientPacket, Holds, AppliedStep, Promise!Next
  <1>. QED
    BY <1>1, <1>2

LEMMA ProfileStep ==
  ASSUME NEW name \in Profiles, NEW ok \in BOOLEAN,
         ApplyProfileSettings(name, ok), profiles' = profiles
  PROVE  AppliedStep
  <1>1. CASE profiles[name] \notin Packets
    BY <1>1, NothingAppliedStep DEF ApplyProfileSettings
  <1>2. CASE profiles[name] \in Packets /\ ok
    <2>1. Promise!Accept(profiles[name], name)
      BY <1>2 DEF ApplyProfileSettings, Holds, Promise!Accept
    <2>. QED
      BY <1>2, <2>1
      DEF ApplyProfileSettings, Holds, AppliedStep, Promise!Next
  <1>3. CASE profiles[name] \in Packets /\ ~ok
    <2>1. Promise!Disturb
      BY <1>3 DEF ApplyProfileSettings, Holds, Promise!Disturb
    <2>. QED
      BY <1>3, <2>1
      DEF ApplyProfileSettings, Holds, AppliedStep, Promise!Next
  <1>. QED
    BY <1>1, <1>2, <1>3

LEMMA OnStartStep ==
  ASSUME NEW s \in SettingsData, ApplyOnStart(s), profiles' = profiles
  PROVE  AppliedStep
  <1>1. CASE s.onStartProfile = NoProfile
    BY <1>1, NothingAppliedStep DEF ApplyOnStart
  <1>2. CASE s.onStartProfile # NoProfile
    <2>1. s.onStartProfile \in Profiles
      BY <1>2, ConstantsAssumption DEF SettingsFields
    <2>. QED
      BY <1>2, <2>1, ProfileStep DEF ApplyOnStart
  <1>. QED
    BY <1>1, <1>2

LEMMA ReapplyStep ==
  ASSUME NEW ok \in BOOLEAN, Reapply(ok), lastClientPacket # NoPacket
  PROVE  AppliedStep
  <1>1. CASE ok
    <2>1. Promise!Reapply
      BY <1>1 DEF Reapply, Holds, Promise!Reapply
    <2>. QED
      BY <2>1 DEF Reapply, AppliedStep, Promise!Next
  <1>2. CASE ~ok
    <2>1. Promise!Disturb
      BY <1>2 DEF Reapply, Holds, Promise!Disturb
    <2>. QED
      BY <2>1 DEF Reapply, AppliedStep, Promise!Next
  <1>. QED
    BY <1>1, <1>2

LEMMA NextAppliedStep ==
  ASSUME TypeOK, [Next]_vars
  PROVE  AppliedStep
  <1>1. CASE Start
    <2>1. LoadedOr(diskSettings, DefaultSettings) \in SettingsData
      BY LoadedTypes, ConstantsAssumption DEF TypeOK
    <2>. QED
      BY <1>1, <2>1, OnStartStep DEF Start
  <1>2. CASE Reload
    <2>1. LoadedOr(diskSettings, settings) \in SettingsData
      BY LoadedTypes DEF TypeOK
    <2>. QED
      BY <1>2, <2>1, OnStartStep DEF Reload, diskVars
  <1>3. CASE Stop \/ CrashInSave
    <2>1. Promise!Forget
      BY <1>3 DEF Stop, CrashInSave, MemoryLost, Promise!Forget
    <2>. QED
      BY <1>3, <2>1
      DEF Stop, CrashInSave, MemoryLost, AppliedStep, Promise!Next
  <1>4. CASE Command
    <2>1. ASSUME NEW p \in Packets, NEW ok \in BOOLEAN,
                 ApplyClientSettings(p, ok)
          PROVE  AppliedStep
      BY <2>1, ClientStep DEF ApplyClientSettings
    <2>2. ASSUME NEW n \in Profiles, NEW ok \in BOOLEAN, ApplyProfile(n, ok)
          PROVE  AppliedStep
      BY <2>2, ProfileStep DEF ApplyProfile, diskVars
    <2>3. CASE UNCHANGED appliedVars
      BY <2>3, NothingAppliedStep
    <2>. QED
      BY <1>4, <2>1, <2>2, <2>3
      DEF Command, Read, RefusedCommand, WriteProfile, DeleteProfile,
          LoadProfile, ImportProfiles, ApplyDaemonSettings,
          RefuseDaemonSettings
  <1>5. CASE InvalidArgs \/ ImportUnreadable \/ Tick \/ UNCHANGED vars
    BY <1>5, NothingAppliedStep
    DEF InvalidArgs, ImportUnreadable, Tick, vars, appliedVars
  <1>6. ASSUME NEW ok \in BOOLEAN, OnApplyTimerTimeout(ok)
        PROVE  AppliedStep
    BY <1>6, ReapplyStep, NothingAppliedStep DEF OnApplyTimerTimeout
  <1>7. ASSUME NEW onBattery \in BOOLEAN, NEW ok \in BOOLEAN,
               OnBatteryStatusChanged(onBattery, ok)
        PROVE  AppliedStep
    <2> DEFINE profile == IF onBattery THEN settings.onBatteryProfile
                                       ELSE settings.onPowerSupplyProfile
    <2>1. profile \in Profiles
      BY <1>7, ConstantsAssumption
      DEF OnBatteryStatusChanged, TypeOK, SettingsFields
    <2>. QED
      BY <1>7, <2>1, ProfileStep DEF OnBatteryStatusChanged, diskVars
  <1>8. CASE OnPrepareForSleep \/ Drift
    <2>1. Promise!Disturb
      BY <1>8 DEF OnPrepareForSleep, Drift, Promise!Disturb
    <2>. QED
      BY <1>8, <2>1 DEF OnPrepareForSleep, Drift, AppliedStep, Promise!Next
  <1>9. ASSUME NEW ok \in BOOLEAN, OnWakeFromSleep(ok)
        PROVE  AppliedStep
    BY <1>9, ReapplyStep, NothingAppliedStep DEF OnWakeFromSleep
  <1>. QED
    BY <1>1, <1>2, <1>3, <1>4, <1>5, <1>6, <1>7, <1>8, <1>9 DEF Next

(* The daemon implements AppliedSettings: whatever timer, disk, processes  *)
(* and events do, what is applied changes only as promised there.          *)
THEOREM ImplementsAppliedSettings == Spec => KeepsPromise
  <1>1. Init => Promise!Init
    BY DEF Init, Promise!Init
  <1>2. TypeOK /\ [Next]_vars => [Promise!Next]_Promise!appliedVars
    BY NextAppliedStep DEF AppliedStep
  <1>. QED
    BY <1>1, <1>2, TypeCorrect, PTL DEF Spec, KeepsPromise, Promise!Spec

(* Nothing is ever re-applied that the device did not take in full once.   *)
THEOREM PacketRecorded == Spec => PacketRecordedWhenApplied
  <1>1. TypeOK /\ [Next]_vars
          => [lastClientPacket' \notin {lastClientPacket, NoPacket}
                => hardware' = lastClientPacket']_vars
    BY NextAppliedStep DEF AppliedStep
  <1>. QED
    BY <1>1, TypeCorrect, PTL DEF Spec, PacketRecordedWhenApplied

(* A profile is active only with the packet its file held.                 *)
THEOREM ProfileFromDisk == Spec => ActiveProfileFromDisk
  <1>1. TypeOK /\ [Next]_vars
          => [activeProfile' \notin {activeProfile, NoProfile}
                => lastClientPacket' = profiles'[activeProfile']]_vars
    BY NextAppliedStep DEF AppliedStep
  <1>. QED
    BY <1>1, TypeCorrect, PTL DEF Spec, ActiveProfileFromDisk
-----------------------------------------------------------------------------
(* Answers.                                                                *)

(* Of a row of signals, exactly one answers the client.                    *)
OneAnswer(signals) ==
  \E i \in DOMAIN signals :
    /\ signals[i].sig \in Answers
    /\ \A j \in DOMAIN signals : signals[j].sig \in Answers => j = i

LEMMA LoneAnswer ==
  ASSUME NEW sig \in Answers, NEW cmd, NEW ok
  PROVE  OneAnswer(<<Answer(sig, cmd, ok)>>)
  <1>. DEFINE signals == <<Answer(sig, cmd, ok)>>
  <1>1. DOMAIN signals = {1} /\ signals[1].sig = sig
    BY DEF Answer
  <1>. QED
    BY <1>1 DEF OneAnswer

(* Signals that answer nobody may come before the answer.                  *)
LEMMA AnswerBehind ==
  ASSUME NEW other, other.sig \notin Answers,
         NEW sig \in Answers, NEW cmd, NEW ok
  PROVE  OneAnswer(<<other, Answer(sig, cmd, ok)>>)
  <1>. DEFINE signals == <<other, Answer(sig, cmd, ok)>>
  <1>1. DOMAIN signals = {1, 2} /\ signals[1] = other /\ signals[2].sig = sig
    BY DEF Answer
  <1>. QED
    BY <1>1 DEF OneAnswer

LEMMA RefusalAnswers ==
  ASSUME NEW cmd
  PROVE  OneAnswer(Refuse(cmd))
  <1>1. Answer("sendError", cmd, FALSE).sig \notin Answers
    BY DEF Answer, Answers
  <1>2. "sendCMDFail" \in Answers
    BY DEF Answers
  <1>. QED
    BY <1>1, <1>2, AnswerBehind DEF Refuse

(* A signal in front of an answer.                                         *)
LEMMA PairJoined ==
  ASSUME NEW S, NEW a \in S, NEW b \in S
  PROVE  <<a>> \o <<b>> = <<a, b>> /\ <<>> \o <<b>> = <<b>>
  <1>. DEFINE joined == <<a>> \o <<b>>
              pair == <<a, b>>
  <1>1. <<a>> \in Seq(S) /\ <<b>> \in Seq(S)
    OBVIOUS
  <1>2. joined \in Seq(S) /\ Len(joined) = 2 /\ joined[1] = a /\ joined[2] = b
    BY <1>1, ConcatProperties
  <1>3. pair \in Seq(S) /\ Len(pair) = 2 /\ pair[1] = a /\ pair[2] = b
    OBVIOUS
  <1>4. \A i \in 1 .. 2 : i = 1 \/ i = 2
    OBVIOUS
  <1>5. joined = pair
    <2>. HIDE DEF joined, pair
    <2>1. \A i \in 1 .. Len(joined) : joined[i] = pair[i]
      BY <1>2, <1>3, <1>4
    <2>. QED
      BY <1>2, <1>3, <2>1, SeqEqual
  <1>. QED
    BY <1>1, <1>5, ConcatEmptySeq

(* Settings that move the server are answered behind the signal that moves *)
(* it.                                                                     *)
LEMMA SettingsAnswered ==
  ASSUME NEW data \in SettingsData, NEW saved \in BOOLEAN,
         ApplyDaemonSettings(data, saved)
  PROVE  OneAnswer(sent')
  <1>. DEFINE move == Server("restartService", SettingsEndpoint(data))
              answer == Answer("sendCmdResult", "APPLY_DAEMON_SETT",
                               SaveResult(saved))
  <1>1. "sendCmdResult" \in Answers /\ move.sig \notin Answers
    BY DEF Answers, Server
  <1>2. sent' = <<move, answer>> \/ sent' = <<answer>>
    <2>1. sent' = (IF EndpointMoved(settings, data) THEN <<move>> ELSE <<>>)
                    \o <<answer>>
      BY DEF ApplyDaemonSettings
    <2>2. <<move>> \o <<answer>> = <<move, answer>> /\ <<>> \o <<answer>> = <<answer>>
      <3>. HIDE DEF move, answer
      <3>1. move \in {move, answer} /\ answer \in {move, answer}
        OBVIOUS
      <3>. QED
        BY <3>1, PairJoined
    <2>3. CASE EndpointMoved(settings, data)
      <3>1. sent' = <<move>> \o <<answer>>
        BY <2>1, <2>3
      <3>. HIDE DEF move, answer
      <3>. QED
        BY <2>2, <3>1
    <2>4. CASE ~EndpointMoved(settings, data)
      <3>1. sent' = <<>> \o <<answer>>
        BY <2>1, <2>4
      <3>. HIDE DEF move, answer
      <3>. QED
        BY <2>2, <3>1
    <2>. QED
      BY <2>3, <2>4
  <1>. QED
    <2>1. OneAnswer(<<answer>>)
      BY <1>1, LoneAnswer
    <2>2. OneAnswer(<<move, answer>>)
      <3>. HIDE DEF move
      <3>. QED
        BY <1>1, AnswerBehind
    <2>. HIDE DEF move, answer
    <2>. QED
      BY <1>2, <2>1, <2>2

LEMMA CommandAnswered ==
  ASSUME Command
  PROVE  OneAnswer(sent')
  <1>1. ASSUME NEW cmd \in DOMAIN ReadAnswer, Read(cmd)
        PROVE  OneAnswer(sent')
    <2>1. ReadAnswer[cmd] \in Answers
      BY DEF ReadAnswer, Answers
    <2>. QED
      BY <1>1, <2>1, LoneAnswer DEF Read
  <1>2. ASSUME NEW cmd, RefusedCommand(cmd)
        PROVE  OneAnswer(sent')
    BY <1>2, RefusalAnswers DEF RefusedCommand
  <1>3. {"sendSettingsApplyResult", "sendCmdResult", "sendLoadedProfile"}
          \subseteq Answers
    BY DEF Answers
  <1>4. ASSUME NEW p, NEW ok, ApplyClientSettings(p, ok)
        PROVE  OneAnswer(sent')
    BY <1>3, <1>4, LoneAnswer DEF ApplyClientSettings
  <1>5. ASSUME NEW n, NEW ok, ApplyProfile(n, ok)
        PROVE  OneAnswer(sent')
    BY <1>3, <1>5, LoneAnswer DEF ApplyProfile
  <1>6. ASSUME NEW n, NEW p, NEW ok, WriteProfile(n, p, ok)
        PROVE  OneAnswer(sent')
    BY <1>3, <1>6, LoneAnswer DEF WriteProfile
  <1>7. ASSUME NEW n, NEW ok, DeleteProfile(n, ok)
        PROVE  OneAnswer(sent')
    BY <1>3, <1>7, LoneAnswer DEF DeleteProfile
  <1>8. ASSUME NEW n, LoadProfile(n)
        PROVE  OneAnswer(sent')
    BY <1>3, <1>8, LoneAnswer, RefusalAnswers DEF LoadProfile
  <1>9. ASSUME NEW names, ImportProfiles(names)
        PROVE  OneAnswer(sent')
    BY <1>3, <1>9, LoneAnswer DEF ImportProfiles
  <1>10. ASSUME RefuseDaemonSettings
         PROVE  OneAnswer(sent')
    BY <1>3, <1>10, LoneAnswer DEF RefuseDaemonSettings
  <1>. QED
    BY <1>1, <1>2, <1>4, <1>5, <1>6, <1>7, <1>8, <1>9, <1>10, SettingsAnswered
    DEF Command

(* Every command is answered exactly once, whatever it asks for, whether   *)
(* it succeeds or not and whether it moves the server or not.              *)
THEOREM EachAnsweredOnce == Spec => AnsweredOnce
  <1>1. Command
          => \E i \in DOMAIN sent' :
               /\ sent'[i].sig \in Answers
               /\ \A j \in DOMAIN sent' : sent'[j].sig \in Answers => j = i
    BY CommandAnswered DEF OneAnswer
  <1>. QED
    BY <1>1, PTL DEF Spec, AnsweredOnce
=============================================================================
