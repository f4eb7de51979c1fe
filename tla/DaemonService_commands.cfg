\* Commands and settings: one profile, two packets, three settings.
SPECIFICATION FairSpec
CONSTANTS
  boot = boot
  battery = boot
  lan = lan
  any = any
  pkA = pkA
  pkB = pkB
  NoPacket = NoPacket
  NoProfile = NoProfile
  NoFile = NoFile
  BadFile = BadFile
  NoAdr = NoAdr
  NoEndpoint = NoEndpoint
  NoData = NoData
  Profiles = {boot}
  Packets = {pkA, pkB}
  Addresses = {lan, any}
  Ports = {1, 2}
  AnyAdr = any
  DefaultPort = 1
  CmdAdr = any
  CmdPort = 1
  LogLevels <- MCLogLevels
  LogNone = "None"
  SettingsData <- MCSettings
  DefaultSettings <- MCDefaults
  MinApplyInterval = 0
  LogOpens = {TRUE, FALSE}
INVARIANTS
  TypeOK
  TimerMatchesSettings
  LiveSettingsMatchDisk
  EndpointIsCurrent
PROPERTIES
  AnsweredOnce
  DriftRepaired
