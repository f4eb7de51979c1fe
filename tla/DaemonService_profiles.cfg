\* Profiles: two of them and two packets; two settings.
SPECIFICATION Spec
CONSTANTS
  boot = boot
  battery = battery
  lan = lan
  any = any
  pkA = pkA
  pkB = pkB
  NoPacket = NoPacket
  NoProfile = NoProfile
  NoFile = NoFile
  BadFile = BadFile
  NoAdr = NoAdr
  NoEndpoint = NoEndpoint
  NoData = NoData
  Profiles = {boot, battery}
  Packets = {pkA, pkB}
  Addresses = {lan, any}
  Ports = {1, 2}
  AnyAdr = any
  DefaultPort = 1
  CmdAdr = any
  CmdPort = 1
  LogLevels <- MCLogLevels
  LogNone = "None"
  SettingsData <- MCFewSettings
  DefaultSettings <- MCDefaults
  MinApplyInterval = 0
  LogOpens = {TRUE}
PROPERTIES
  ActiveProfileFromDisk
  KeepsPromise
