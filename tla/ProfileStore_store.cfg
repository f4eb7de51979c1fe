\* Two names, two packets, two builds; files of others and damaged ones.
SPECIFICATION FairSpec
CONSTANTS
  NoValue = NoValue
  Nothing = Nothing
  Names <- MCNames
  BaseName <- MCBaseName
  Builds <- MCBuilds
  Packets = {"full", "small"}
  PacketOf <- MCPacketOf
  Garbled = Garbled
  Current <- MCCurrent
  Cuts = {4}
INVARIANTS
  TypeOK
  ShownIsApplied
  NoChangeForgotten
PROPERTIES
  KeepsProfiles
  ListReachesClients
