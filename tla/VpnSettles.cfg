SPECIFICATION FairSpec
CONSTANTS
  c1 = c1
  c2 = c2
  w = w
  a1 = a1
  a2 = a2
  a3 = a3
  srv = srv
  none = none
  Byte <- MCByte
  Magic = 4
  Ver4 <- MCVer4
  LocalNet = 0
  Users = {1}
  SrvTable <- MCSrvTable
  Clients = {c1}
  Uid <- MCUid
  CliTable <- MCCliTable
  ClientPackets <- MCClientPackets
  ServerPackets <- FewServerPackets
  Addr = {a1, a2}
  ServerAddr = srv
  NoAddr = none
  MaxNet = 1
  MayDuplicate = FALSE
INVARIANTS
  NeverStuck
PROPERTIES
  Converges
  TunServed
  Reaches
