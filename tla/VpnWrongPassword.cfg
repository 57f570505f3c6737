SPECIFICATION Spec
CONSTANTS
  c1 = c1
  c2 = c2
  w = w
  a1 = a1
  a2 = a2
  a3 = a3
  srv = srv
  none = none
  Byte <- MCByte
  Magic = 4
  Ver4 <- MCVer4
  LocalNet = 0
  Users <- MCUsers
  SrvTable <- MCSrvTable
  Clients = {c1, w}
  Uid <- MCUid
  CliTable <- MCCliTable
  ClientPackets <- FewClientPackets
  ServerPackets <- FewServerPackets
  Addr = {a1, a2, a3}
  ServerAddr = srv
  NoAddr = none
  MaxNet = 2
  MayDuplicate = TRUE
SYMMETRY Renamings
CONSTRAINT TwoUnderWay
INVARIANTS
  AddrOfOwner
PROPERTIES
  CarriesPackets
