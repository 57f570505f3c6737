SPECIFICATION Spec
CONSTANTS
  kport = kport
  klocal = klocal
  kuser = kuser
  one = one
  six = six
  eight = eight
  many = many
  ip = ip
  zero = zero
  a = a
  b = b
  Word <- MCWord
  NL = NL
  Keyword <- MCKeyword
  Number <- MCNumber
  Inet <- MCInet
  Files <- MCFiles
  Slots = {0, 1, 2, 3, 4, 5, 6, 7, 8, 9}
  NULL = NULL
  PortRange = 8
  Line = 4
  MinId = 3
  MaxId = 8
INVARIANTS
  DocumentedIds
CHECK_DEADLOCK FALSE
