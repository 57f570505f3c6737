SPECIFICATION Spec
CONSTANTS
  s1 = s1
  c1 = c1
  c2 = c2
  o1 = o1
  Servers = {s1}
  Clients = {c1, c2}
  Others = {o1}
  Port <- MCPort
  Own <- MCOwn
  Devices = 3
  Nobody = Nobody
  CommandsFail = TRUE
INVARIANTS
  TypeOK
  ServerKeepsDevice
  ClientKeepsTun0
