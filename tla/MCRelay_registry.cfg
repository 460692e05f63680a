SPECIFICATION Spec
CONSTANTS
  a1 = a1
  a2 = a2
  a3 = a3
  d1 = d1
  k1 = k1
  k2 = k2
  NoAgent = NoAgent
  NoConn = NoConn
  NoCall = NoCall
  Devices = {d1}
  Agents = {a1, a2, a3}
  Trusted = {a1, a2}
  DeviceOf <- SameDevice
  TargetOf <- ToD1
  ToolOf <- Writes
  Conns <- ConnsUpTo3
  Calls = {}
  OverLimit = {}
  MaxFaults = 2
INVARIANTS TypeOK RegistryRoutes NoZombie
PROPERTY NewConnectionWins
CHECK_DEADLOCK FALSE
