SPECIFICATION Spec
CONSTANTS
  a1 = a1
  a2 = a2
  a3 = a3
  d1 = d1
  k1 = k1
  k2 = k2
  NoAgent = NoAgent
  NoConn = NoConn
  NoCall = NoCall
  Devices = {d1}
  Agents = {a1}
  Trusted = {a1}
  DeviceOf <- SameDevice
  TargetOf <- ToD1
  ToolOf <- Writes
  Conns <- ConnsUpTo2
  Calls = {k1}
  OverLimit <- AnySize
  MaxFaults = 2
INVARIANTS AtMostOnce OutcomeHonest LostOutcomeByHint
PROPERTY ImplementsService
CHECK_DEADLOCK FALSE
