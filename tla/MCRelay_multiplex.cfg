SPECIFICATION Spec
CONSTANTS
  a1 = a1
  a2 = a2
  a3 = a3
  d1 = d1
  k1 = k1
  k2 = k2
  NoAgent = NoAgent
  NoConn = NoConn
  NoCall = NoCall
  Devices = {d1}
  Agents = {a1}
  Trusted = {a1}
  DeviceOf <- SameDevice
  TargetOf <- ToD1
  ToolOf <- Reads
  Conns <- ConnsUpTo2
  Calls = {k1, k2}
  OverLimit <- AnySize
  MaxFaults = 0
SYMMETRY CallSymmetry
INVARIANTS ResponseCorrelation ReadLoopNeverBlocks NoPendingLeak
CHECK_DEADLOCK FALSE
