SPECIFICATION Spec
CONSTANTS
  r1 = r1
  r2 = r2
  Procs = {p1, p2}
  Execs = {p1, p2}
  Pids = {n1, n2}
  NoPid = NoPid
  Endings = {"exit0"}
  Foreign = {p2}
  Unobservable = {p1}
  Undeletable = {}
  NoProc = NoProc
  Reqs = {r1, r2}
  MethodsOf <- StartAndRead
  SandboxSupported = TRUE
  AutoUpdate = FALSE
  MaxCrashes = 0
  MaxBusy = 0
  MaxDbErrors = 0
INVARIANTS KillBoundary
CHECK_DEADLOCK FALSE
