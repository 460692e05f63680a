SPECIFICATION Spec
CONSTANTS
  r1 = r1
  r2 = r2
  Procs = {p1}
  Execs = {p1}
  Pids = {n1}
  NoPid = NoPid
  Endings = {"exit0", "exit111", "denied", "setup"}
  Foreign = {}
  Unobservable = {p1}
  Undeletable = {p1}
  NoProc = NoProc
  Reqs = {r1}
  MethodsOf <- JustRead
  SandboxSupported = TRUE
  AutoUpdate = TRUE
  MaxCrashes = 1
  MaxBusy = 4
  MaxDbErrors = 1
INVARIANTS HistoryTruthful SetupFailureExact ScratchLifetime AnsweredMeansRecorded
PROPERTIES ImplementsExecutionLog
CHECK_DEADLOCK FALSE
