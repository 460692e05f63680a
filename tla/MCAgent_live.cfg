SPECIFICATION FairSpec
CONSTANTS
  r1 = r1
  r2 = r2
  Procs = {p1}
  Execs = {p1}
  Pids = {n1}
  NoPid = NoPid
  Endings = {"exit0", "setup"}
  Foreign = {}
  Unobservable = {p1}
  Undeletable = {}
  NoProc = NoProc
  Reqs = {r1, r2}
  MethodsOf <- ReadAndAsk
  SandboxSupported = TRUE
  AutoUpdate = FALSE
  MaxCrashes = 0
  MaxBusy = 1
  MaxDbErrors = 0
INVARIANTS TerminatedMeansGone NotFoundHonest ListHonest
PROPERTIES StopCompletes TerminateWorks HistoryCompletes
CHECK_DEADLOCK FALSE
