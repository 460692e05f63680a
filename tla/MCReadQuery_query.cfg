SPECIFICATION FairSpec
CONSTANTS
  query = q
  Procs = {q}
  Pids = {1}
  NoPid = 0
  Endings = {"exit0", "exit1"}
  Foreign = {}
  Counts <- SomeCounts
  Hours <- SomeHours
  Limit = 2
  MaxWritten = 4
INVARIANTS BoundsAsDescribed CutShortMeansGone OutputHonest
PROPERTIES QueryReturns
CHECK_DEADLOCK FALSE
