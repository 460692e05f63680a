SPECIFICATION FairSpec
CONSTANTS
  Nums = {0, 1, 2}
  Archs = {"amd64"}
  GoArch = "amd64"
  Enabled = TRUE
  MaxBuild = 2
  MaxFaults = 3
PROPERTIES ImplementsAtomicUpdate Settles
CHECK_DEADLOCK FALSE
