SPECIFICATION Spec
CONSTANTS
  r1 = r1
  r2 = r2
  r3 = r3
  Reqs = {r1, r2, r3}
  Methods <- Interfering
  Paths <- SomePaths
  Inodes = {1, 2, 3, 4}
  Special = {4}
  MaxFileReadBytes = 1
  DataLen = 2
INVARIANTS AckedWriteLands ListingFaithful
PROPERTIES OversizeOnlyByRace
CHECK_DEADLOCK FALSE
