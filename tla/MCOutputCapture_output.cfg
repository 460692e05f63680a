SPECIFICATION FairSpec
CONSTANTS
  Streams = {"stdout", "stderr"}
  Kinds = {"a"}
  MaxBytes <- LongAndShort
  Cap = 3
  MaxOut = 2
  PageSizes = {0, 1}
INVARIANTS RingIsTail DoneMeansCaptured PagingComplete TruncationSignalled
PROPERTIES ExitIsPublished
CHECK_DEADLOCK FALSE
