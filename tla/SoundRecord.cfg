CONSTANTS
  buffer_size = 24
  Sizes = {26, 34}
  Trailers <- SomeTrailers
  RecordLen = 36
  Parts = {5}
  OldLen = 40
SPECIFICATION FairSpec
PROPERTY AllEnds
CHECK_DEADLOCK FALSE
