\* The touch screen registers after the first event of another device.
CONSTANTS
  HardwareList <- Watch
  TsNum = 3
SPECIFICATION FairSpec
PROPERTY RunEnds
CHECK_DEADLOCK FALSE
