CONSTANTS
  F1 = 0
  AboveOn = {"left"}
  MaxForked = 2
  MaxUnderWay = 3
  MaxScripts = 1
SPECIFICATION BtSpec
INVARIANT GoodPasses
CHECK_DEADLOCK FALSE
