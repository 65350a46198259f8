\* An item listed twice fails and then passes.
CONSTANTS
  HardwareList <- Watch
  TsNum = 3
SPECIFICATION Spec
INVARIANT FailedAreShown
CHECK_DEADLOCK FALSE
