\* A watch with seven checked items, the touch screen driver perhaps late.
CONSTANTS
  HardwareList <- Watch
  TsNum = 3
SPECIFICATION FairSpec
INVARIANTS TypeOK PassMeansAllPassed FailuresNamed ScriptFindsTouchscreen StartsAfterTouch
PROPERTY EndsOnceFound
CHECK_DEADLOCK FALSE
