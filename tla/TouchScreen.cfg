\* Buttons of every kind beside a free cell, all with check_bt, and a queue that overflows.
CONSTANTS
  c1 = c1
  c2 = c2
  r1 = r1
  r2 = r2
  Column = {c1, c2}
  Row = {r1, r2}
  Button <- Corner
  Origin = origin
  None = none
  Up = up
  Fast <- FirstOnly
  DrawEnd <- Lower
  Callback <- Corner
  EcsButton <- Nothing
  MaxQueue = 4
  MaxReports = 5
SPECIFICATION Spec
INVARIANTS TypeOK EndsWhenAllCounted PictureFollowsTouch
CHECK_DEADLOCK FALSE
