\* A queue that never overflows: what is tapped is counted, and nothing else.
\* A key, a pass and a fail button (inputevent.c): either verdict ends the listening.
CONSTANTS
  c1 = c1
  c2 = c2
  r1 = r1
  r2 = r2
  Column = {c1, c2}
  Row = {r1, r2}
  Button <- Corner
  Origin = origin
  None = none
  Up = up
  Fast <- FirstOnly
  DrawEnd <- Lower
  Callback <- Nothing
  EcsButton <- Lower
  MaxQueue = 16
  MaxReports = 4
SPECIFICATION FairSpec
INVARIANTS CountedWasTouched OneVerdict
PROPERTY TapCounts
CHECK_DEADLOCK FALSE
