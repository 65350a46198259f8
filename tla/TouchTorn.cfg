\* The same screen: events of a group are lost in the overflow.
CONSTANTS
  c1 = c1
  c2 = c2
  r1 = r1
  r2 = r2
  Column = {c1, c2}
  Row = {r1, r2}
  Button <- Whole
  Origin = origin
  None = none
  Up = up
  Fast <- Whole
  DrawEnd <- Nothing
  Callback <- Whole
  EcsButton <- Nothing
  MaxQueue = 4
  MaxReports = 5
SPECIFICATION Spec
INVARIANT CountedWasTouched
SYMMETRY Symmetry
CHECK_DEADLOCK FALSE
