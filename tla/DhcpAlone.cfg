\* Two servers and no other client: without symmetry, for liveness.
CONSTANTS
  Server = {s1, s2}
  Address = {a1, a2}
  Client = me
  Neighbour = {}
  Zero = zero
  XidLimit = 2
SPECIFICATION FairSpec
PROPERTIES ImplementsLease QuietEnds
CHECK_DEADLOCK FALSE
