\* The fallback of dhcpclient.c:430-433 on a shared segment.
CONSTANTS
  Server = {s1}
  Address = {a1, a2}
  Client = me
  Neighbour = {other}
  Zero = zero
  XidLimit = 2
SPECIFICATION Spec
INVARIANT AssumedWasOffered
CHECK_DEADLOCK FALSE
