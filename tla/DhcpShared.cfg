\* One server, two addresses and a neighbour whose replies are overheard.
CONSTANTS
  Server = {s1}
  Address = {a1, a2}
  Client = me
  Neighbour = {other}
  Zero = zero
  XidLimit = 2
SPECIFICATION Spec
INVARIANTS TypeOK AckedLeaseIsOurs SelectedOfferRequested BackoffBudget
PROPERTY AdvancesOnOwnAnswer
SYMMETRY AddressSymmetry
CHECK_DEADLOCK FALSE
