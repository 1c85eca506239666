SPECIFICATION Spec
CONSTANTS
  LowerOf <- MCLowerOf
  SubdomainOf <- NoPairs
  SegmentPrefix <- NoPairs
  Credential <- MCCredential
  parent = parent
  child = child
  Sessions = {parent, child}
  Descends <- MCDescends
  Slots = {l}
  Requests <- MCRequests
  Mints <- MCMints
  Addrs = {"a", "b", "local"}
  Public = {"a", "b"}
  Recheck = 1
  MaxConns = 1
  MaxRows = 2
  MaxTime = 3
INVARIANTS
  CutWithinRecheck
  DialedWhereConsented
  CarriesItsOwn
CHECK_DEADLOCK FALSE
