SPECIFICATION IdentitySpec
CONSTANTS
  k1 = k1
  k2 = k2
  k3 = k3
  a1 = a1
  a2 = a2
  None = None
  Keys = {k1, k2, k3}
  Authorities = {a1, a2}
  Threshold = 2
  EpochEvents = 2
  Signings <- MCSignings
  MaxEntries = 3
  MaxEpochs = 2
  Sessions <- MCSessions
  Parent <- MCParent
  Declarable <- MCDeclarable
  MaxCerts = 3
  MaxLost = 1
  MaxRows = 2
SYMMETRY Alike
INVARIANTS
  AuditNamesWhatIsLost
  AnsweredChainsHold
  AnchoredRowsAreTheOffices
PROPERTIES
  ImplementsMembership
CHECK_DEADLOCK FALSE
