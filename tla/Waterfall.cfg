SPECIFICATION Spec
CONSTANTS
  m1 = m1
  m2 = m2
  d1 = d1
  d2 = d2
  None = None
  Nobody = Nobody
  Unknown = Unknown
  Unbound = "no service"
  Horizon = 3
  Scopes = {"outage"}
  Clauses <- MCClauses
  Floor = {"R-2"}
  Suspensions <- MCSuspensions
  Terms = {1, 2}
  Window = 1
  MaxDeclarations = 2
  Rules = {"I-5", "D-7", "CF-1"}
  Threshold = 2
  Deciders <- MCDeciders
  Outcomes = {"granted", "considered"}
  Term = 1
  MaxPetitions = 1
  MaxAttempts = 1
  MaxDissents = 1
  MaxFlags = 2
  Services = {"sandbox", "compact-sandbox", "dynamicCordisRunner"}
  Requires = {"compact-sandbox"}
  Register <- MCRegister
  BodyClauses <- MCClauses
  Sessions = {m1, m2}
  Declared = "declared"
  Other = "other"
  Gone = "gone"
  Paths <- MCPaths
  Existing <- MCExisting
  Protected <- MCProtected
  MountTerm = 2
  MaxMounts = 2
  Words <- MCWords
  MaxWords = 4
  Foreign = {m2}
  MaxActive = 1
  MaxCalls = 2
  Amendments = {"a"}
  AuthorityKeys = {1, 2, 3}
  Quorum = 2
  MaxEnactments = 3
  MaxRotations = 1
  CutShort = CutShort
  Slices <- MCSlices
SYMMETRY Alike
INVARIANTS
  NoFreshEmergency
  DecisionsStand
  UnaskedActsAreGoverned
  BindsWereGranted
  ErrsTowardsAsking
  BootsTheLedgersLaw
CHECK_DEADLOCK FALSE
