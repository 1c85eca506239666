SPECIFICATION Spec
CONSTANTS
  pA = pA
  pB = pB
  pC = pC
  pD = pD
  mA = mA
  mB = mB
  mC = mC
  kA = kA
  kA2 = kA2
  kB = kB
  kC = kC
  kE = kE
  wit = wit
  prin = prin
  firstSet = firstSet
  secondSet = secondSet
  thirdSet = thirdSet
  seatA = seatA
  seatB = seatB
  seatW = seatW
  seatP = seatP
  None = None
  Sessions = {pA, pB, pC, pD}
  ParentOf <- MCParentOf
  AnchorKeyOf <- MCAnchorKeyOf
  Members = {mA, mB, mC}
  MemberOf <- MCMemberOf
  Lineage <- MCLineage
  CurrentKey <- MCCurrentKey
  Running = {pB, pC, pD}
  RevokedMembers = {mC}
  SetIds = {firstSet, secondSet, thirdSet}
  SetOrder <- MCSetOrder
  RolesOf <- MCRolesOf
  StandingOf <- MCStandingOf
  Keys = {kA, kA2, kB, kC, kE}
  WitnessStandings = {wit}
  Edges <- MCEdges
  EnforcerKey = kE
  FilingSets <- MCFilingSets
  Filers = {pB, pC}
  FloodCap = 1
  Rules = {"rule"}
  Threshold = 2
  Grants = {1}
  MaxCases = 2
  MaxRemedies = 1
INVARIANTS
  NamedMembersRecuse ClaimedWritesHappened
PROPERTIES
  ImplementsDisposition
CHECK_DEADLOCK FALSE
