SPECIFICATION Spec
CONSTANTS
  bash1 = bash1
  bash2 = bash2
  spawn1 = spawn1
  ask1 = ask1
  ask2 = ask2
  None = None
  Works = {bash1, bash2, spawn1}
  Floor = {ask1, ask2}
  Spawns = {spawn1}
  Children = {bash1, bash2, spawn1}
  Tool <- MCTool
  GatePrint <- MCGatePrint
  Limit <- MCLimit
  Classes = {"denied"}
  CallWindow = 4
  PollWindow = 3
  LoopPenalty = 1
  RepairBudget = 1
  MaxSeq = 8
  MaxInFlight = 2
SYMMETRY OpSymmetry
INVARIANTS
  RepairsEndTheSession
PROPERTIES
  WorkWaitsForThePrincipal
CHECK_DEADLOCK FALSE
